-------------------------- MODULE RadioControl_proofs -------------------------
(***************************************************************************)
(* The safety properties of RadioControl, for any number of clients,       *)
(* runtimes, patches and keepers, and for any bounds.                      *)
(*                                                                         *)
(* The invariant has three layers.  Shaped: what every thread has in its   *)
(* locals where it is.  Held: who owns the radio, the patching locks and   *)
(* the scanner.  Told: as long as no patch was overtaken, what the queue,  *)
(* the threads and the table know of the radio.                            *)
(***************************************************************************)
EXTENDS RadioControl, FiniteSetTheorems, TLAPS

----------------------------------------------------------------------------
(* What a thread has, by where it is.                                      *)

\* Where nothing is under way, where a patch has its runtime's patching lock or
\* has had it, and where the radio's runtime is about to be stopped.
Resting == {"idle", "off", "loop", "last", "leave", "ended", "list scan"}
Patched == {"wait", "validate", "apply", "back", "restart", "relane", "mark"}
Stopping == {"joining", "halt"}

\* The thread has the patching lock of the runtime it read first.
Holding(t) == loc[t].ser # None /\ pc[t] # "wait"

Fits(t, p, l) ==
  /\ p \in Resting => l = NoLocals
  /\ p \in Patched => l.ser \in Runtimes
  /\ p \in {"take", "restore", "revive", "commit"} => l.ser = None
  /\ p \in {"apply", "back", "relane", "take", "halt"} => l.rt \in Runtimes
  /\ p = "joining" /\ l.ser # None => l.rt \in Runtimes
  /\ p \in {"wait", "validate", "revive", "commit"} => l.rt = None
  /\ (l.new # None) <=> (p \in {"swap", "revive"})
  /\ l.guard => l.ser # None /\ p \notin {"wait", "validate"}
  /\ p = "commit" => l.keeper \in Keepers
  /\ p = "revive" => l.actual \in Settings
  /\ t \in Clients =>
       /\ p \notin {"off", "loop", "last", "leave", "ended", "take", "restore", "revive"}
       /\ p = "swap" => l.ser # None
  /\ t = "scanner" => /\ p \notin {"idle", "list scan", "commit", "revive"}
                      /\ p \in Stopping => l.ser # None
  /\ t = "drainer" => p \in {"idle", "joining", "halt"} /\ l.ser = None
  /\ t = "hotplug" => p \in {"idle", "revive"}

\* The entry of the table, and the queues.
Entry ==
  /\ IF Present THEN set.rt \in Runtimes ELSE set = Gone
  /\ faults <= troubles
  /\ \A r \in Runtimes : rts[r].waiting # Nothing => rts[r].batch < MaxBatches

\* The patches that have a RatePatchGuard are counted.
Guards == {t \in Threads : loc[t].guard}
Rated == Present => set.ratePatches = Cardinality(Guards)

Shaped == TypeOK /\ (\A t \in Threads : Fits(t, pc[t], loc[t])) /\ Entry /\ Rated

----------------------------------------------------------------------------
(* Who has what.                                                           *)

\* The patching lock is held by the thread that took it, and not on a runtime
\* that sweeps.
Locks ==
  /\ \A t \in Threads : Holding(t) => /\ rts[loc[t].ser].patching = t
                                      /\ ~rts[loc[t].ser].sweeping
  /\ \A r \in Runtimes : rts[r].patching # "free" =>
       Holding(rts[r].patching) /\ loc[rts[r].patching].ser = r

\* A runtime that was started and not put into the table yet has the radio, and
\* nobody else knows of it.
Private ==
  \A t \in Threads : loc[t].new # None =>
    /\ handle = loc[t].new
    /\ set.rt # loc[t].new
    /\ \A o \in Threads : loc[o].ser # loc[t].new /\ loc[o].rt # loc[t].new
    /\ \A o \in Threads : o # t => loc[o].new = None

\* Whose the radio is.
Owned ==
  /\ handle = InHand <=> pc["scanner"] = "restore"
  /\ handle \in Runtimes =>
       \/ Present /\ set.rt = handle
       \/ \E t \in Threads : loc[t].new = handle
       \/ ~Present /\ \E t \in Threads : pc[t] \in Stopping /\ loc[t].rt = handle
  /\ handle \in Runtimes => rts[handle].meta # {}

\* A set that is shown as running has its radio, unless that is on its way.
Runs ==
  /\ Running =>
       \A t \in Threads : pc[t] \in Stopping /\ loc[t].rt # None => loc[t].rt # set.rt
  /\ Running => pc["hotplug"] # "revive"
  /\ Running /\ ~lost =>
       \/ handle \in {set.rt, InHand}
       \/ \E t \in Threads : pc[t] = "mark" \/ loc[t].new # None

\* The scanner knows of the sweep.
Sweeps ==
  /\ pc["scanner"] = "leave" => scan.inSweep
  /\ pc["scanner"] \in {"off", "loop"} => ~scan.ending
  /\ pc["scanner"] \in {"take", "restore", "swap"} /\ loc["scanner"].ser = None =>
       scan.inSweep \/ ~scan.ending
  /\ \A t \in Threads : loc[t].new # None /\ rts[loc[t].new].sweeping =>
       t = "scanner" /\ loc[t].ser = None /\ ~scan.inSweep
  /\ Present /\ handle = set.rt /\ rts[set.rt].sweeping =>
       /\ scan.inSweep
       /\ pc["scanner"] \in {"loop", "leave", "take"}
       /\ pc["scanner"] = "take" => loc["scanner"].rt = set.rt

\* A rate change in flight keeps the keepers out.
Unpinned ==
  /\ Present /\ Guards # {} => ~RatePinned
  /\ RatePinned => Running

Held == Locks /\ Private /\ Owned /\ Runs /\ Sweeps /\ Unpinned

----------------------------------------------------------------------------
(* What the table says, as long as no patch was overtaken.                 *)

\* The radio is somewhere else than in the runtime of the table, and not with
\* the prober that reopened it.
Elsewhere ==
  \/ handle = InHand
  \/ handle = Closed /\ Running
  \/ \E t \in Threads \ {"hotplug"} : loc[t].new # None

\* The thread has the answer for the runtime of the table.
Answering(t) == pc[t] = "back" /\ loc[t].ser = set.rt

\* A patch that changes nothing.
Harmless(t) == loc[t].delta = Nothing /\ loc[t].actual = Nothing

\* One patch at a time is in the queue of a runtime.
Queues ==
  /\ \A t \in Threads : ~loc[t].reverting
  /\ \A t \in Threads : pc[t] \in {"apply", "back", "relane"} => loc[t].rt = loc[t].ser
  /\ \A t \in Threads : pc[t] = "apply" => rts[loc[t].ser].waiting = loc[t].delta
  /\ \A r \in Runtimes : rts[r].waiting # Nothing =>
       \E t \in Threads : pc[t] = "apply" /\ loc[t].ser = r

\* Only a patch of the table's runtime, with the radio in it, changes anything.
Stale ==
  Present => \A t \in Threads : pc[t] = "back" /\ (loc[t].ser # set.rt \/ Elsewhere) => Harmless(t)

\* A patch that changes the rate has the guard.
Guarded ==
  Present /\ handle = set.rt =>
    \A t \in Threads :
      pc[t] \in {"apply", "back"} /\ loc[t].ser = set.rt /\ ~loc[t].guard
        => ~ChangesRate(loc[t].delta)

\* The table is about the radio.
Same == set.settings = hw /\ set.lanes = hw["lanes"]
Agrees == /\ set.settings["rate"] = hw["rate"]
          /\ set.settings["lanes"] = hw["lanes"] /\ set.lanes = hw["lanes"]

\* It is, or the one patch that holds the lock has the answer.
Answers ==
  Present /\ handle = set.rt /\ ~rts[set.rt].sweeping =>
    /\ \A t \in Threads : Answering(t) =>
         /\ loc[t].actual = hw
         /\ ~loc[t].guard => set.settings["rate"] = hw["rate"]
    /\ (\A t \in Threads : ~Answering(t)) => Same /\ rts[set.rt].meta = {hw["rate"]}

\* While the radio is away or sweeps, the tuner may be anywhere and the rest is as before.
Away == Present /\ (Elsewhere \/ (handle = set.rt /\ rts[set.rt].sweeping)) => Agrees

\* A runtime that is about to go into the table, or about to be started, has been
\* told what the radio is set to.
Carried ==
  Present => \A t \in Threads \ {"hotplug"} :
    loc[t].new # None /\ ~rts[loc[t].new].sweeping => Same /\ rts[loc[t].new].meta = {hw["rate"]}
Reopened ==
  pc["hotplug"] = "revive" => /\ loc["hotplug"].actual = hw
                              /\ rts[loc["hotplug"].new].meta = {hw["rate"]}
Relaning ==
  Present => \A t \in Threads : pc[t] = "relane" /\ handle = loc[t].rt => loc[t].rate = hw["rate"]

\* What was started at a rate runs at that rate.
Pinned ==
  \A k \in Keepers : Kept(k) =>
    set.holds[k].rate = set.settings["rate"] /\ set.holds[k].rate = hw["rate"]

Faithful == /\ Queues /\ Stale /\ Guarded
        /\ Answers /\ Away /\ Carried /\ Reopened /\ Relaning
        /\ Pinned

Told == overtaken = 0 => Faithful
----------------------------------------------------------------------------
(* Settings.                                                               *)

LEMMA DeltaDomain ==
  ASSUME NEW d \in Deltas
  PROVE /\ DOMAIN d \subseteq Fields
        /\ d \in [DOMAIN d -> Nat]
        /\ d = [f \in DOMAIN d |-> d[f]]
BY DEF Deltas, Settings, Fields

LEMMA DeltaOf ==
  ASSUME NEW D \in SUBSET Fields, NEW d \in [D -> Nat]
  PROVE d \in Deltas
<1>1. D \in {{}, {"center"}, {"rate"}, {"lanes"}, {"center", "rate"}, {"center", "lanes"},
             {"rate", "lanes"}, Fields}
  <2>1. CASE "center" \in D /\ "rate" \in D /\ "lanes" \in D
    BY <2>1 DEF Fields
  <2>2. CASE "center" \in D /\ "rate" \in D /\ "lanes" \notin D
    BY <2>2 DEF Fields
  <2>3. CASE "center" \in D /\ "rate" \notin D /\ "lanes" \in D
    BY <2>3 DEF Fields
  <2>4. CASE "center" \in D /\ "rate" \notin D /\ "lanes" \notin D
    BY <2>4 DEF Fields
  <2>5. CASE "center" \notin D /\ "rate" \in D /\ "lanes" \in D
    BY <2>5 DEF Fields
  <2>6. CASE "center" \notin D /\ "rate" \in D /\ "lanes" \notin D
    BY <2>6 DEF Fields
  <2>7. CASE "center" \notin D /\ "rate" \notin D /\ "lanes" \in D
    BY <2>7 DEF Fields
  <2>8. CASE "center" \notin D /\ "rate" \notin D /\ "lanes" \notin D
    BY <2>8 DEF Fields
  <2>. QED BY <2>1, <2>2, <2>3, <2>4, <2>5, <2>6, <2>7, <2>8
<1>. QED BY <1>1 DEF Deltas, Settings

LEMMA SettingsAreDeltas ==
  Settings \subseteq Deltas /\ Nothing \in Deltas
<1>1. Settings \subseteq Deltas
  BY DEF Deltas
<1>2. Nothing \in [{} -> Nat]
  BY DEF Nothing
<1>. QED BY <1>1, <1>2 DEF Deltas

LEMMA MergeDeltas ==
  ASSUME NEW s \in Deltas, NEW d \in Deltas
  PROVE /\ Merge(s, d) \in Deltas
        /\ DOMAIN Merge(s, d) = DOMAIN s \cup DOMAIN d
        /\ \A f \in DOMAIN s \cup DOMAIN d :
             Merge(s, d)[f] = IF f \in DOMAIN d THEN d[f] ELSE s[f]
<1>1. Merge(s, d) \in [DOMAIN s \cup DOMAIN d -> Nat]
  BY DeltaDomain DEF Merge
<1>2. DOMAIN s \cup DOMAIN d \in SUBSET Fields
  BY DeltaDomain
<1>3. Merge(s, d) \in Deltas
  BY <1>1, <1>2, DeltaOf
<1>. QED BY <1>3 DEF Merge

LEMMA MergeSettings ==
  ASSUME NEW s \in Settings, NEW d \in Deltas
  PROVE /\ Merge(s, d) \in Settings
        /\ \A f \in Fields : Merge(s, d)[f] = IF f \in DOMAIN d THEN d[f] ELSE s[f]
<1>1. DOMAIN s = Fields /\ \A f \in Fields : s[f] \in Nat
  BY DEF Settings
<1>2. DOMAIN s \cup DOMAIN d = Fields
  BY <1>1, DeltaDomain
<1>3. Merge(s, d) = [f \in Fields |-> IF f \in DOMAIN d THEN d[f] ELSE s[f]]
  BY <1>2 DEF Merge
<1>4. \A f \in DOMAIN d : d[f] \in Nat
  BY DeltaDomain
<1>. QED BY <1>1, <1>3, <1>4 DEF Settings

\* What the radio answers with is all of its settings.
LEMMA MergeAll ==
  ASSUME NEW s \in Settings, NEW h \in Settings
  PROVE Merge(s, h) = h
<1>1. DOMAIN s = Fields /\ DOMAIN h = Fields /\ h = [f \in Fields |-> h[f]]
  BY DEF Settings
<1>. QED BY <1>1 DEF Merge

LEMMA MergeNothing ==
  ASSUME NEW d \in Deltas
  PROVE Merge(d, Nothing) = d /\ Merge(Nothing, d) = d
<1>1. DOMAIN Nothing = {}
  BY DEF Nothing
<1>2. d = [f \in DOMAIN d |-> d[f]]
  BY DeltaDomain
<1>3. DOMAIN d \cup DOMAIN Nothing = DOMAIN d /\ DOMAIN Nothing \cup DOMAIN d = DOMAIN d
  BY <1>1
<1>4. Merge(d, Nothing) = [f \in DOMAIN d |-> d[f]]
  BY <1>1, <1>3 DEF Merge
<1>5. Merge(Nothing, d) = [f \in DOMAIN d |-> d[f]]
  BY <1>1, <1>3 DEF Merge
<1>. QED BY <1>2, <1>4, <1>5

----------------------------------------------------------------------------
(* What changing some fields of a record leaves of it.                     *)

LEMMA RtPatching ==
  ASSUME NEW x \in RuntimeStates, NEW v1 \in Threads \cup {"free"}
  PROVE LET m == [x EXCEPT !.patching = v1]
        IN /\ m \in RuntimeStates /\ m.live = x.live /\ m.sweeping = x.sweeping
           /\ m.meta = x.meta /\ m.waiting = x.waiting /\ m.batch = x.batch
           /\ m.refused = x.refused /\ m.patching = v1
BY DEF RuntimeStates

LEMMA RtWaiting ==
  ASSUME NEW x \in RuntimeStates, NEW v1 \in Deltas
  PROVE LET m == [x EXCEPT !.waiting = v1]
        IN /\ m \in RuntimeStates /\ m.live = x.live /\ m.sweeping = x.sweeping
           /\ m.meta = x.meta /\ m.waiting = v1 /\ m.batch = x.batch /\ m.refused = x.refused
           /\ m.patching = x.patching
BY DEF RuntimeStates

LEMMA RtMeta ==
  ASSUME NEW x \in RuntimeStates, NEW v1 \in SUBSET Nat
  PROVE LET m == [x EXCEPT !.meta = v1]
        IN /\ m \in RuntimeStates /\ m.live = x.live /\ m.sweeping = x.sweeping /\ m.meta = v1
           /\ m.waiting = x.waiting /\ m.batch = x.batch /\ m.refused = x.refused
           /\ m.patching = x.patching
BY DEF RuntimeStates

LEMMA RtLive ==
  ASSUME NEW x \in RuntimeStates, NEW v1 \in BOOLEAN
  PROVE LET m == [x EXCEPT !.live = v1]
        IN /\ m \in RuntimeStates /\ m.live = v1 /\ m.sweeping = x.sweeping /\ m.meta = x.meta
           /\ m.waiting = x.waiting /\ m.batch = x.batch /\ m.refused = x.refused
           /\ m.patching = x.patching
BY DEF RuntimeStates

LEMMA LocLanes ==
  ASSUME NEW x \in Locals, NEW v1 \in Nat
  PROVE LET m == [x EXCEPT !.lanes = v1]
        IN /\ m \in Locals /\ m.ser = x.ser /\ m.rt = x.rt /\ m.new = x.new /\ m.delta = x.delta
           /\ m.batch = x.batch /\ m.actual = x.actual /\ m.lanes = v1 /\ m.guard = x.guard
           /\ m.joins = x.joins /\ m.reverting = x.reverting /\ m.keeper = x.keeper
           /\ m.rate = x.rate /\ m.stream = x.stream
BY DEF Locals

LEMMA RtFallow ==
  /\ Fallow \in RuntimeStates
  /\ Fallow.live = FALSE /\ Fallow.sweeping = FALSE /\ Fallow.meta = {}
  /\ Fallow.waiting = Nothing /\ Fallow.batch = 0 /\ Fallow.refused = {}
  /\ Fallow.patching = "free"
BY SettingsAreDeltas, RadioAssumption DEF Fallow, RuntimeStates

LEMMA LocNone ==
  /\ NoLocals \in Locals
  /\ NoLocals.ser = None /\ NoLocals.rt = None /\ NoLocals.new = None
  /\ NoLocals.delta = Nothing /\ NoLocals.actual = Nothing /\ NoLocals.guard = FALSE
  /\ NoLocals.joins = FALSE /\ NoLocals.reverting = FALSE
BY SettingsAreDeltas, RadioAssumption DEF NoLocals, Locals

LEMMA SetGone ==
  /\ Gone \in SetStates
  /\ Gone.status = "Absent" /\ Gone.rt = None /\ Gone.settings = First /\ Gone.lanes = 0
  /\ Gone.ratePatches = 0 /\ Gone.scanner = FALSE /\ Gone.holds = Unheld
  /\ Unheld \in [Keepers -> [rate: Nat, stream: Nat]]
  /\ \A k \in Keepers : Unheld[k] = NoHold
BY RadioAssumption DEF Gone, SetStates, Unheld, NoHold

----------------------------------------------------------------------------
(* The pieces of a step.                                                   *)

LEMMA Names ==
  /\ {"scanner", "drainer", "hotplug"} \cap Clients = {}
  /\ {"scanner", "drainer", "hotplug"} \subseteq Threads
  /\ Clients \subseteq Threads /\ "free" \notin Threads
  /\ \A t \in Threads : t \in Clients \/ t \in {"scanner", "drainer", "hotplug"}
  /\ None \notin Runtimes /\ Closed \notin Runtimes /\ InHand \notin Runtimes
  /\ None # Closed /\ None # InHand /\ Closed # InHand
BY RadioAssumption DEF Threads, None, Closed, InHand

LEMMA Put ==
  ASSUME NEW A, NEW B, NEW f \in [A -> B], NEW a \in A, NEW v \in B
  PROVE LET g == [f EXCEPT ![a] = v]
        IN g \in [A -> B] /\ g[a] = v /\ \A x \in A : x # a => g[x] = f[x]
OBVIOUS

\* Thread t goes on at p; the others stay where they are.
Moves(t, p) ==
  /\ pc'[t] = p
  /\ \A o \in Threads : o # t => pc'[o] = pc[o] /\ loc'[o] = loc[o]

\* The threads are as they have to be.
ThreadsFit ==
  /\ pc \in [Threads -> Labels] /\ loc \in [Threads -> Locals]
  /\ \A t \in Threads : Fits(t, pc[t], loc[t])

LEMMA Threaded ==
  ASSUME ThreadsFit, NEW t \in Threads, NEW p \in Labels, NEW m \in Locals, Fits(t, p, m),
         pc' = [pc EXCEPT ![t] = p], loc' = [loc EXCEPT ![t] = m]
  PROVE Moves(t, p) /\ loc'[t] = m /\ ThreadsFit'
<1>1. pc' \in [Threads -> Labels] /\ pc'[t] = p /\ \A o \in Threads : o # t => pc'[o] = pc[o]
  BY Put DEF ThreadsFit
<1>2. loc' \in [Threads -> Locals] /\ loc'[t] = m
      /\ \A o \in Threads : o # t => loc'[o] = loc[o]
  BY Put DEF ThreadsFit
<1>3. \A o \in Threads : Fits(o, pc'[o], loc'[o])
  BY <1>1, <1>2 DEF ThreadsFit
<1>. QED BY <1>1, <1>2, <1>3 DEF ThreadsFit, Moves

\* Only the place of a thread changes.
LEMMA Placed ==
  ASSUME ThreadsFit, NEW t \in Threads, NEW p \in Labels, Fits(t, p, loc[t]),
         pc' = [pc EXCEPT ![t] = p], loc' = loc
  PROVE Moves(t, p) /\ loc'[t] = loc[t] /\ ThreadsFit'
<1>1. pc' \in [Threads -> Labels] /\ pc'[t] = p /\ \A o \in Threads : o # t => pc'[o] = pc[o]
  BY Put DEF ThreadsFit
<1>3. \A o \in Threads : Fits(o, pc'[o], loc'[o])
  BY <1>1 DEF ThreadsFit
<1>. QED BY <1>1, <1>3 DEF ThreadsFit, Moves

\* A patch ends, and so does whatever else leaves a thread with nothing.
LEMMA Rested ==
  ASSUME ThreadsFit, NEW t \in Threads, NEW p \in Resting, Fits(t, p, NoLocals),
         pc' = [pc EXCEPT ![t] = p], loc' = [loc EXCEPT ![t] = NoLocals]
  PROVE Moves(t, p) /\ loc'[t] = NoLocals /\ ThreadsFit'
<1>1. p \in Labels
  BY DEF Resting, Labels
<1>. QED BY <1>1, LocNone, Threaded

LEMMA ResumesFits ==
  ASSUME NEW t \in Threads \ {"hotplug"}
  PROVE Resumes(t) \in Resting /\ Fits(t, Resumes(t), NoLocals)
<1>1. Resumes(t) \in Resting /\ (t # "scanner" => Resumes(t) = "idle")
      /\ (t = "scanner" => Resumes(t) \in {"ended", "loop"})
  BY Names DEF Resumes, Resting
<1>2. Resumes(t) \notin Patched \cup Stopping
      /\ Resumes(t) \notin {"take", "restore", "revive", "commit", "swap", "apply", "wait"}
  BY <1>1, Names DEF Patched, Stopping
<1>. QED BY <1>1, <1>2, LocNone, Names DEF Fits, Patched, Stopping

LEMMA EndPatchStep ==
  ASSUME ThreadsFit, NEW t \in Threads \ {"hotplug"}, EndPatch(t)
  PROVE Moves(t, Resumes(t)) /\ loc'[t] = NoLocals /\ ThreadsFit'
BY ResumesFits, Rested, Names DEF EndPatch, Goto

\* g is f once t has let go of the runtime it locked.
Frees(t, f, g) ==
  LET s == loc[t].ser
  IN /\ \A r \in Runtimes : r # s => g[r] = f[r]
     /\ g[s].patching = "free"
     /\ \/ /\ OnlyFor(t, s)
           /\ g[s].waiting = Nothing /\ ~g[s].sweeping /\ g[s].meta = {} /\ g[s].batch = 0
        \/ /\ ~OnlyFor(t, s)
           /\ g[s].waiting = f[s].waiting /\ g[s].sweeping = f[s].sweeping
           /\ g[s].meta = f[s].meta /\ g[s].batch = f[s].batch

LEMMA UnlockedStep ==
  ASSUME NEW t \in Threads, loc[t].ser \in Runtimes, NEW f \in [Runtimes -> RuntimeStates]
  PROVE Unlocked(t, f) \in [Runtimes -> RuntimeStates] /\ Frees(t, f, Unlocked(t, f))
<1>. DEFINE s == loc[t].ser
            g == Unlocked(t, f)
            x == [f[s] EXCEPT !.patching = "free"]
<1>1. x \in RuntimeStates /\ x.patching = "free" /\ x.waiting = f[s].waiting
      /\ x.sweeping = f[s].sweeping /\ x.meta = f[s].meta /\ x.batch = f[s].batch
  BY RtPatching
<1>2. CASE OnlyFor(t, s)
  <2>1. g = [f EXCEPT ![s] = Fallow]
    BY <1>2 DEF Unlocked
  <2>2. g \in [Runtimes -> RuntimeStates] /\ g[s] = Fallow /\ \A r \in Runtimes : r # s => g[r] = f[r]
    BY <2>1, RtFallow
  <2>. QED BY <1>2, <2>2, RtFallow DEF Frees
<1>3. CASE ~OnlyFor(t, s)
  <2>1. g = [f EXCEPT ![s] = x]
    BY <1>3 DEF Unlocked
  <2>. HIDE DEF x
  <2>2. g \in [Runtimes -> RuntimeStates] /\ g[s] = x /\ \A r \in Runtimes : r # s => g[r] = f[r]
    BY <2>1, <1>1
  <2>. QED BY <1>1, <1>3, <2>2 DEF Frees
<1>. QED BY <1>2, <1>3

\* The queue of a runtime has room for what was promised.
Roomy(f) == \A r \in Runtimes : f[r].waiting # Nothing => f[r].batch < MaxBatches

LEMMA FreesRoomy ==
  ASSUME NEW t \in Threads, loc[t].ser \in Runtimes, NEW f, NEW g, Frees(t, f, g), Roomy(f)
  PROVE Roomy(g)
BY DEF Frees, Roomy

\* The parts of Shaped.
LEMMA ShapedParts ==
  Shaped <=> /\ ThreadsFit /\ set \in SetStates /\ rts \in [Runtimes -> RuntimeStates]
             /\ handle \in Runtimes \cup {Closed, InHand} /\ hw \in Settings
             /\ faults \in 0..MaxTroubles /\ troubles \in 0..MaxTroubles
             /\ scan \in [hardware: BOOLEAN, inSweep: BOOLEAN, ending: BOOLEAN]
             /\ calls \in 0..MaxCalls /\ overtaken \in 0..MaxOvertakes /\ lost \in BOOLEAN
             /\ (IF Present THEN set.rt \in Runtimes ELSE set = Gone)
             /\ faults <= troubles /\ Roomy(rts) /\ Rated
BY DEF Shaped, TypeOK, ThreadsFit, Entry, Roomy

LEMMA ShapeOf ==
  ASSUME Shaped, NEW t \in Threads
  PROVE /\ loc[t] \in Locals /\ pc[t] \in Labels /\ Fits(t, pc[t], loc[t])
        /\ pc[t] \in Resting => loc[t] = NoLocals
        /\ pc[t] \in Patched => loc[t].ser \in Runtimes
        /\ pc[t] \in {"take", "restore", "revive", "commit"} => loc[t].ser = None
        /\ pc[t] \in {"apply", "back", "relane", "take", "halt"} => loc[t].rt \in Runtimes
        /\ pc[t] \in {"wait", "validate", "revive", "commit"} => loc[t].rt = None
        /\ (loc[t].new # None) <=> (pc[t] \in {"swap", "revive"})
        /\ loc[t].guard => loc[t].ser # None /\ pc[t] \notin {"wait", "validate"}
BY DEF Shaped, TypeOK, Fits

CountersFit ==
  /\ faults \in 0..MaxTroubles /\ troubles \in 0..MaxTroubles /\ faults <= troubles
  /\ scan \in [hardware: BOOLEAN, inSweep: BOOLEAN, ending: BOOLEAN]
  /\ calls \in 0..MaxCalls /\ overtaken \in 0..MaxOvertakes /\ lost \in BOOLEAN

LEMMA CountersNext ==
  ASSUME Shaped, UNCHANGED <<faults, scan, lost>>,
         troubles' = troubles \/ (troubles < MaxTroubles /\ troubles' = troubles + 1),
         overtaken' = overtaken \/ (overtaken < MaxOvertakes /\ overtaken' = overtaken + 1),
         calls' = calls \/ (calls < MaxCalls /\ calls' = calls + 1)
  PROVE CountersFit'
BY ShapedParts, RadioAssumption DEF CountersFit

LEMMA RadioNext ==
  ASSUME CountersFit', handle' \in Runtimes \cup {Closed, InHand}, hw' \in Settings,
         ThreadsFit', set' \in SetStates, rts' \in [Runtimes -> RuntimeStates],
         IF Present' THEN set'.rt \in Runtimes ELSE set' = Gone, Roomy(rts'), Rated'
  PROVE Shaped'
<1>1. Roomy(rts)'
  BY DEF Roomy
<1>. QED BY <1>1 DEF CountersFit, Shaped, TypeOK, ThreadsFit, Entry, Roomy

LEMMA GuardsFinite ==
  ASSUME ThreadsFit
  PROVE IsFiniteSet(Guards) /\ Cardinality(Guards) \in Nat
<1>1. IsFiniteSet({"scanner", "drainer", "hotplug"})
  <2>1. IsFiniteSet({}) BY FS_EmptySet
  <2>2. IsFiniteSet({} \cup {"scanner"}) BY <2>1, FS_AddElement
  <2>3. IsFiniteSet(({} \cup {"scanner"}) \cup {"drainer"}) BY <2>2, FS_AddElement
  <2>4. IsFiniteSet((({} \cup {"scanner"}) \cup {"drainer"}) \cup {"hotplug"})
    BY <2>3, FS_AddElement
  <2>5. (({} \cup {"scanner"}) \cup {"drainer"}) \cup {"hotplug"}
        = {"scanner", "drainer", "hotplug"}
    OBVIOUS
  <2>. QED BY <2>4, <2>5
<1>2. IsFiniteSet(Threads)
  BY <1>1, RadioAssumption, FS_Union DEF Threads
<1>3. Guards \subseteq Threads
  BY DEF Guards
<1>. QED BY <1>2, <1>3, FS_Subset, FS_CardinalityType

\* A step that leaves t's guard alone.
LEMMA RatedSame ==
  ASSUME Rated, NEW t \in Threads, NEW p, Moves(t, p), loc'[t].guard <=> loc[t].guard,
         Present' => Present /\ set'.ratePatches = set.ratePatches
  PROVE Rated'
<1>1. Guards' = Guards
  BY DEF Guards, Moves
<1>. QED BY <1>1 DEF Rated

\* t's guard, if it has one, is dropped.
LEMMA RatedDrop ==
  ASSUME ThreadsFit, Rated, set \in SetStates, NEW t \in Threads, NEW p, Moves(t, p),
         ~loc'[t].guard
  PROVE /\ RatePatchesWithout(t) \in Nat
        /\ (Present' => Present /\ set'.ratePatches = RatePatchesWithout(t)) => Rated'
<1>0. loc[t].guard \in BOOLEAN /\ set.ratePatches \in Nat
  BY DEF ThreadsFit, Locals, SetStates
<1>1. CASE loc[t].guard
  <2>1. t \in Guards /\ Guards' = Guards \ {t}
    BY <1>1 DEF Guards, Moves
  <2>2. IsFiniteSet(Guards) /\ Cardinality(Guards) \in Nat
    BY GuardsFinite
  <2>3. Cardinality(Guards \ {t}) = Cardinality(Guards) - 1
    BY <2>1, <2>2, FS_RemoveElement
  <2>4. Cardinality(Guards \ {t}) \in Nat
    BY <2>2, FS_RemoveElement, FS_CardinalityType
  <2>. DEFINE n == Cardinality(Guards)
              k == Cardinality(Guards')
  <2>5. k = n - 1 /\ k \in Nat /\ n \in Nat
    BY <2>1, <2>2, <2>3, <2>4
  <2>6. Rated = (Present => set.ratePatches = n) /\ Rated' = (Present' => set'.ratePatches = k)
    BY DEF Rated
  <2>. HIDE DEF n, k
  <2>. QED BY <1>0, <1>1, <2>5, <2>6 DEF RatePatchesWithout
<1>2. CASE ~loc[t].guard
  <2>1. Guards' = Guards
    BY <1>0, <1>2 DEF Guards, Moves
  <2>2. RatePatchesWithout(t) = set.ratePatches
    BY <1>2 DEF RatePatchesWithout
  <2>. QED BY <1>0, <2>1, <2>2 DEF Rated
<1>. QED BY <1>0, <1>1, <1>2

\* t takes a guard.
LEMMA RatedTake ==
  ASSUME ThreadsFit, Rated, Present, set \in SetStates, NEW t \in Threads, NEW p,
         Moves(t, p), ~loc[t].guard, loc'[t].guard, set'.ratePatches = set.ratePatches + 1
  PROVE Rated'
<1>1. t \notin Guards /\ Guards' = Guards \cup {t}
  BY DEF Guards, Moves
<1>2. IsFiniteSet(Guards) /\ Cardinality(Guards) \in Nat
  BY GuardsFinite
<1>3. Cardinality(Guards') = Cardinality(Guards) + 1
  BY <1>1, <1>2, FS_AddElement
<1>. QED BY <1>3 DEF Rated

\* A step of t that leaves the entry, the runtimes and the radio alone.
LEMMA QuietNext ==
  ASSUME Shaped, CountersFit', ThreadsFit', UNCHANGED <<set, rts, handle, hw>>,
         NEW t \in Threads, NEW p, Moves(t, p), loc'[t].guard <=> loc[t].guard
  PROVE Shaped'
<1>1. /\ handle' \in Runtimes \cup {Closed, InHand} /\ hw' \in Settings
      /\ set' \in SetStates /\ rts' \in [Runtimes -> RuntimeStates] /\ Roomy(rts')
  BY ShapedParts
<1>2. IF Present' THEN set'.rt \in Runtimes ELSE set' = Gone
  BY ShapedParts DEF Present
<1>3. Rated'
  BY ShapedParts, RatedSame DEF Present
<1>. QED BY <1>1, <1>2, <1>3, RadioNext

LEMMA PatchDeltas ==
  Patches \cup Centers \subseteq Deltas
BY RadioAssumption DEF Deltas

----------------------------------------------------------------------------
(* The steps of a patch: each keeps the shape of the state, and does no    *)
(* more than this.                                                         *)

AskEffect(t) ==
  /\ Moves(t, "wait") /\ Present
  /\ pc[t] \in {"idle", "loop", "last"} /\ loc[t] = NoLocals
  /\ pc[t] = "loop" \/ pc[t] = "last" => ~rts[set.rt].sweeping
  /\ loc'[t].ser = set.rt /\ loc'[t].rt = None /\ loc'[t].new = None
  /\ ~loc'[t].guard /\ ~loc'[t].reverting
  /\ UNCHANGED <<set, rts, handle, hw, scan, overtaken, lost>>

LEMMA AskStep ==
  ASSUME Shaped, NEW t \in Clients \cup {"scanner"}, NEW d \in Patches \cup Centers, Ask(t, d)
  PROVE Shaped' /\ AskEffect(t)
<1>. DEFINE m == [NoLocals EXCEPT !.ser = set.rt, !.delta = d]
<1>1. Present /\ set.rt \in Runtimes /\ pc[t] \in {"idle", "loop", "last"} /\ t \in Threads
      /\ (pc[t] = "loop" \/ pc[t] = "last" => ~rts[set.rt].sweeping)
  BY ShapedParts, Names DEF Ask, Called, TunesFreely
<1>2. loc[t] = NoLocals /\ pc[t] \in Resting
  BY <1>1, ShapedParts DEF ThreadsFit, Fits, Resting
<1>3. m \in Locals /\ m.ser = set.rt /\ m.rt = None /\ m.new = None /\ m.guard = FALSE
      /\ m.reverting = FALSE
  <2>0. NoLocals \in Locals /\ set.rt \in Runtimes \cup {None} /\ d \in Deltas
    BY <1>1, PatchDeltas, LocNone
  <2>1. m \in Locals /\ m.ser = set.rt /\ m.rt = NoLocals.rt /\ m.new = NoLocals.new
        /\ m.guard = NoLocals.guard /\ m.reverting = NoLocals.reverting
    BY <2>0 DEF Locals
  <2>. HIDE DEF m
  <2>. QED BY <2>1, LocNone
<1>4. pc' = [pc EXCEPT ![t] = "wait"] /\ loc' = [loc EXCEPT ![t] = m]
  BY DEF Ask, Goto
<1>. HIDE DEF m
<1>5. Fits(t, "wait", m)
  BY <1>1, <1>3, Names DEF Fits, Resting, Patched, Stopping
<1>6. Moves(t, "wait") /\ loc'[t] = m /\ ThreadsFit'
  BY <1>1, <1>3, <1>4, <1>5, ShapedParts, Threaded DEF Labels
<1>7. UNCHANGED <<set, rts, handle, hw, scan, overtaken, lost, faults, troubles>>
  BY DEF Ask, radio, history
<1>8. CountersFit'
  BY <1>7, CountersNext DEF Ask, Called
<1>9. Shaped'
  BY <1>1, <1>2, <1>3, <1>6, <1>7, <1>8, LocNone, QuietNext
<1>. QED BY <1>1, <1>2, <1>3, <1>6, <1>7, <1>9 DEF AskEffect

AdmitEffect(t) ==
  /\ Moves(t, "validate")
  /\ pc[t] = "wait" /\ loc[t].ser \in Runtimes /\ rts[loc[t].ser].patching = "free"
  /\ ~rts[loc[t].ser].sweeping
  /\ loc'[t].ser = loc[t].ser /\ loc'[t].rt = None /\ loc'[t].new = None
  /\ ~loc'[t].guard /\ loc'[t].reverting = loc[t].reverting
  /\ rts'[loc[t].ser].patching = t
  /\ \A r \in Runtimes : r # loc[t].ser => rts'[r].patching = rts[r].patching
  /\ \A r \in Runtimes : /\ rts'[r].sweeping = rts[r].sweeping
                         /\ rts'[r].meta = rts[r].meta
                         /\ rts'[r].waiting = rts[r].waiting
  /\ UNCHANGED <<set, handle, hw, scan, overtaken, lost>>

LEMMA AdmitStep ==
  ASSUME Shaped, NEW t \in Clients \cup {"scanner"}, Admit(t), ~rts[loc[t].ser].sweeping
  PROVE Shaped' /\ AdmitEffect(t)
<1>. DEFINE s == loc[t].ser
            n == IF Present THEN set.lanes ELSE 0
            m == [loc[t] EXCEPT !.lanes = n]
            x == [rts[s] EXCEPT !.patching = t]
<1>1. pc[t] = "wait" /\ t \in Threads /\ loc[t] \in Locals /\ Fits(t, "wait", loc[t])
      /\ rts[s].patching = "free" /\ set \in SetStates
  BY ShapedParts, Names DEF Admit, ThreadsFit
<1>2. s \in Runtimes /\ loc[t].rt = None /\ loc[t].new = None /\ ~loc[t].guard
  BY <1>1 DEF Fits, Patched
<1>3. n \in Nat
  BY <1>1 DEF SetStates
<1>4. pc' = [pc EXCEPT ![t] = "validate"] /\ loc' = [loc EXCEPT ![t] = m]
      /\ rts' = [rts EXCEPT ![s] = x]
  BY DEF Admit, Goto, RefusesSweeping
<1>5. m \in Locals /\ m.ser = s /\ m.rt = None /\ m.new = None /\ m.guard = FALSE
      /\ m.reverting = loc[t].reverting
  <2>. HIDE DEF n
  <2>. QED BY <1>1, <1>2, <1>3, LocLanes
<1>6. x \in RuntimeStates /\ x.patching = t /\ x.sweeping = rts[s].sweeping
      /\ x.meta = rts[s].meta /\ x.waiting = rts[s].waiting /\ x.batch = rts[s].batch
  BY <1>1, <1>2, ShapedParts, RtPatching
<1>. HIDE DEF m, x
<1>7. Fits(t, "validate", m)
  BY <1>1, <1>2, <1>5, Names DEF Fits, Resting, Patched, Stopping
<1>8. Moves(t, "validate") /\ loc'[t] = m /\ ThreadsFit'
  BY <1>1, <1>4, <1>5, <1>7, ShapedParts, Threaded DEF Labels
<1>9. rts' \in [Runtimes -> RuntimeStates] /\ rts'[s] = x
      /\ \A r \in Runtimes : r # s => rts'[r] = rts[r]
  BY <1>2, <1>4, <1>6, ShapedParts, Put
<1>10. Roomy(rts')
  BY <1>6, <1>9, ShapedParts DEF Roomy
<1>11. UNCHANGED <<set, handle, hw, scan, overtaken, lost, calls, faults, troubles>>
  BY DEF Admit, radio, ghosts, history
<1>12. CountersFit'
  BY <1>11, CountersNext
<1>13. IF Present' THEN set'.rt \in Runtimes ELSE set' = Gone
  BY <1>11, ShapedParts DEF Present
<1>15. Rated'
  BY <1>1, <1>2, <1>5, <1>8, <1>11, ShapedParts, RatedSame DEF Present
<1>14. Shaped'
  BY <1>15, <1>8, <1>9, <1>10, <1>11, <1>12, <1>13, ShapedParts, RadioNext
<1>. QED BY <1>1, <1>2, <1>5, <1>6, <1>8, <1>9, <1>11, <1>14 DEF AdmitEffect

\* A patch ends: t rests, and its guard and its lock are gone.
PatchEnds(t) ==
  LET s == loc[t].ser
  IN /\ Moves(t, Resumes(t)) /\ loc'[t] = NoLocals
     /\ s \in Runtimes /\ pc[t] \in Patched
     /\ rts'[s].patching = "free"
     /\ \A r \in Runtimes : r # s => rts'[r].patching = rts[r].patching
     /\ \A r \in Runtimes :
          \/ r = s /\ OnlyFor(t, r) /\ ~rts'[r].sweeping /\ rts'[r].waiting = Nothing
          \/ /\ rts'[r].sweeping = rts[r].sweeping
             /\ rts'[r].meta = {} => rts[r].meta = {}
             /\ \/ rts'[r].waiting = rts[r].waiting
                \/ pc[t] = "apply" /\ r = loc[t].rt /\ rts'[r].waiting = Nothing
     /\ pc[t] = "apply" => rts'[loc[t].rt].waiting = Nothing
     /\ set'.status = set.status /\ set'.rt = set.rt /\ set'.holds = set.holds
     /\ set'.ratePatches = RatePatchesWithout(t)
     /\ UNCHANGED <<handle, hw, scan, overtaken, lost>>

\* It ends and has changed nothing else.
PatchFails(t) ==
  /\ PatchEnds(t)
  /\ set'.settings = set.settings /\ set'.lanes = set.lanes
  /\ \A r \in Runtimes : (r = loc[t].ser /\ OnlyFor(t, r)) \/ rts'[r].meta = rts[r].meta

\* f: the runtimes before the lock is let go.
LEMMA EndsStep ==
  ASSUME Shaped, NEW t \in Clients \cup {"scanner"}, pc[t] \in Patched, EndPatch(t),
         NEW f \in [Runtimes -> RuntimeStates], rts' = Unlocked(t, f), Roomy(f),
         \A r \in Runtimes : f[r].patching = rts[r].patching /\ f[r].sweeping = rts[r].sweeping,
         \A r \in Runtimes : f[r].meta = {} => rts[r].meta = {},
         \A r \in Runtimes : \/ f[r].waiting = rts[r].waiting
                             \/ pc[t] = "apply" /\ r = loc[t].rt /\ f[r].waiting = Nothing,
         pc[t] = "apply" => f[loc[t].rt].waiting = Nothing,
         set'.status = set.status, set'.rt = set.rt, set'.holds = set.holds,
         set'.ratePatches = RatePatchesWithout(t),
         RatePatchesWithout(t) \in Nat => set' \in SetStates,
         ~Present => set' = set,
         UNCHANGED <<handle, hw, scan, overtaken, lost, calls, faults>>,
         troubles' = troubles \/ (troubles < MaxTroubles /\ troubles' = troubles + 1)
  PROVE Shaped' /\ PatchEnds(t)
<1>0. t \in Threads
  BY Names
<1>1. t \in Threads /\ loc[t].ser \in Runtimes
  BY <1>0, ShapeOf
<1>2. Moves(t, Resumes(t)) /\ loc'[t] = NoLocals /\ ThreadsFit'
  BY <1>0, ShapedParts, Names, EndPatchStep
<1>3. rts' \in [Runtimes -> RuntimeStates] /\ Frees(t, f, rts')
  BY <1>1, UnlockedStep
<1>4. Roomy(rts')
  BY <1>1, <1>3, FreesRoomy
<1>5. ~loc'[t].guard
  BY <1>2, LocNone
<1>6. Present' <=> Present
  BY DEF Present
<1>7. Rated' /\ RatePatchesWithout(t) \in Nat
  BY <1>1, <1>2, <1>5, <1>6, ShapedParts, RatedDrop
<1>8. CountersFit'
  BY CountersNext
<1>9. IF Present' THEN set'.rt \in Runtimes ELSE set' = Gone
  BY <1>6, ShapedParts
<1>10. Shaped'
  BY <1>2, <1>3, <1>4, <1>7, <1>8, <1>9, ShapedParts, RadioNext
<1>11. pc[t] = "apply" => loc[t].rt \in Runtimes
  BY <1>1, ShapedParts DEF ThreadsFit, Fits
<1>12. pc[t] = "apply" => rts'[loc[t].rt].waiting = Nothing
  BY <1>3, <1>11 DEF Frees
<1>13. \A r \in Runtimes : r # loc[t].ser => rts'[r].patching = rts[r].patching
  BY <1>3 DEF Frees
<1>14. \A r \in Runtimes :
          \/ r = loc[t].ser /\ OnlyFor(t, r) /\ ~rts'[r].sweeping /\ rts'[r].waiting = Nothing
          \/ /\ rts'[r].sweeping = rts[r].sweeping
             /\ rts'[r].meta = {} => rts[r].meta = {}
             /\ \/ rts'[r].waiting = rts[r].waiting
                \/ pc[t] = "apply" /\ r = loc[t].rt /\ rts'[r].waiting = Nothing
  BY <1>1, <1>3 DEF Frees
<1>15. rts'[loc[t].ser].patching = "free"
  BY <1>3 DEF Frees
<1>16. PatchEnds(t)
  BY <1>1, <1>2, <1>12, <1>13, <1>14, <1>15 DEF PatchEnds
<1>. QED BY <1>10, <1>16

\* What the lanes were told is still there.
LEMMA EndsMeta ==
  ASSUME NEW t \in Threads, loc[t].ser \in Runtimes, NEW f \in [Runtimes -> RuntimeStates],
         rts' = Unlocked(t, f), \A r \in Runtimes : f[r].meta = rts[r].meta
  PROVE \A r \in Runtimes : (r = loc[t].ser /\ OnlyFor(t, r)) \/ rts'[r].meta = rts[r].meta
<1>1. Frees(t, f, rts')
  BY UnlockedStep
<1>. QED BY <1>1 DEF Frees

\* A patch that ends without having been counted.
LEMMA NoGuard ==
  ASSUME Shaped, NEW t \in Threads, pc[t] \in {"wait", "validate"}
  PROVE RatePatchesWithout(t) = set.ratePatches
BY ShapedParts DEF ThreadsFit, Fits, RatePatchesWithout

LEMMA AdmitRefusedStep ==
  ASSUME Shaped, NEW t \in Clients \cup {"scanner"}, Admit(t), rts[loc[t].ser].sweeping
  PROVE Shaped' /\ PatchFails(t)
<1>1. pc[t] = "wait" /\ pc[t] \in Patched /\ EndPatch(t) /\ rts' = Unlocked(t, rts)
      /\ UNCHANGED <<set, handle, hw, scan, overtaken, lost, calls, faults, troubles>>
  BY DEF Admit, RefusesSweeping, Patched, radio, ghosts, history
<1>0. t \in Threads
  BY Names
<1>2. t \in Threads /\ loc[t].ser \in Runtimes
  BY <1>0, <1>1, ShapeOf
<1>3. RatePatchesWithout(t) = set.ratePatches
  BY <1>1, <1>2, NoGuard
<1>4. rts \in [Runtimes -> RuntimeStates] /\ Roomy(rts) /\ set \in SetStates
  BY ShapedParts
<1>5. Shaped' /\ PatchEnds(t)
  BY <1>1, <1>3, <1>4, EndsStep
<1>6. \A r \in Runtimes : (r = loc[t].ser /\ OnlyFor(t, r)) \/ rts'[r].meta = rts[r].meta
  BY <1>1, <1>2, <1>4, EndsMeta
<1>. QED BY <1>1, <1>5, <1>6 DEF PatchFails

LEMMA ValidateFailsStep ==
  ASSUME Shaped, NEW t \in Clients \cup {"scanner"}, Validate(t),
         ~Present \/ Refused(loc[t].delta)
  PROVE Shaped' /\ PatchFails(t)
<1>1. pc[t] = "validate" /\ pc[t] \in Patched /\ EndPatch(t) /\ rts' = Unlocked(t, rts)
      /\ UNCHANGED <<set, handle, hw, scan, overtaken, lost, calls, faults, troubles>>
  BY DEF Validate, Patched, radio
<1>0. t \in Threads
  BY Names
<1>2. t \in Threads /\ loc[t].ser \in Runtimes
  BY <1>0, <1>1, ShapeOf
<1>3. RatePatchesWithout(t) = set.ratePatches
  BY <1>1, <1>2, NoGuard
<1>4. rts \in [Runtimes -> RuntimeStates] /\ Roomy(rts) /\ set \in SetStates
  BY ShapedParts
<1>5. Shaped' /\ PatchEnds(t)
  BY <1>1, <1>3, <1>4, EndsStep
<1>6. \A r \in Runtimes : (r = loc[t].ser /\ OnlyFor(t, r)) \/ rts'[r].meta = rts[r].meta
  BY <1>1, <1>2, <1>4, EndsMeta
<1>. QED BY <1>1, <1>5, <1>6 DEF PatchFails

\* The count in the entry is what changes.
LEMMA FinishSet ==
  ASSUME Shaped, NEW n, set' = [set EXCEPT !.ratePatches = n]
  PROVE /\ set'.status = set.status /\ set'.rt = set.rt /\ set'.holds = set.holds
        /\ set'.settings = set.settings /\ set'.lanes = set.lanes
        /\ set'.scanner = set.scanner /\ set'.ratePatches = n
        /\ n \in Nat => set' \in SetStates
        /\ n = set.ratePatches => set' = set
<1>1. set \in SetStates
  BY ShapedParts
<1>. QED BY <1>1 DEF SetStates

LEMMA AfterStep ==
  ASSUME Shaped, NEW t \in Threads, NEW r \in Runtimes, NEW taken \in BOOLEAN,
         NEW failed \in BOOLEAN, taken <=> rts[r].waiting # Nothing
  PROVE LET x == After(t, r, taken, failed)
        IN /\ x \in RuntimeStates /\ x.waiting = Nothing
           /\ x.patching = rts[r].patching /\ x.sweeping = rts[r].sweeping
           /\ x.meta = rts[r].meta
<1>1. rts[r] \in RuntimeStates /\ loc[t] \in Locals /\ (taken => rts[r].batch < MaxBatches)
  BY ShapedParts DEF Roomy, ThreadsFit
<1>. DEFINE w == IF taken THEN Nothing ELSE rts[r].waiting
            b == IF taken THEN rts[r].batch + 1 ELSE rts[r].batch
            f == IF failed THEN {loc[t].batch} ELSE rts[r].refused
<1>2. w \in Deltas /\ w = Nothing
  BY SettingsAreDeltas
<1>3. b \in 0..MaxBatches /\ 0 \in 0..MaxBatches
  BY <1>1, RadioAssumption DEF RuntimeStates
<1>4. f \in SUBSET (0..MaxBatches) /\ {} \in SUBSET (0..MaxBatches)
  BY <1>1 DEF RuntimeStates, Locals
<1>5. After(t, r, taken, failed) = IF OthersWait(t, r)
        THEN [rts[r] EXCEPT !.waiting = w, !.batch = b, !.refused = f]
        ELSE [rts[r] EXCEPT !.waiting = w, !.batch = 0, !.refused = {}]
  BY <1>1 DEF After, RuntimeStates
<1>. HIDE DEF w, b, f
<1>. DEFINE y == [rts[r] EXCEPT !.waiting = w, !.batch = b, !.refused = f]
            z == [rts[r] EXCEPT !.waiting = w, !.batch = 0, !.refused = {}]
<1>6. y \in RuntimeStates /\ y.waiting = w /\ y.patching = rts[r].patching
      /\ y.sweeping = rts[r].sweeping /\ y.meta = rts[r].meta
  BY <1>1, <1>2, <1>3, <1>4 DEF RuntimeStates
<1>7. z \in RuntimeStates /\ z.waiting = w /\ z.patching = rts[r].patching
      /\ z.sweeping = rts[r].sweeping /\ z.meta = rts[r].meta
  BY <1>1, <1>2, <1>3, <1>4 DEF RuntimeStates
<1>8. After(t, r, taken, failed) = IF OthersWait(t, r) THEN y ELSE z
  BY <1>5
<1>. HIDE DEF y, z
<1>. QED BY <1>2, <1>6, <1>7, <1>8

ValidateEffect(t) ==
  /\ Moves(t, "apply")
  /\ pc[t] = "validate" /\ loc[t].ser \in Runtimes /\ ~loc[t].guard
  /\ loc'[t].ser = loc[t].ser /\ loc'[t].rt = set.rt /\ loc'[t].new = None
  /\ loc'[t].guard <=> ChangesRate(loc[t].delta)
  /\ loc'[t].reverting = loc[t].reverting
  /\ loc'[t].delta = loc[t].delta /\ loc[t].delta \in Deltas
  /\ rts'[set.rt].waiting = Merge(rts[set.rt].waiting, loc[t].delta)
  /\ \A r \in Runtimes : r # set.rt => rts'[r].waiting = rts[r].waiting
  /\ \A r \in Runtimes : /\ rts'[r].sweeping = rts[r].sweeping
                         /\ rts'[r].meta = rts[r].meta
                         /\ rts'[r].patching = rts[r].patching
  /\ set'.status = set.status /\ set'.rt = set.rt /\ set'.holds = set.holds
  /\ set'.settings = set.settings /\ set'.lanes = set.lanes
  /\ overtaken' = 0 => set.rt = loc[t].ser /\ overtaken = 0
  /\ UNCHANGED <<handle, hw, scan, lost>>

LEMMA ValidateStep ==
  ASSUME Shaped, NEW t \in Clients \cup {"scanner"}, Validate(t),
         Present, ~Refused(loc[t].delta)
  PROVE Shaped' /\ ValidateEffect(t)
<1>. DEFINE d == loc[t].delta
            c == ChangesRate(d)
            r == set.rt
            n == IF c THEN set.ratePatches + 1 ELSE set.ratePatches
            w == Merge(rts[r].waiting, d)
            b == rts[r].batch
            m == [loc[t] EXCEPT !.rt = r, !.guard = c, !.batch = b]
            x == [rts[r] EXCEPT !.waiting = w]
<1>0. t \in Threads
  BY Names
<1>1. pc[t] = "validate" /\ loc[t] \in Locals /\ loc[t].ser \in Runtimes /\ ~loc[t].guard
      /\ loc[t].new = None
  BY <1>0, ShapeOf DEF Validate, Patched
<1>2. set \in SetStates /\ r \in Runtimes /\ rts[r] \in RuntimeStates /\ b < MaxBatches
  BY ShapedParts DEF Validate
<1>3. c \in BOOLEAN /\ n \in Nat
  BY <1>2 DEF ChangesRate, SetStates
<1>4. w \in Deltas /\ b \in 0..MaxBatches /\ d \in Deltas
  BY <1>1, <1>2, MergeDeltas DEF RuntimeStates, Locals
<1>5. pc' = [pc EXCEPT ![t] = "apply"] /\ loc' = [loc EXCEPT ![t] = m]
      /\ rts' = [rts EXCEPT ![r] = x]
      /\ UNCHANGED <<handle, hw, scan, lost, calls, faults, troubles>>
  BY DEF Validate, Goto, Owed, radio
<1>6. set' = [set EXCEPT !.ratePatches = n]
  BY <1>2 DEF Validate, SetStates
<1>7. overtaken' = IF r # loc[t].ser THEN overtaken + 1 ELSE overtaken
  BY DEF Validate, Overtaking
<1>8. r # loc[t].ser => overtaken < MaxOvertakes
  BY DEF Validate, Overtaking
<1>. HIDE DEF c, n, w, b
<1>9. m \in Locals /\ m.ser = loc[t].ser /\ m.rt = r /\ m.new = None /\ m.guard = c
      /\ m.reverting = loc[t].reverting /\ m.delta = d
  BY <1>1, <1>2, <1>3, <1>4 DEF Locals
<1>10. x \in RuntimeStates /\ x.waiting = w /\ x.sweeping = rts[r].sweeping
       /\ x.meta = rts[r].meta /\ x.patching = rts[r].patching /\ x.batch = b
  BY <1>2, <1>4, RtWaiting DEF b
<1>11. set' \in SetStates /\ set'.ratePatches = n
       /\ set'.status = set.status /\ set'.rt = set.rt /\ set'.holds = set.holds
       /\ set'.settings = set.settings /\ set'.lanes = set.lanes
  BY <1>3, <1>6, FinishSet
<1>. HIDE DEF m, x
<1>12. Fits(t, "apply", m)
  BY <1>0, <1>1, <1>2, <1>9, Names DEF Fits, Resting, Patched, Stopping
<1>13. Moves(t, "apply") /\ loc'[t] = m /\ ThreadsFit'
  BY <1>0, <1>5, <1>9, <1>12, ShapedParts, Threaded DEF Labels
<1>14. rts' \in [Runtimes -> RuntimeStates] /\ rts'[r] = x
       /\ \A q \in Runtimes : q # r => rts'[q] = rts[q]
  BY <1>2, <1>5, <1>10, ShapedParts, Put
<1>15. Roomy(rts')
  BY <1>2, <1>10, <1>14, ShapedParts DEF Roomy
<1>16. Rated'
  <2>1. CASE c
    BY <1>0, <1>1, <1>2, <1>9, <1>11, <1>13, <2>1, ShapedParts, RatedTake DEF n
  <2>2. CASE ~c
    BY <1>0, <1>1, <1>9, <1>11, <1>13, <2>2, ShapedParts, RatedSame DEF n
  <2>. QED BY <2>1, <2>2
<1>17. CountersFit'
  BY <1>5, <1>7, <1>8, CountersNext
<1>18. Present'
  BY <1>11 DEF Present
<1>19. Shaped'
  BY <1>2, <1>5, <1>11, <1>13, <1>14, <1>15, <1>16, <1>17, <1>18, ShapedParts, RadioNext
<1>20. overtaken \in Nat
  BY ShapedParts, RadioAssumption
<1>21. overtaken' = 0 => r = loc[t].ser /\ overtaken = 0
  BY <1>7, <1>20
<1>. QED BY <1>1, <1>4, <1>5, <1>9, <1>10, <1>11, <1>13, <1>14, <1>19, <1>21 DEF c, w, ValidateEffect

\* The ways an Apply goes: the radio is programmed, it refuses or has refused,
\* or there is nothing left to do.
Programs(t) ==
  /\ pc[t] = "apply" /\ rts[loc[t].rt].waiting # Nothing /\ handle = loc[t].rt
  /\ hw' = Merge(hw, rts[loc[t].rt].waiting)
  /\ rts' = [rts EXCEPT ![loc[t].rt] = After(t, loc[t].rt, TRUE, FALSE)]
  /\ loc' = [loc EXCEPT ![t] = [loc[t] EXCEPT !.actual = hw']]
  /\ Goto(t, "back")
  /\ UNCHANGED <<set, troubles, handle, faults, scan, ghosts>>

RefusesIt(t, taken, failed) ==
  /\ pc[t] = "apply" /\ (taken <=> (rts[loc[t].rt].waiting # Nothing))
  /\ FailPatch(t, loc[t].rt, After(t, loc[t].rt, taken, failed))
  /\ UNCHANGED <<hw, handle, faults, scan, ghosts>>
  /\ troubles' = troubles \/ (troubles < MaxTroubles /\ troubles' = troubles + 1)

FindsItDone(t) ==
  /\ pc[t] = "apply" /\ rts[loc[t].rt].waiting = Nothing
  /\ rts' = [rts EXCEPT ![loc[t].rt] = After(t, loc[t].rt, FALSE, FALSE)]
  /\ loc' = [loc EXCEPT ![t] =
                [loc[t] EXCEPT !.actual = IF handle = loc[t].rt THEN hw ELSE Nothing]]
  /\ Goto(t, "back")
  /\ UNCHANGED <<set, hw, troubles, handle, faults, scan, ghosts>>

LEMMA ApplyCases ==
  ASSUME NEW t, Apply(t)
  PROVE Programs(t) \/ FindsItDone(t) \/ RefusesIt(t, TRUE, TRUE) \/ RefusesIt(t, FALSE, FALSE)
BY DEF Apply, Programs, FindsItDone, RefusesIt, Refuses

ApplyTakenEffect(t) ==
  /\ pc[t] = "apply" /\ rts[loc[t].rt].waiting # Nothing /\ handle = loc[t].rt
  /\ hw' = Merge(hw, rts[loc[t].rt].waiting)
  /\ Moves(t, "back")
  /\ loc[t].ser \in Runtimes /\ loc[t].rt \in Runtimes
  /\ loc'[t].ser = loc[t].ser /\ loc'[t].rt = loc[t].rt /\ loc'[t].new = None
  /\ loc'[t].guard <=> loc[t].guard
  /\ loc'[t].reverting = loc[t].reverting
  /\ loc'[t].delta = loc[t].delta /\ loc'[t].actual = hw'
  /\ rts'[loc[t].rt].waiting = Nothing
  /\ \A r \in Runtimes : r # loc[t].rt => rts'[r].waiting = rts[r].waiting
  /\ \A r \in Runtimes : /\ rts'[r].sweeping = rts[r].sweeping
                         /\ rts'[r].meta = rts[r].meta
                         /\ rts'[r].patching = rts[r].patching
  /\ UNCHANGED <<set, handle, scan, overtaken, lost>>

LEMMA ApplyTakenStep ==
  ASSUME Shaped, NEW t \in Clients \cup {"scanner"}, Programs(t)
  PROVE Shaped' /\ ApplyTakenEffect(t)
<1>. DEFINE r == loc[t].rt
            x == After(t, r, TRUE, FALSE)
            h == hw'
            m == [loc[t] EXCEPT !.actual = h]
<1>0. t \in Threads /\ pc[t] = "apply" /\ rts[r].waiting # Nothing /\ handle = r
      /\ hw' = Merge(hw, rts[r].waiting)
  BY Names DEF Programs
<1>1. loc[t] \in Locals /\ loc[t].ser \in Runtimes /\ r \in Runtimes /\ loc[t].new = None
      /\ Fits(t, "apply", loc[t])
  BY <1>0, ShapeOf DEF Patched
<1>2. rts \in [Runtimes -> RuntimeStates] /\ rts[r] \in RuntimeStates /\ hw \in Settings
  BY <1>1, ShapedParts
<1>3. h \in Settings
  BY <1>0, <1>2, MergeSettings DEF RuntimeStates
<1>4. x \in RuntimeStates /\ x.waiting = Nothing /\ x.sweeping = rts[r].sweeping
      /\ x.meta = rts[r].meta /\ x.patching = rts[r].patching
  BY <1>0, <1>1, AfterStep
<1>. HIDE DEF h, x
<1>5. m \in Locals /\ m.ser = loc[t].ser /\ m.rt = r /\ m.new = None /\ m.guard = loc[t].guard
      /\ m.reverting = loc[t].reverting /\ m.delta = loc[t].delta /\ m.actual = h
      /\ m.keeper = loc[t].keeper
  BY <1>1, <1>3, SettingsAreDeltas DEF Locals
<1>6. pc' = [pc EXCEPT ![t] = "back"] /\ loc' = [loc EXCEPT ![t] = m]
      /\ rts' = [rts EXCEPT ![r] = x]
  BY DEF Programs, Goto, x, h
<1>. HIDE DEF m
<1>7. Fits(t, "back", m)
  BY <1>1, <1>5, Names DEF Fits, Resting, Patched, Stopping
<1>8. Moves(t, "back") /\ loc'[t] = m /\ ThreadsFit'
  BY <1>0, <1>5, <1>6, <1>7, ShapedParts, Threaded DEF Labels
<1>9. rts' \in [Runtimes -> RuntimeStates] /\ rts'[r] = x
      /\ \A q \in Runtimes : q # r => rts'[q] = rts[q]
  BY <1>1, <1>2, <1>4, <1>6
<1>10. Roomy(rts')
  BY <1>4, <1>9, ShapedParts DEF Roomy
<1>11. UNCHANGED <<set, handle, scan, overtaken, lost, calls, faults, troubles>>
  BY DEF Programs, ghosts, history
<1>12. CountersFit'
  BY <1>11, CountersNext
<1>13. IF Present' THEN set'.rt \in Runtimes ELSE set' = Gone
  BY <1>11, ShapedParts DEF Present
<1>14. Rated'
  BY <1>0, <1>5, <1>8, <1>11, ShapedParts, RatedSame DEF Present
<1>15. Shaped'
  BY <1>3, <1>8, <1>9, <1>10, <1>11, <1>12, <1>13, <1>14, ShapedParts, RadioNext DEF h
<1>. QED BY <1>0, <1>1, <1>4, <1>5, <1>8, <1>9, <1>11, <1>15 DEF h, ApplyTakenEffect

\* A step of t that leaves its guard alone.
LEMMA StepNext ==
  ASSUME Shaped, NEW t \in Threads, NEW p \in Labels, NEW m \in Locals, Fits(t, p, m),
         pc' = [pc EXCEPT ![t] = p], loc' = [loc EXCEPT ![t] = m],
         m.guard <=> loc[t].guard,
         set' \in SetStates, Present' => set'.rt \in Runtimes, ~Present' => set' = Gone,
         Present' => Present /\ set'.ratePatches = set.ratePatches,
         rts' \in [Runtimes -> RuntimeStates], Roomy(rts'),
         handle' \in Runtimes \cup {Closed, InHand}, hw' \in Settings, CountersFit'
  PROVE Shaped' /\ Moves(t, p) /\ loc'[t] = m
<1>1. Moves(t, p) /\ loc'[t] = m /\ ThreadsFit'
  BY ShapedParts, Threaded
<1>2. Rated'
  BY <1>1, ShapedParts, RatedSame
<1>. QED BY <1>1, <1>2, RadioNext

LEMMA StepEntry ==
  ASSUME Shaped, UNCHANGED set
  PROVE /\ set' \in SetStates /\ (Present' => set'.rt \in Runtimes)
        /\ (~Present' => set' = Gone)
        /\ (Present' => Present /\ set'.ratePatches = set.ratePatches)
BY ShapedParts DEF Present

LEMMA StepRts ==
  ASSUME Shaped, NEW r \in Runtimes, NEW x \in RuntimeStates, rts' = [rts EXCEPT ![r] = x],
         x.waiting # Nothing => x.batch < MaxBatches
  PROVE /\ rts' \in [Runtimes -> RuntimeStates] /\ rts'[r] = x
        /\ \A q \in Runtimes : q # r => rts'[q] = rts[q]
        /\ Roomy(rts')
<1>0. rts \in [Runtimes -> RuntimeStates] /\ Roomy(rts)
  BY ShapedParts
<1>1. rts' \in [Runtimes -> RuntimeStates] /\ rts'[r] = x
      /\ \A q \in Runtimes : q # r => rts'[q] = rts[q]
  BY <1>0
<1>. QED BY <1>0, <1>1 DEF Roomy

LEMMA ApplyFailsStep ==
  ASSUME Shaped, NEW t \in Clients \cup {"scanner"},
         NEW taken \in BOOLEAN, NEW failed \in BOOLEAN, RefusesIt(t, taken, failed)
  PROVE Shaped' /\ PatchFails(t)
<1>. DEFINE r == loc[t].rt
            x == After(t, r, taken, failed)
            f == [rts EXCEPT ![r] = x]
            n == RatePatchesWithout(t)
<1>0. t \in Threads /\ pc[t] \in Patched /\ pc[t] = "apply"
      /\ (taken <=> rts[r].waiting # Nothing)
      /\ (troubles' = troubles \/ (troubles < MaxTroubles /\ troubles' = troubles + 1))
  BY Names DEF RefusesIt, Patched
<1>1. loc[t].ser \in Runtimes /\ r \in Runtimes
  BY <1>0, ShapeOf
<1>2. rts \in [Runtimes -> RuntimeStates] /\ Roomy(rts)
  BY ShapedParts
<1>3. x \in RuntimeStates /\ x.waiting = Nothing /\ x.sweeping = rts[r].sweeping
      /\ x.meta = rts[r].meta /\ x.patching = rts[r].patching
  BY <1>0, <1>1, AfterStep
<1>4. EndPatch(t) /\ rts' = Unlocked(t, f) /\ set' = [set EXCEPT !.ratePatches = n]
  BY DEF RefusesIt, FailPatch
<1>. HIDE DEF x, n
<1>5. f \in [Runtimes -> RuntimeStates] /\ f[r] = x
      /\ \A q \in Runtimes : q # r => f[q] = rts[q]
  BY <1>1, <1>2, <1>3
<1>. HIDE DEF f
<1>6. /\ Roomy(f)
      /\ \A q \in Runtimes : f[q].patching = rts[q].patching /\ f[q].sweeping = rts[q].sweeping
      /\ \A q \in Runtimes : f[q].meta = rts[q].meta
      /\ \A q \in Runtimes : f[q].waiting = rts[q].waiting \/ (q = r /\ f[q].waiting = Nothing)
      /\ f[r].waiting = Nothing
  BY <1>2, <1>3, <1>5 DEF Roomy
<1>7. /\ set'.status = set.status /\ set'.rt = set.rt /\ set'.holds = set.holds
      /\ set'.settings = set.settings /\ set'.lanes = set.lanes
      /\ set'.ratePatches = n /\ (n \in Nat => set' \in SetStates)
      /\ (~Present => set' = set)
  BY <1>4, FinishSet DEF n, RatePatchesWithout
<1>8. UNCHANGED <<handle, hw, scan, overtaken, lost, calls, faults>>
  BY DEF RefusesIt, ghosts, history
<1>9. Shaped' /\ PatchEnds(t)
  <2>1. \A q \in Runtimes : f[q].meta = {} => rts[q].meta = {}
    BY <1>6
  <2>2. \A q \in Runtimes : \/ f[q].waiting = rts[q].waiting
                            \/ pc[t] = "apply" /\ q = loc[t].rt /\ f[q].waiting = Nothing
    BY <1>0, <1>6
  <2>. QED BY <1>0, <1>4, <1>5, <1>6, <1>7, <1>8, <2>1, <2>2, EndsStep DEF n
<1>10. \A q \in Runtimes : (q = loc[t].ser /\ OnlyFor(t, q)) \/ rts'[q].meta = rts[q].meta
  BY <1>0, <1>1, <1>4, <1>5, <1>6, EndsMeta
<1>. QED BY <1>7, <1>9, <1>10 DEF PatchFails

ApplyIdleEffect(t) ==
  /\ pc[t] = "apply" /\ rts[loc[t].rt].waiting = Nothing
  /\ Moves(t, "back")
  /\ loc[t].ser \in Runtimes /\ loc[t].rt \in Runtimes
  /\ loc'[t].ser = loc[t].ser /\ loc'[t].rt = loc[t].rt /\ loc'[t].new = None
  /\ loc'[t].guard <=> loc[t].guard
  /\ loc'[t].reverting = loc[t].reverting
  /\ loc'[t].delta = loc[t].delta
  /\ loc'[t].actual = IF handle = loc[t].rt THEN hw ELSE Nothing
  /\ \A r \in Runtimes : /\ rts'[r].sweeping = rts[r].sweeping
                         /\ rts'[r].waiting = rts[r].waiting
                         /\ rts'[r].meta = rts[r].meta
                         /\ rts'[r].patching = rts[r].patching
  /\ UNCHANGED <<set, hw, handle, scan, overtaken, lost>>

LEMMA ApplyIdleStep ==
  ASSUME Shaped, NEW t \in Clients \cup {"scanner"}, FindsItDone(t)
  PROVE Shaped' /\ ApplyIdleEffect(t)
<1>. DEFINE r == loc[t].rt
            x == After(t, r, FALSE, FALSE)
            h == IF handle = r THEN hw ELSE Nothing
            m == [loc[t] EXCEPT !.actual = h]
<1>0. t \in Threads /\ pc[t] = "apply" /\ rts[r].waiting = Nothing
  BY Names DEF FindsItDone
<1>1. loc[t] \in Locals /\ loc[t].ser \in Runtimes /\ r \in Runtimes /\ loc[t].new = None
      /\ Fits(t, "apply", loc[t])
  BY <1>0, ShapeOf DEF Patched
<1>2. hw \in Settings /\ handle \in Runtimes \cup {Closed, InHand}
  BY ShapedParts
<1>3. h \in Deltas
  BY <1>2, SettingsAreDeltas
<1>4. x \in RuntimeStates /\ x.waiting = Nothing /\ x.sweeping = rts[r].sweeping
      /\ x.meta = rts[r].meta /\ x.patching = rts[r].patching
  BY <1>0, <1>1, AfterStep
<1>. HIDE DEF h, x
<1>5. m \in Locals /\ m.ser = loc[t].ser /\ m.rt = r /\ m.new = None /\ m.guard = loc[t].guard
      /\ m.reverting = loc[t].reverting /\ m.delta = loc[t].delta /\ m.actual = h
      /\ m.keeper = loc[t].keeper
  BY <1>1, <1>3 DEF Locals
<1>6. pc' = [pc EXCEPT ![t] = "back"] /\ loc' = [loc EXCEPT ![t] = m]
      /\ rts' = [rts EXCEPT ![r] = x]
  BY DEF FindsItDone, Goto, x, h
<1>. HIDE DEF m
<1>7. Fits(t, "back", m) /\ "back" \in Labels
  BY <1>1, <1>5, Names DEF Fits, Resting, Patched, Stopping, Labels
<1>8. rts' \in [Runtimes -> RuntimeStates] /\ rts'[r] = x
      /\ (\A q \in Runtimes : q # r => rts'[q] = rts[q]) /\ Roomy(rts')
  BY <1>1, <1>4, <1>6, StepRts
<1>9. UNCHANGED <<set, hw, handle, scan, overtaken, lost, calls, faults, troubles>>
  BY DEF FindsItDone, ghosts, history
<1>10. CountersFit'
  BY <1>9, CountersNext
<1>12. /\ set' \in SetStates /\ (Present' => set'.rt \in Runtimes)
       /\ (~Present' => set' = Gone)
       /\ (Present' => Present /\ set'.ratePatches = set.ratePatches)
       /\ handle' \in Runtimes \cup {Closed, InHand} /\ hw' \in Settings
  BY <1>2, <1>9, StepEntry
<1>13. m.guard <=> loc[t].guard
  BY <1>5
<1>11. Shaped' /\ Moves(t, "back") /\ loc'[t] = m
  BY <1>0, <1>5, <1>6, <1>7, <1>8, <1>10, <1>12, <1>13, StepNext, ZenonT(30)
<1>. QED BY <1>0, <1>1, <1>4, <1>5, <1>8, <1>9, <1>11 DEF h, ApplyIdleEffect

LEMMA FinishStep ==
  ASSUME Shaped, NEW t \in Clients \cup {"scanner"}, pc[t] \in Patched, pc[t] # "apply",
         FinishPatch(t),
         UNCHANGED <<handle, hw, faults, troubles, scan, calls, overtaken, lost>>
  PROVE Shaped' /\ PatchFails(t)
<1>. DEFINE n == RatePatchesWithout(t)
<1>0. t \in Threads
  BY Names
<1>1. loc[t].ser \in Runtimes
  BY <1>0, ShapeOf
<1>2. rts \in [Runtimes -> RuntimeStates] /\ Roomy(rts)
  BY ShapedParts
<1>4. EndPatch(t) /\ rts' = Unlocked(t, rts) /\ set' = [set EXCEPT !.ratePatches = n]
  BY DEF FinishPatch
<1>. HIDE DEF n
<1>7. /\ set'.status = set.status /\ set'.rt = set.rt /\ set'.holds = set.holds
      /\ set'.settings = set.settings /\ set'.lanes = set.lanes
      /\ set'.ratePatches = n /\ (n \in Nat => set' \in SetStates)
      /\ (~Present => set' = set)
  BY <1>4, FinishSet DEF n, RatePatchesWithout
<1>9. Shaped' /\ PatchEnds(t)
  BY <1>2, <1>4, <1>7, EndsStep DEF n
<1>10. \A q \in Runtimes : (q = loc[t].ser /\ OnlyFor(t, q)) \/ rts'[q].meta = rts[q].meta
  BY <1>0, <1>1, <1>2, <1>4, EndsMeta
<1>. QED BY <1>7, <1>9, <1>10 DEF PatchFails

LEMMA AnsweredStep ==
  ASSUME Shaped, NEW t \in Threads
  PROVE Answered(t) \in Settings
<1>1. set.settings \in Settings /\ loc[t].delta \in Deltas /\ loc[t].actual \in Deltas
  BY ShapedParts DEF ThreadsFit, SetStates, Locals
<1>2. Merge(set.settings, loc[t].delta) \in Settings
  BY <1>1, MergeSettings
<1>. QED BY <1>1, <1>2, MergeSettings DEF Answered

LEMMA WriteBackGivesUpStep ==
  ASSUME Shaped, NEW t \in Clients \cup {"scanner"}, WriteBack(t),
         ~Present \/ loc[t].reverting
  PROVE Shaped' /\ PatchFails(t) /\ pc[t] = "back"
<1>1. pc[t] = "back" /\ FinishPatch(t)
      /\ UNCHANGED <<handle, hw, faults, troubles, scan, calls, overtaken, lost>>
  BY DEF WriteBack, TooLate, radio, ghosts, history
<1>. QED BY <1>1, FinishStep DEF Patched

WriteBackRevertsEffect(t) ==
  /\ Moves(t, "apply") /\ pc[t] = "back"
  /\ loc[t].ser \in Runtimes
  /\ loc'[t].ser = loc[t].ser /\ loc'[t].rt = loc[t].rt /\ loc'[t].new = None
  /\ loc'[t].guard <=> loc[t].guard
  /\ \A r \in Runtimes : /\ rts'[r].sweeping = rts[r].sweeping
                         /\ rts'[r].meta = rts[r].meta
                         /\ rts'[r].patching = rts[r].patching
  /\ UNCHANGED <<set, hw, handle, scan, overtaken, lost>>

LEMMA WriteBackRevertsStep ==
  ASSUME Shaped, NEW t \in Clients \cup {"scanner"}, WriteBack(t), TooLate(t)
  PROVE Shaped' /\ WriteBackRevertsEffect(t)
<1>. DEFINE r == loc[t].rt
            d == [f \in {"rate"} |-> set.settings["rate"]]
            w == Merge(rts[r].waiting, d)
            b == rts[r].batch
            x == [rts[r] EXCEPT !.waiting = w]
            m == [loc[t] EXCEPT !.reverting = TRUE, !.batch = b]
<1>0. t \in Threads /\ pc[t] = "back" /\ b < MaxBatches
  BY Names DEF WriteBack, TooLate
<1>1. loc[t] \in Locals /\ loc[t].ser \in Runtimes /\ r \in Runtimes /\ loc[t].new = None
      /\ Fits(t, "back", loc[t])
  BY <1>0, ShapeOf DEF Patched
<1>2. hw \in Settings /\ handle \in Runtimes \cup {Closed, InHand} /\ rts[r] \in RuntimeStates
      /\ set \in SetStates
  BY <1>1, ShapedParts
<1>3. d \in [{"rate"} -> Nat]
  BY <1>2 DEF SetStates, Settings, Fields
<1>4. d \in Deltas
  BY <1>3 DEF Deltas
<1>5. w \in Deltas /\ b \in 0..MaxBatches
  BY <1>2, <1>4, MergeDeltas DEF RuntimeStates
<1>6. pc' = [pc EXCEPT ![t] = "apply"] /\ loc' = [loc EXCEPT ![t] = m]
      /\ rts' = [rts EXCEPT ![r] = x]
      /\ UNCHANGED <<set, hw, handle, scan, overtaken, lost, calls, faults, troubles>>
  BY DEF WriteBack, TooLate, Goto, Owed, radio, ghosts, history
<1>. HIDE DEF d, w, b
<1>7. x \in RuntimeStates /\ x.sweeping = rts[r].sweeping /\ x.batch = b
      /\ x.meta = rts[r].meta /\ x.patching = rts[r].patching
  BY <1>2, <1>5, RtWaiting DEF b
<1>8. m \in Locals /\ m.ser = loc[t].ser /\ m.rt = r /\ m.new = None /\ m.guard = loc[t].guard
      /\ m.keeper = loc[t].keeper
  BY <1>1, <1>5 DEF Locals
<1>. HIDE DEF m, x
<1>9. Fits(t, "apply", m) /\ "apply" \in Labels
  BY <1>1, <1>8, Names DEF Fits, Resting, Patched, Stopping, Labels
<1>10. rts' \in [Runtimes -> RuntimeStates] /\ rts'[r] = x
      /\ (\A q \in Runtimes : q # r => rts'[q] = rts[q]) /\ Roomy(rts')
  BY <1>0, <1>1, <1>6, <1>7, StepRts
<1>11. CountersFit'
  BY <1>6, CountersNext
<1>12. /\ set' \in SetStates /\ (Present' => set'.rt \in Runtimes)
       /\ (~Present' => set' = Gone)
       /\ (Present' => Present /\ set'.ratePatches = set.ratePatches)
       /\ handle' \in Runtimes \cup {Closed, InHand} /\ hw' \in Settings
  BY <1>2, <1>6, StepEntry
<1>13. m.guard <=> loc[t].guard
  BY <1>8
<1>14. Shaped' /\ Moves(t, "apply") /\ loc'[t] = m
  BY <1>0, <1>6, <1>8, <1>9, <1>10, <1>11, <1>12, <1>13, StepNext, ZenonT(30)
<1>. QED BY <1>0, <1>1, <1>6, <1>7, <1>8, <1>10, <1>14 DEF WriteBackRevertsEffect

\* What set_meta tells the lanes.
Tells(t) == [rts[loc[t].rt] EXCEPT !.meta = IF rts[loc[t].rt].meta = {} THEN {}
                                            ELSE {Answered(t)["rate"]}]

LEMMA TellsStep ==
  ASSUME Shaped, NEW t \in Threads, loc[t].rt \in Runtimes
  PROVE LET x == Tells(t)
            r == loc[t].rt
        IN /\ x \in RuntimeStates /\ x.waiting = rts[r].waiting /\ x.batch = rts[r].batch
           /\ x.sweeping = rts[r].sweeping /\ x.patching = rts[r].patching
           /\ x.meta = IF rts[r].meta = {} THEN {} ELSE {Answered(t)["rate"]}
<1>. DEFINE r == loc[t].rt
            v == IF rts[r].meta = {} THEN {} ELSE {Answered(t)["rate"]}
<1>1. rts[r] \in RuntimeStates /\ Answered(t) \in Settings
  BY ShapedParts, AnsweredStep
<1>2. v \in SUBSET Nat
  BY <1>1 DEF Settings, Fields
<1>3. Tells(t) = [rts[r] EXCEPT !.meta = v]
  BY DEF Tells
<1>. HIDE DEF v
<1>4. Tells(t) \in RuntimeStates /\ Tells(t).waiting = rts[r].waiting
      /\ Tells(t).batch = rts[r].batch /\ Tells(t).sweeping = rts[r].sweeping
      /\ Tells(t).patching = rts[r].patching /\ Tells(t).meta = v
  BY <1>1, <1>2, <1>3, RtMeta
<1>. QED BY <1>4 DEF v

\* The lanes the table shows once a patch is answered.
NowLanes == IF handle = set.rt THEN hw["lanes"] ELSE set.lanes

WriteBackEndsEffect(t) ==
  /\ PatchEnds(t) /\ pc[t] = "back"
  /\ set'.settings = Answered(t) /\ set'.lanes = NowLanes
  /\ \A r \in Runtimes :
       \/ r = loc[t].ser /\ OnlyFor(t, r)
       \/ r # loc[t].rt /\ rts'[r].meta = rts[r].meta
       \/ r = loc[t].rt /\ rts[r].meta = {}
       \/ r = loc[t].rt /\ rts'[r].meta = {Answered(t)["rate"]}

LEMMA WriteBackEndsStep ==
  ASSUME Shaped, NEW t \in Clients \cup {"scanner"}, WriteBack(t),
         Present, ~loc[t].reverting, ~TooLate(t), ~Relaned(t)
  PROVE Shaped' /\ WriteBackEndsEffect(t)
<1>. DEFINE r == loc[t].rt
            x == Tells(t)
            f == [rts EXCEPT ![r] = x]
            n == RatePatchesWithout(t)
            a == Answered(t)
            l == NowLanes
<1>0. t \in Threads /\ pc[t] = "back" /\ pc[t] \in Patched
  BY Names DEF WriteBack, Patched
<1>1. loc[t].ser \in Runtimes /\ r \in Runtimes
  BY <1>0, ShapeOf
<1>2. rts \in [Runtimes -> RuntimeStates] /\ Roomy(rts) /\ rts[r] \in RuntimeStates
      /\ set \in SetStates /\ a \in Settings
  BY <1>0, <1>1, ShapedParts, AnsweredStep
<1>3. x \in RuntimeStates /\ x.waiting = rts[r].waiting /\ x.batch = rts[r].batch
      /\ x.sweeping = rts[r].sweeping /\ x.patching = rts[r].patching
      /\ x.meta = IF rts[r].meta = {} THEN {} ELSE {a["rate"]}
  BY <1>0, <1>1, TellsStep
<1>4. l \in Nat
  BY <1>2, ShapedParts DEF NowLanes, Settings, SetStates, Fields
<1>5. EndPatch(t) /\ rts' = Unlocked(t, f)
      /\ UNCHANGED <<handle, hw, faults, troubles, scan, calls, overtaken, lost>>
  BY <1>2 DEF WriteBack, Tells, RuntimeStates, radio, ghosts, history
<1>6. set' = [[set EXCEPT !.settings = a, !.lanes = l] EXCEPT !.ratePatches = n]
  BY <1>2 DEF WriteBack, NowLanes, SetStates
<1>. HIDE DEF x, n, a, l
<1>7. /\ set'.status = set.status /\ set'.rt = set.rt /\ set'.holds = set.holds
      /\ set'.settings = a /\ set'.lanes = l
      /\ set'.ratePatches = n /\ (n \in Nat => set' \in SetStates)
  BY <1>2, <1>4, <1>6 DEF SetStates
<1>8. f \in [Runtimes -> RuntimeStates] /\ f[r] = x
      /\ \A q \in Runtimes : q # r => f[q] = rts[q]
  BY <1>1, <1>2, <1>3
<1>. HIDE DEF f
<1>9. /\ Roomy(f)
      /\ \A q \in Runtimes : f[q].patching = rts[q].patching /\ f[q].sweeping = rts[q].sweeping
      /\ \A q \in Runtimes : f[q].waiting = rts[q].waiting
      /\ \A q \in Runtimes : f[q].meta = {} => rts[q].meta = {}
  BY <1>2, <1>3, <1>8 DEF Roomy
<1>10. Shaped' /\ PatchEnds(t)
  BY <1>0, <1>5, <1>7, <1>8, <1>9, EndsStep DEF n
<1>11. Frees(t, f, rts')
  BY <1>0, <1>1, <1>5, <1>8, UnlockedStep
<1>12. \A q \in Runtimes :
         \/ q = loc[t].ser /\ OnlyFor(t, q)
         \/ q # r /\ rts'[q].meta = rts[q].meta
         \/ q = r /\ rts[q].meta = {}
         \/ q = r /\ rts'[q].meta = {a["rate"]}
  BY <1>1, <1>3, <1>8, <1>11 DEF Frees
<1>. QED BY <1>0, <1>7, <1>10, <1>12 DEF a, l, WriteBackEndsEffect

WriteBackRelanesEffect(t) ==
  /\ Moves(t, "restart") /\ pc[t] = "back"
  /\ loc[t].ser \in Runtimes /\ loc'[t] = loc[t]
  /\ set'.settings = Answered(t) /\ set'.lanes = NowLanes
  /\ set'.status = set.status /\ set'.rt = set.rt /\ set'.holds = set.holds
  /\ \A r \in Runtimes :
       /\ rts'[r].sweeping = rts[r].sweeping /\ rts'[r].patching = rts[r].patching
       /\ rts'[r].waiting = rts[r].waiting
       /\ \/ r # loc[t].rt /\ rts'[r].meta = rts[r].meta
          \/ r = loc[t].rt /\ rts[r].meta = {}
          \/ r = loc[t].rt /\ rts'[r].meta = {Answered(t)["rate"]}
  /\ UNCHANGED <<hw, handle, scan, overtaken, lost>>

LEMMA WriteBackRelanesStep ==
  ASSUME Shaped, NEW t \in Clients \cup {"scanner"}, WriteBack(t),
         Present, ~loc[t].reverting, ~TooLate(t), Relaned(t)
  PROVE Shaped' /\ WriteBackRelanesEffect(t)
<1>. DEFINE r == loc[t].rt
            x == Tells(t)
            a == Answered(t)
            l == NowLanes
<1>0. t \in Threads /\ pc[t] = "back"
  BY Names DEF WriteBack
<1>1. loc[t].ser \in Runtimes /\ r \in Runtimes /\ Fits(t, "back", loc[t]) /\ loc[t].new = None
  BY <1>0, ShapeOf DEF Patched
<1>2. rts[r] \in RuntimeStates /\ set \in SetStates /\ a \in Settings /\ set.rt \in Runtimes
  BY <1>0, <1>1, ShapedParts, AnsweredStep
<1>3. x \in RuntimeStates /\ x.waiting = rts[r].waiting /\ x.batch = rts[r].batch
      /\ x.sweeping = rts[r].sweeping /\ x.patching = rts[r].patching
      /\ x.meta = IF rts[r].meta = {} THEN {} ELSE {a["rate"]}
  BY <1>0, <1>1, TellsStep
<1>4. l \in Nat
  BY <1>2, ShapedParts DEF NowLanes, Settings, SetStates, Fields
<1>5. pc' = [pc EXCEPT ![t] = "restart"] /\ loc' = loc /\ rts' = [rts EXCEPT ![r] = x]
      /\ UNCHANGED <<handle, hw, faults, troubles, scan, calls, overtaken, lost>>
  BY <1>2 DEF WriteBack, Tells, RuntimeStates, Goto, radio, ghosts, history
<1>6. set' = [set EXCEPT !.settings = a, !.lanes = l]
  BY <1>2 DEF WriteBack, NowLanes, SetStates
<1>. HIDE DEF x, a, l
<1>7. /\ set'.status = set.status /\ set'.rt = set.rt /\ set'.holds = set.holds
      /\ set'.settings = a /\ set'.lanes = l
      /\ set'.ratePatches = set.ratePatches /\ set' \in SetStates
  BY <1>2, <1>4, <1>6 DEF SetStates
<1>8. Roomy(rts) /\ (x.waiting # Nothing => x.batch < MaxBatches)
  BY <1>1, <1>3, ShapedParts DEF Roomy
<1>9. rts' \in [Runtimes -> RuntimeStates] /\ rts'[r] = x
      /\ (\A q \in Runtimes : q # r => rts'[q] = rts[q]) /\ Roomy(rts')
  BY <1>1, <1>3, <1>5, <1>8, StepRts
<1>10. Fits(t, "restart", loc[t]) /\ "restart" \in Labels
  BY <1>1, Names DEF Fits, Resting, Patched, Stopping, Labels
<1>11. Moves(t, "restart") /\ loc'[t] = loc[t] /\ ThreadsFit'
  BY <1>0, <1>5, <1>10, ShapedParts, Placed
<1>12. CountersFit'
  BY <1>5, CountersNext
<1>13. Present' /\ Present
  BY <1>7 DEF Present
<1>14. Rated'
  BY <1>0, <1>7, <1>11, <1>13, ShapedParts, RatedSame
<1>15. Shaped'
  BY <1>2, <1>5, <1>7, <1>9, <1>11, <1>12, <1>13, <1>14, ShapedParts, RadioNext
<1>. QED BY <1>0, <1>1, <1>3, <1>5, <1>7, <1>9, <1>11, <1>15 DEF a, l, WriteBackRelanesEffect


----------------------------------------------------------------------------
(* Runtimes are stopped, started and replaced.                             *)

\* What a step does to runtime q: nothing, stop it, start it, forget it.
Stays(q) ==
  /\ rts'[q].sweeping = rts[q].sweeping /\ rts'[q].meta = rts[q].meta
  /\ rts'[q].waiting = rts[q].waiting /\ rts'[q].patching = rts[q].patching
Halts(q) ==
  /\ rts'[q].sweeping = rts[q].sweeping /\ rts'[q].meta = {}
  /\ rts'[q].waiting = rts[q].waiting /\ rts'[q].patching = rts[q].patching
Starts(q, sweeping, rate) ==
  /\ rts'[q].sweeping = sweeping /\ rts'[q].meta = {rate}
  /\ rts'[q].waiting = Nothing /\ rts'[q].patching = "free"
Forgets(q) ==
  /\ ~rts'[q].sweeping /\ rts'[q].meta = {}
  /\ rts'[q].waiting = Nothing /\ rts'[q].patching = "free"

LEMMA HaltedFits ==
  ASSUME Shaped, NEW r \in Runtimes
  PROVE LET h == Halted(r)
        IN /\ h \in [Runtimes -> RuntimeStates] /\ Roomy(h)
           /\ \A q \in Runtimes : q # r => h[q] = rts[q]
           /\ h[r].meta = {} /\ h[r].sweeping = rts[r].sweeping /\ h[r].batch = rts[r].batch
           /\ h[r].waiting = rts[r].waiting /\ h[r].patching = rts[r].patching
<1>. DEFINE x == [rts[r] EXCEPT !.live = FALSE, !.meta = {}]
<1>0. rts \in [Runtimes -> RuntimeStates] /\ Roomy(rts)
  BY ShapedParts
<1>1. x \in RuntimeStates /\ x.sweeping = rts[r].sweeping /\ x.meta = {}
      /\ x.batch = rts[r].batch /\ x.waiting = rts[r].waiting /\ x.patching = rts[r].patching
  BY <1>0 DEF RuntimeStates
<1>2. Halted(r) = [rts EXCEPT ![r] = x]
  BY DEF Halted
<1>. HIDE DEF x
<1>3. Halted(r) \in [Runtimes -> RuntimeStates] /\ Halted(r)[r] = x
      /\ \A q \in Runtimes : q # r => Halted(r)[q] = rts[q]
  BY <1>0, <1>1, <1>2
<1>4. Roomy(Halted(r))
  BY <1>0, <1>1, <1>3 DEF Roomy
<1>. QED BY <1>1, <1>3, <1>4

\* The step stops r and does nothing else to the runtimes.
LEMMA HaltedStep ==
  ASSUME Shaped, NEW r \in Runtimes, rts' = Halted(r)
  PROVE /\ rts' \in [Runtimes -> RuntimeStates] /\ Roomy(rts')
        /\ Halts(r) /\ \A q \in Runtimes : q # r => Stays(q)
BY HaltedFits DEF Halts, Stays

LEMMA StartedFits ==
  ASSUME NEW sweeping \in BOOLEAN, NEW rate \in Nat
  PROVE LET x == Started(sweeping, rate)
        IN /\ x \in RuntimeStates /\ x.sweeping = sweeping /\ x.meta = {rate}
           /\ x.waiting = Nothing /\ x.patching = "free"
<1>1. Fallow \in RuntimeStates /\ Fallow.waiting = Nothing /\ Fallow.patching = "free"
  BY RtFallow
<1>. DEFINE v == {rate}
            x == Started(sweeping, rate)
<1>2. x = [Fallow EXCEPT !.live = TRUE, !.sweeping = sweeping, !.meta = v]
  BY DEF Started
<1>3. v \in SUBSET Nat
  OBVIOUS
<1>. HIDE DEF v, x
<1>4. x \in RuntimeStates /\ x.sweeping = sweeping /\ x.meta = v
      /\ x.waiting = Fallow.waiting /\ x.patching = Fallow.patching
  BY <1>1, <1>2, <1>3 DEF RuntimeStates
<1>. QED BY <1>1, <1>4 DEF v, x

\* The step starts r on the radio, once old, if there is one, is stopped.
LEMMA StartedStep ==
  ASSUME Shaped, NEW r \in Runtimes, NEW sweeping \in BOOLEAN, NEW rate \in Nat,
         rts' = [rts EXCEPT ![r] = Started(sweeping, rate)]
  PROVE /\ rts' \in [Runtimes -> RuntimeStates] /\ Roomy(rts')
        /\ Starts(r, sweeping, rate) /\ \A q \in Runtimes : q # r => Stays(q)
<1>. DEFINE x == Started(sweeping, rate)
<1>1. x \in RuntimeStates /\ x.sweeping = sweeping /\ x.meta = {rate}
      /\ x.waiting = Nothing /\ x.patching = "free"
  BY StartedFits
<1>. HIDE DEF x
<1>2. rts' = [rts EXCEPT ![r] = x]
  BY DEF x
<1>3. rts' \in [Runtimes -> RuntimeStates] /\ rts'[r] = x
      /\ (\A q \in Runtimes : q # r => rts'[q] = rts[q]) /\ Roomy(rts')
  BY <1>1, <1>2, StepRts
<1>. QED BY <1>1, <1>3 DEF Starts, Stays

LEMMA RestartedStep ==
  ASSUME Shaped, NEW r \in Runtimes, NEW old \in Runtimes, r # old,
         NEW sweeping \in BOOLEAN, NEW rate \in Nat,
         rts' = [Halted(old) EXCEPT ![r] = Started(sweeping, rate)]
  PROVE /\ rts' \in [Runtimes -> RuntimeStates] /\ Roomy(rts')
        /\ Starts(r, sweeping, rate) /\ Halts(old)
        /\ \A q \in Runtimes : q \notin {r, old} => Stays(q)
<1>. DEFINE x == Started(sweeping, rate)
            h == Halted(old)
<1>1. x \in RuntimeStates /\ x.sweeping = sweeping /\ x.meta = {rate}
      /\ x.waiting = Nothing /\ x.patching = "free"
  BY StartedFits
<1>2. /\ h \in [Runtimes -> RuntimeStates] /\ Roomy(h)
      /\ \A q \in Runtimes : q # old => h[q] = rts[q]
      /\ h[old].meta = {} /\ h[old].sweeping = rts[old].sweeping
      /\ h[old].waiting = rts[old].waiting /\ h[old].patching = rts[old].patching
  BY HaltedFits
<1>3. rts' = [h EXCEPT ![r] = x]
  OBVIOUS
<1>. HIDE DEF x, h
<1>4. rts' \in [Runtimes -> RuntimeStates] /\ rts'[r] = x
      /\ \A q \in Runtimes : q # r => rts'[q] = h[q]
  BY <1>1, <1>2, <1>3
<1>5. Roomy(rts')
  BY <1>1, <1>2, <1>4 DEF Roomy
<1>. QED BY <1>1, <1>2, <1>4, <1>5 DEF Starts, Halts, Stays

\* Nobody but t works with q.
Unused(t, q) == \A o \in Threads \ {t} : loc[o].ser # q /\ loc[o].rt # q

LEMMA ReplacedFits ==
  ASSUME Shaped, NEW t \in Threads, set.rt \in Runtimes
  PROVE LET g == Replaced(t)
            old == set.rt
        IN /\ g \in [Runtimes -> RuntimeStates] /\ Roomy(g)
           /\ \A q \in Runtimes : q # old => g[q] = rts[q]
           /\ g[old].meta = {}
           /\ \/ /\ Unused(t, old) /\ g[old].patching = "free"
                 /\ ~g[old].sweeping /\ g[old].waiting = Nothing
              \/ /\ ~Unused(t, old) /\ g[old].patching = rts[old].patching
                 /\ g[old].sweeping = rts[old].sweeping /\ g[old].waiting = rts[old].waiting
<1>. DEFINE old == set.rt
            h == Halted(old)
<1>0. rts \in [Runtimes -> RuntimeStates] /\ Roomy(rts)
  BY ShapedParts
<1>1. /\ h \in [Runtimes -> RuntimeStates] /\ Roomy(h)
      /\ h[old].meta = {} /\ h[old].sweeping = rts[old].sweeping
      /\ h[old].waiting = rts[old].waiting /\ h[old].patching = rts[old].patching
  BY HaltedFits
<1>2. Replaced(t) = [rts EXCEPT ![old] = IF ~Unused(t, old) THEN h[old] ELSE Fallow]
  BY DEF Replaced, Unused
<1>. HIDE DEF h
<1>3. CASE Unused(t, old)
  <2>1. Replaced(t) = [rts EXCEPT ![old] = Fallow]
    BY <1>2, <1>3
  <2>2. /\ Replaced(t) \in [Runtimes -> RuntimeStates] /\ Replaced(t)[old] = Fallow
        /\ \A q \in Runtimes : q # old => Replaced(t)[q] = rts[q]
    BY <1>0, <2>1, RtFallow
  <2>3. Roomy(Replaced(t))
    BY <1>0, <2>2, RtFallow DEF Roomy
  <2>. QED BY <1>3, <2>2, <2>3, RtFallow
<1>4. CASE ~Unused(t, old)
  <2>1. Replaced(t) = [rts EXCEPT ![old] = h[old]]
    BY <1>2, <1>4
  <2>2. /\ Replaced(t) \in [Runtimes -> RuntimeStates] /\ Replaced(t)[old] = h[old]
        /\ \A q \in Runtimes : q # old => Replaced(t)[q] = rts[q]
    BY <1>0, <1>1, <2>1
  <2>3. Roomy(Replaced(t))
    BY <1>0, <1>1, <2>2 DEF Roomy
  <2>. QED BY <1>1, <1>4, <2>2, <2>3
<1>. QED BY <1>3, <1>4

LEMMA ReplacedStep ==
  ASSUME Shaped, NEW t \in Threads, set.rt \in Runtimes, rts' = Replaced(t)
  PROVE /\ rts' \in [Runtimes -> RuntimeStates] /\ Roomy(rts')
        /\ \A q \in Runtimes : q # set.rt => Stays(q)
        /\ (Unused(t, set.rt) /\ Forgets(set.rt)) \/ (~Unused(t, set.rt) /\ Halts(set.rt))
BY ReplacedFits DEF Stays, Forgets, Halts

----------------------------------------------------------------------------
(* The steps of restart_lanes.                                             *)

\* A step of t that leaves the entry and t's guard alone.
LEMMA StepHere ==
  ASSUME Shaped, NEW t \in Threads, NEW p \in Labels, NEW m \in Locals, Fits(t, p, m),
         pc' = [pc EXCEPT ![t] = p], loc' = [loc EXCEPT ![t] = m],
         m.guard <=> loc[t].guard, set' = set,
         rts' \in [Runtimes -> RuntimeStates], Roomy(rts'),
         handle' \in Runtimes \cup {Closed, InHand}, hw' \in Settings, CountersFit'
  PROVE Shaped' /\ Moves(t, p) /\ loc'[t] = m
<1>1. /\ set' \in SetStates /\ (Present' => set'.rt \in Runtimes)
      /\ (~Present' => set' = Gone)
      /\ (Present' => Present /\ set'.ratePatches = set.ratePatches)
  BY StepEntry
<1>. QED BY <1>1, StepNext, ZenonT(30)

\* The same, and t's locals stay too.
LEMMA StepAlong ==
  ASSUME Shaped, NEW t \in Threads, NEW p \in Labels, Fits(t, p, loc[t]),
         pc' = [pc EXCEPT ![t] = p], loc' = loc, set' = set,
         rts' \in [Runtimes -> RuntimeStates], Roomy(rts'),
         handle' \in Runtimes \cup {Closed, InHand}, hw' \in Settings, CountersFit'
  PROVE Shaped' /\ Moves(t, p) /\ loc'[t] = loc[t]
<1>1. loc[t] \in Locals /\ loc \in [Threads -> Locals]
  BY ShapedParts DEF ThreadsFit
<1>2. loc' = [loc EXCEPT ![t] = loc[t]]
  BY <1>1
<1>. QED BY <1>1, <1>2, StepHere, ZenonT(30)

LEMMA RadioFits ==
  ASSUME Shaped
  PROVE /\ rts \in [Runtimes -> RuntimeStates] /\ Roomy(rts)
        /\ handle \in Runtimes \cup {Closed, InHand} /\ hw \in Settings
        /\ set \in SetStates /\ overtaken \in Nat
        /\ set.settings \in Settings /\ set.settings["rate"] \in Nat /\ hw["rate"] \in Nat
        /\ Present => set.rt \in Runtimes
        /\ ~Present => set = Gone
BY ShapedParts, RadioAssumption DEF SetStates, Settings, Fields

LEMMA OvertakingStep ==
  ASSUME Shaped, NEW so \in BOOLEAN, Overtaking(so)
  PROVE /\ overtaken' = overtaken \/ (overtaken < MaxOvertakes /\ overtaken' = overtaken + 1)
        /\ overtaken' = 0 => overtaken = 0 /\ ~so
BY RadioFits DEF Overtaking

RestartLanesEffect(t) ==
  /\ Moves(t, "relane") /\ pc[t] = "restart"
  /\ loc[t].ser \in Runtimes /\ set.rt \in Runtimes
  /\ loc'[t].ser = loc[t].ser /\ loc'[t].rt = set.rt /\ loc'[t].new = None
  /\ loc'[t].guard <=> loc[t].guard
  /\ loc'[t].reverting = loc[t].reverting
  /\ loc'[t].rate = set.settings["rate"]
  /\ overtaken' = 0 => set.rt = loc[t].ser /\ overtaken = 0
  /\ UNCHANGED <<set, rts, handle, hw, scan, lost>>

LEMMA RestartLanesStep ==
  ASSUME Shaped, NEW t \in Clients \cup {"scanner"}, RestartLanes(t), Present
  PROVE Shaped' /\ RestartLanesEffect(t)
<1>. DEFINE r == set.rt
            v == set.settings["rate"]
            m == [loc[t] EXCEPT !.rt = r, !.rate = v]
<1>0. t \in Threads /\ pc[t] = "restart"
  BY Names DEF RestartLanes
<1>1. loc[t] \in Locals /\ loc[t].ser \in Runtimes /\ loc[t].new = None
      /\ Fits(t, "restart", loc[t])
  BY <1>0, ShapeOf DEF Patched
<1>2. r \in Runtimes /\ v \in Nat /\ rts \in [Runtimes -> RuntimeStates] /\ Roomy(rts)
      /\ handle \in Runtimes \cup {Closed, InHand} /\ hw \in Settings
  BY RadioFits
<1>3. pc' = [pc EXCEPT ![t] = "relane"] /\ loc' = [loc EXCEPT ![t] = m]
      /\ Overtaking(r # loc[t].ser)
      /\ UNCHANGED <<set, rts, handle, hw, scan, lost, calls, faults, troubles>>
  BY DEF RestartLanes, Goto, radio
<1>. HIDE DEF v
<1>4. m \in Locals /\ m.ser = loc[t].ser /\ m.rt = r /\ m.new = None /\ m.guard = loc[t].guard
      /\ m.reverting = loc[t].reverting /\ m.rate = v /\ m.keeper = loc[t].keeper
  BY <1>1, <1>2 DEF Locals
<1>. HIDE DEF m
<1>5. Fits(t, "relane", m) /\ "relane" \in Labels
  BY <1>1, <1>2, <1>4, Names DEF Fits, Resting, Patched, Stopping, Labels
<1>6. /\ overtaken' = overtaken \/ (overtaken < MaxOvertakes /\ overtaken' = overtaken + 1)
      /\ overtaken' = 0 => overtaken = 0 /\ r = loc[t].ser
  <2>. DEFINE so == r # loc[t].ser
  <2>1. so \in BOOLEAN /\ Overtaking(so)
    BY <1>3
  <2>. HIDE DEF so
  <2>2. /\ overtaken' = overtaken \/ (overtaken < MaxOvertakes /\ overtaken' = overtaken + 1)
        /\ overtaken' = 0 => overtaken = 0 /\ ~so
    BY <2>1, OvertakingStep
  <2>. QED BY <2>2 DEF so
<1>7. CountersFit'
  BY <1>3, <1>6, CountersNext
<1>8. m.guard <=> loc[t].guard
  BY <1>4
<1>9. /\ rts' \in [Runtimes -> RuntimeStates] /\ Roomy(rts') /\ set' = set
      /\ handle' \in Runtimes \cup {Closed, InHand} /\ hw' \in Settings
  BY <1>2, <1>3
<1>10. Shaped' /\ Moves(t, "relane") /\ loc'[t] = m
  BY <1>0, <1>3, <1>4, <1>5, <1>7, <1>8, <1>9, StepHere, ZenonT(30)
<1>. QED BY <1>0, <1>1, <1>2, <1>3, <1>4, <1>6, <1>10 DEF v, RestartLanesEffect

RestartLanesGoneEffect(t) ==
  /\ Moves(t, "mark") /\ pc[t] = "restart" /\ loc'[t] = loc[t]
  /\ loc[t].ser \in Runtimes /\ loc[t].new = None
  /\ UNCHANGED <<set, rts, handle, hw, scan, overtaken, lost>>

LEMMA RestartLanesGoneStep ==
  ASSUME Shaped, NEW t \in Clients \cup {"scanner"}, RestartLanes(t), ~Present
  PROVE Shaped' /\ RestartLanesGoneEffect(t)
<1>0. t \in Threads /\ pc[t] = "restart"
  BY Names DEF RestartLanes
<1>1. loc[t] \in Locals /\ loc[t].ser \in Runtimes /\ loc[t].new = None
      /\ Fits(t, "restart", loc[t])
  BY <1>0, ShapeOf DEF Patched
<1>3. pc' = [pc EXCEPT ![t] = "mark"] /\ loc' = loc
      /\ UNCHANGED <<set, rts, handle, hw, scan, overtaken, lost, calls, faults, troubles>>
  BY DEF RestartLanes, Goto, radio
<1>5. Fits(t, "mark", loc[t]) /\ "mark" \in Labels
  BY <1>1, Names DEF Fits, Resting, Patched, Stopping, Labels
<1>7. CountersFit'
  BY <1>3, CountersNext
<1>9. /\ rts' \in [Runtimes -> RuntimeStates] /\ Roomy(rts') /\ set' = set
      /\ handle' \in Runtimes \cup {Closed, InHand} /\ hw' \in Settings
  BY <1>3, RadioFits
<1>10. Shaped' /\ Moves(t, "mark") /\ loc'[t] = loc[t]
  BY <1>0, <1>3, <1>5, <1>7, <1>9, StepAlong, ZenonT(30)
<1>. QED BY <1>0, <1>1, <1>3, <1>10 DEF RestartLanesGoneEffect

\* The ways a StartLanes goes: the lanes start on runtime r, or they do not.
LanesStart(t, r) ==
  /\ pc[t] = "relane" /\ handle = loc[t].rt /\ Fresh(r)
  /\ rts' = [Halted(loc[t].rt) EXCEPT ![r] = Started(FALSE, loc[t].rate)]
  /\ handle' = r
  /\ loc' = [loc EXCEPT ![t] = [loc[t] EXCEPT !.new = r]]
  /\ Goto(t, "swap")
  /\ UNCHANGED <<set, hw, faults, troubles, scan, ghosts>>

LanesFail(t) ==
  /\ pc[t] = "relane"
  /\ rts' = Halted(loc[t].rt)
  /\ handle' = IF handle = loc[t].rt THEN Closed ELSE handle
  /\ Goto(t, "mark")
  /\ UNCHANGED <<set, loc, hw, faults, scan, ghosts>>
  /\ troubles' = troubles \/ (troubles < MaxTroubles /\ troubles' = troubles + 1)

LEMMA StartLanesCases ==
  ASSUME NEW t, StartLanes(t)
  PROVE LanesFail(t) \/ \E r \in Runtimes : LanesStart(t, r)
BY DEF StartLanes, LanesFail, LanesStart, Refuses

StartLanesEffect(t, r) ==
  /\ Moves(t, "swap") /\ pc[t] = "relane"
  /\ loc[t].ser \in Runtimes /\ loc[t].rt \in Runtimes /\ r # loc[t].rt
  /\ handle = loc[t].rt /\ Fresh(r) /\ handle' = r
  /\ loc'[t].ser = loc[t].ser /\ loc'[t].rt = loc[t].rt /\ loc'[t].new = r
  /\ loc'[t].guard <=> loc[t].guard
  /\ loc'[t].reverting = loc[t].reverting
  /\ Starts(r, FALSE, loc[t].rate) /\ Halts(loc[t].rt)
  /\ \A q \in Runtimes : q \notin {r, loc[t].rt} => Stays(q)
  /\ UNCHANGED <<set, hw, scan, overtaken, lost>>

LEMMA StartLanesStep ==
  ASSUME Shaped, NEW t \in Clients \cup {"scanner"}, NEW r \in Runtimes, LanesStart(t, r)
  PROVE Shaped' /\ StartLanesEffect(t, r)
<1>. DEFINE old == loc[t].rt
            v == loc[t].rate
            m == [loc[t] EXCEPT !.new = r]
<1>0. t \in Threads /\ pc[t] = "relane" /\ handle = old /\ Fresh(r)
  BY Names DEF LanesStart
<1>1. loc[t] \in Locals /\ loc[t].ser \in Runtimes /\ loc[t].new = None /\ old \in Runtimes
      /\ Fits(t, "relane", loc[t]) /\ r # old
  BY <1>0, ShapeOf DEF Patched, Fresh, Referenced
<1>2. pc' = [pc EXCEPT ![t] = "swap"] /\ loc' = [loc EXCEPT ![t] = m] /\ handle' = r
      /\ rts' = [Halted(old) EXCEPT ![r] = Started(FALSE, v)]
      /\ UNCHANGED <<set, hw, scan, overtaken, lost, calls, faults, troubles>>
  BY DEF LanesStart, Goto, ghosts, history
<1>3. v \in Nat
  BY <1>1 DEF Locals
<1>. HIDE DEF v
<1>4. m \in Locals /\ m.ser = loc[t].ser /\ m.rt = old /\ m.new = r /\ m.guard = loc[t].guard
      /\ m.reverting = loc[t].reverting /\ m.keeper = loc[t].keeper
  BY <1>1 DEF Locals
<1>5. /\ rts' \in [Runtimes -> RuntimeStates] /\ Roomy(rts')
      /\ Starts(r, FALSE, v) /\ Halts(old)
      /\ \A q \in Runtimes : q \notin {r, old} => Stays(q)
  BY <1>1, <1>2, <1>3, RestartedStep
<1>. HIDE DEF m
<1>6. Fits(t, "swap", m) /\ "swap" \in Labels
  BY <1>1, <1>4, Names DEF Fits, Resting, Patched, Stopping, Labels
<1>7. CountersFit'
  BY <1>2, CountersNext
<1>8. m.guard <=> loc[t].guard
  BY <1>4
<1>9. set' = set /\ handle' \in Runtimes \cup {Closed, InHand} /\ hw' \in Settings
  BY <1>2, RadioFits
<1>10. Shaped' /\ Moves(t, "swap") /\ loc'[t] = m
  BY <1>0, <1>2, <1>4, <1>5, <1>6, <1>7, <1>8, <1>9, StepHere, ZenonT(30)
<1>. QED BY <1>0, <1>1, <1>2, <1>4, <1>5, <1>10 DEF v, StartLanesEffect

StartLanesFailsEffect(t) ==
  /\ Moves(t, "mark") /\ pc[t] = "relane" /\ loc'[t] = loc[t]
  /\ loc[t].ser \in Runtimes /\ loc[t].rt \in Runtimes /\ loc[t].new = None
  /\ handle' = IF handle = loc[t].rt THEN Closed ELSE handle
  /\ Halts(loc[t].rt) /\ \A q \in Runtimes : q # loc[t].rt => Stays(q)
  /\ UNCHANGED <<set, hw, scan, overtaken, lost>>

LEMMA StartLanesFailsStep ==
  ASSUME Shaped, NEW t \in Clients \cup {"scanner"}, LanesFail(t)
  PROVE Shaped' /\ StartLanesFailsEffect(t)
<1>0. t \in Threads /\ pc[t] = "relane"
  BY Names DEF LanesFail
<1>1. loc[t] \in Locals /\ loc[t].ser \in Runtimes /\ loc[t].new = None
      /\ loc[t].rt \in Runtimes /\ Fits(t, "relane", loc[t])
  BY <1>0, ShapeOf DEF Patched
<1>2. pc' = [pc EXCEPT ![t] = "mark"] /\ loc' = loc /\ rts' = Halted(loc[t].rt)
      /\ handle' = (IF handle = loc[t].rt THEN Closed ELSE handle)
      /\ UNCHANGED <<set, hw, scan, overtaken, lost, calls, faults>>
  BY DEF LanesFail, Goto, ghosts, history
<1>3. troubles' = troubles \/ (troubles < MaxTroubles /\ troubles' = troubles + 1)
  BY DEF LanesFail
<1>4. /\ rts' \in [Runtimes -> RuntimeStates] /\ Roomy(rts')
      /\ Halts(loc[t].rt) /\ \A q \in Runtimes : q # loc[t].rt => Stays(q)
  BY <1>1, <1>2, HaltedStep
<1>5. Fits(t, "mark", loc[t]) /\ "mark" \in Labels
  BY <1>1, Names DEF Fits, Resting, Patched, Stopping, Labels
<1>7. CountersFit'
  BY <1>2, <1>3, CountersNext
<1>9. set' = set /\ handle' \in Runtimes \cup {Closed, InHand} /\ hw' \in Settings
  BY <1>2, RadioFits
<1>10. Shaped' /\ Moves(t, "mark") /\ loc'[t] = loc[t]
  BY <1>0, <1>2, <1>4, <1>5, <1>7, <1>9, StepAlong, ZenonT(30)
<1>. QED BY <1>0, <1>1, <1>2, <1>4, <1>10 DEF StartLanesFailsEffect

SwapLanesEffect(t) ==
  LET s == loc[t].ser
      old == set.rt
  IN /\ Moves(t, Resumes(t)) /\ loc'[t] = NoLocals /\ pc[t] = "swap"
     /\ s \in Runtimes /\ old \in Runtimes /\ loc[t].new \in Runtimes
     /\ set'.rt = loc[t].new /\ set'.status = set.status /\ set'.holds = set.holds
     /\ set'.settings = set.settings /\ set'.lanes = set.lanes
     /\ rts'[s].patching = "free"
     /\ \A q \in Runtimes : q \notin {s, old} => Stays(q)
     /\ \A q \in Runtimes :
          /\ \/ rts'[q].patching = rts[q].patching
             \/ rts'[q].patching = "free" /\ (q = s \/ Unused(t, q))
          /\ \/ rts'[q].waiting = rts[q].waiting /\ rts'[q].sweeping = rts[q].sweeping
             \/ rts'[q].waiting = Nothing /\ ~rts'[q].sweeping /\ Unused(t, q)
     /\ UNCHANGED <<handle, hw, scan, overtaken, lost>>

LEMMA SwapLanesStep ==
  ASSUME Shaped, NEW t \in Clients \cup {"scanner"}, SwapLanes(t), Present
  PROVE Shaped' /\ SwapLanesEffect(t)
<1>. DEFINE s == loc[t].ser
            old == set.rt
            n == RatePatchesWithout(t)
            g == Replaced(t)
<1>0. t \in Threads /\ t # "hotplug" /\ pc[t] = "swap" /\ s # None
  BY Names DEF SwapLanes
<1>1. loc[t] \in Locals /\ loc[t].new # None
  BY <1>0, ShapeOf
<1>2. s \in Runtimes /\ loc[t].new \in Runtimes
  BY <1>0, <1>1 DEF Locals
<1>3. old \in Runtimes /\ set \in SetStates /\ hw \in Settings
      /\ handle \in Runtimes \cup {Closed, InHand}
  BY RadioFits
<1>4. EndPatch(t) /\ rts' = Unlocked(t, g)
      /\ set' = [set EXCEPT !.rt = loc[t].new, !.ratePatches = n]
      /\ UNCHANGED <<handle, hw, scan, overtaken, lost, calls, faults, troubles>>
  BY DEF SwapLanes, ghosts, history
<1>5. Moves(t, Resumes(t)) /\ loc'[t] = NoLocals /\ ThreadsFit'
  BY <1>0, <1>4, ShapedParts, EndPatchStep
<1>6. /\ g \in [Runtimes -> RuntimeStates] /\ Roomy(g)
      /\ \A q \in Runtimes : q # old => g[q] = rts[q]
      /\ \/ /\ Unused(t, old) /\ g[old].patching = "free"
            /\ ~g[old].sweeping /\ g[old].waiting = Nothing
         \/ /\ ~Unused(t, old) /\ g[old].patching = rts[old].patching
            /\ g[old].sweeping = rts[old].sweeping /\ g[old].waiting = rts[old].waiting
  BY <1>0, <1>3, ReplacedFits
<1>. HIDE DEF g, n
<1>7. rts' \in [Runtimes -> RuntimeStates] /\ Frees(t, g, rts')
  BY <1>0, <1>2, <1>4, <1>6, UnlockedStep
<1>8. Roomy(rts')
  BY <1>0, <1>2, <1>6, <1>7, FreesRoomy
<1>9. n \in Nat => set' \in SetStates
  BY <1>2, <1>3, <1>4 DEF SetStates
<1>10. set'.rt = loc[t].new /\ set'.status = set.status /\ set'.holds = set.holds
       /\ set'.settings = set.settings /\ set'.lanes = set.lanes /\ set'.ratePatches = n
  BY <1>3, <1>4 DEF SetStates
<1>11. Present' /\ ~loc'[t].guard
  BY <1>5, <1>10, LocNone DEF Present
<1>12. Rated' /\ n \in Nat
  BY <1>0, <1>5, <1>10, <1>11, ShapedParts, RatedDrop DEF n
<1>13. CountersFit'
  BY <1>4, CountersNext
<1>14. Shaped'
  BY <1>2, <1>3, <1>4, <1>5, <1>7, <1>8, <1>9, <1>10, <1>11, <1>12, <1>13, RadioNext
<1>15. rts'[s].patching = "free"
  BY <1>7 DEF Frees
<1>16. \A q \in Runtimes : q \notin {s, old} => Stays(q)
  BY <1>6, <1>7 DEF Frees, Stays
<1>17. \A q \in Runtimes :
         /\ \/ rts'[q].patching = rts[q].patching
            \/ rts'[q].patching = "free" /\ (q = s \/ Unused(t, q))
         /\ \/ rts'[q].waiting = rts[q].waiting /\ rts'[q].sweeping = rts[q].sweeping
            \/ rts'[q].waiting = Nothing /\ ~rts'[q].sweeping /\ Unused(t, q)
  <2>1. OnlyFor(t, s) => Unused(t, s)
    BY DEF OnlyFor, Unused
  <2>2. \A q \in Runtimes :
          \/ g[q].waiting = rts[q].waiting /\ g[q].sweeping = rts[q].sweeping
             /\ g[q].patching = rts[q].patching
          \/ g[q].waiting = Nothing /\ ~g[q].sweeping /\ Unused(t, q)
             /\ g[q].patching = "free"
    BY <1>6
  <2>3. CASE OnlyFor(t, s)
    BY <1>2, <1>7, <2>1, <2>2, <2>3 DEF Frees
  <2>4. CASE ~OnlyFor(t, s)
    BY <1>2, <1>7, <2>2, <2>4 DEF Frees
  <2>. QED BY <2>3, <2>4
<1>. QED BY <1>0, <1>2, <1>3, <1>4, <1>5, <1>10, <1>14, <1>15, <1>16, <1>17 DEF SwapLanesEffect

SwapLanesGoneEffect(t) ==
  /\ Moves(t, "mark") /\ pc[t] = "swap"
  /\ loc[t].ser \in Runtimes /\ loc[t].new \in Runtimes
  /\ loc'[t].ser = loc[t].ser /\ loc'[t].rt = loc[t].rt /\ loc'[t].new = None
  /\ loc'[t].guard <=> loc[t].guard
  /\ loc'[t].reverting = loc[t].reverting
  /\ handle' = Closed
  /\ Halts(loc[t].new) /\ \A q \in Runtimes : q # loc[t].new => Stays(q)
  /\ UNCHANGED <<set, hw, scan, overtaken, lost>>

LEMMA SwapLanesGoneStep ==
  ASSUME Shaped, NEW t \in Clients \cup {"scanner"}, SwapLanes(t), ~Present
  PROVE Shaped' /\ SwapLanesGoneEffect(t)
<1>. DEFINE m == [loc[t] EXCEPT !.new = None]
<1>0. t \in Threads /\ pc[t] = "swap" /\ loc[t].ser # None
  BY Names DEF SwapLanes
<1>1. loc[t] \in Locals /\ loc[t].new # None /\ Fits(t, "swap", loc[t])
  BY <1>0, ShapeOf
<1>2. loc[t].ser \in Runtimes /\ loc[t].new \in Runtimes
  BY <1>0, <1>1 DEF Locals
<1>3. pc' = [pc EXCEPT ![t] = "mark"] /\ loc' = [loc EXCEPT ![t] = m]
      /\ rts' = Halted(loc[t].new) /\ handle' = Closed
      /\ UNCHANGED <<set, hw, scan, overtaken, lost, calls, faults, troubles>>
  BY DEF SwapLanes, Goto, ghosts, history
<1>4. m \in Locals /\ m.ser = loc[t].ser /\ m.rt = loc[t].rt /\ m.new = None
      /\ m.guard = loc[t].guard /\ m.reverting = loc[t].reverting /\ m.keeper = loc[t].keeper
  BY <1>1 DEF Locals
<1>5. /\ rts' \in [Runtimes -> RuntimeStates] /\ Roomy(rts')
      /\ Halts(loc[t].new) /\ \A q \in Runtimes : q # loc[t].new => Stays(q)
  BY <1>2, <1>3, HaltedStep
<1>. HIDE DEF m
<1>6. Fits(t, "mark", m) /\ "mark" \in Labels
  BY <1>1, <1>2, <1>4, Names DEF Fits, Resting, Patched, Stopping, Labels
<1>7. CountersFit'
  BY <1>3, CountersNext
<1>8. m.guard <=> loc[t].guard
  BY <1>4
<1>9. set' = set /\ handle' \in Runtimes \cup {Closed, InHand} /\ hw' \in Settings
  BY <1>3, RadioFits
<1>10. Shaped' /\ Moves(t, "mark") /\ loc'[t] = m
  BY <1>0, <1>3, <1>4, <1>5, <1>6, <1>7, <1>8, <1>9, StepHere, ZenonT(30)
<1>. QED BY <1>0, <1>2, <1>3, <1>4, <1>5, <1>10 DEF SwapLanesGoneEffect

----------------------------------------------------------------------------
(* The steps of a fault.                                                   *)

LEMMA CountersStep ==
  ASSUME Shaped, scan' \in [hardware: BOOLEAN, inSweep: BOOLEAN, ending: BOOLEAN],
         lost' \in BOOLEAN, faults' \in Nat, faults' <= troubles',
         troubles' = troubles \/ (troubles < MaxTroubles /\ troubles' = troubles + 1),
         overtaken' = overtaken \/ (overtaken < MaxOvertakes /\ overtaken' = overtaken + 1),
         calls' = calls \/ (calls < MaxCalls /\ calls' = calls + 1)
  PROVE CountersFit'
BY ShapedParts, RadioAssumption DEF CountersFit

LEMMA UnheldFits ==
  /\ Unheld \in [Keepers -> [rate: Nat, stream: Nat]]
  /\ NoHold \in [rate: Nat, stream: Nat]
  /\ \A k \in Keepers : Unheld[k] = NoHold
BY DEF Unheld, NoHold

FailEffect(t) ==
  /\ Moves(t, pc'[t]) /\ pc'[t] \in Stopping /\ Present
  /\ set.rt \in Runtimes
  /\ loc'[t].ser = loc[t].ser /\ loc'[t].rt = set.rt /\ loc'[t].new = None
  /\ loc'[t].guard <=> loc[t].guard
  /\ loc'[t].reverting = loc[t].reverting
  /\ set'.status = "Error" /\ set'.rt = set.rt /\ set'.holds = Unheld
  /\ set'.settings = set.settings /\ set'.lanes = set.lanes
  /\ UNCHANGED <<rts, handle, hw, scan, overtaken, lost>>

\* A Fail of the drainer or of a patch.
LEMMA FailStep ==
  ASSUME Shaped, NEW t \in Threads \ {"hotplug"}, Fail(t),
         pc[t] = "mark" \/ (t = "drainer" /\ pc[t] = "idle"),
         UNCHANGED <<handle, hw, troubles, scan, calls, overtaken, lost>>,
         faults' \in Nat, faults' <= troubles
  PROVE Shaped' /\ FailEffect(t)
<1>. DEFINE b == set.scanner
            p == IF b THEN "joining" ELSE "halt"
            m == [loc[t] EXCEPT !.rt = set.rt, !.joins = b]
<1>0. t \in Threads /\ t # "hotplug" /\ Present
  BY DEF Fail
<1>1. loc[t] \in Locals /\ loc[t].new = None /\ Fits(t, pc[t], loc[t])
      /\ (pc[t] = "mark" => loc[t].ser \in Runtimes)
  BY <1>0, ShapeOf DEF Patched
<1>2. set.rt \in Runtimes /\ set \in SetStates /\ hw \in Settings
      /\ handle \in Runtimes \cup {Closed, InHand} /\ rts \in [Runtimes -> RuntimeStates]
      /\ Roomy(rts)
  BY <1>0, RadioFits
<1>3. b \in BOOLEAN /\ p \in {"joining", "halt"} /\ p \in Labels
  BY <1>2 DEF SetStates, Labels
<1>4. pc' = [pc EXCEPT ![t] = p] /\ loc' = [loc EXCEPT ![t] = m] /\ rts' = rts
      /\ set' = [set EXCEPT !.status = "Error", !.holds = Unheld, !.scanner = FALSE]
  BY DEF Fail, Goto
<1>. HIDE DEF b, p
<1>5. m \in Locals /\ m.ser = loc[t].ser /\ m.rt = set.rt /\ m.new = None
      /\ m.guard = loc[t].guard /\ m.reverting = loc[t].reverting /\ m.keeper = loc[t].keeper
  BY <1>1, <1>2, <1>3 DEF Locals
<1>. HIDE DEF m
<1>6. (t = "drainer" => loc[t].ser = None) /\ (t = "scanner" => loc[t].ser \in Runtimes)
      /\ (loc[t].guard => loc[t].ser # None)
  BY <1>1, Names DEF Fits
<1>7. Fits(t, p, m)
  BY <1>0, <1>1, <1>2, <1>3, <1>5, <1>6, Names DEF Fits, Resting, Patched, Stopping
<1>8. set' \in SetStates /\ set'.status = "Error" /\ set'.rt = set.rt /\ set'.holds = Unheld
      /\ set'.settings = set.settings /\ set'.lanes = set.lanes
      /\ set'.ratePatches = set.ratePatches
  BY <1>2, <1>4, UnheldFits DEF SetStates
<1>9. CountersFit'
  BY CountersStep, ShapedParts
<1>10. /\ Present' => set'.rt \in Runtimes
       /\ ~Present' => set' = Gone
       /\ Present' => Present /\ set'.ratePatches = set.ratePatches
       /\ rts' \in [Runtimes -> RuntimeStates] /\ Roomy(rts')
       /\ handle' \in Runtimes \cup {Closed, InHand} /\ hw' \in Settings
  BY <1>0, <1>2, <1>4, <1>8 DEF Present
<1>11. m.guard <=> loc[t].guard
  BY <1>5
<1>12. Shaped' /\ Moves(t, p) /\ loc'[t] = m
  BY <1>0, <1>3, <1>4, <1>5, <1>7, <1>8, <1>9, <1>10, <1>11, StepNext, ZenonT(30)
<1>13. pc'[t] = p /\ p \in Stopping
  BY <1>3, <1>12 DEF Moves, Stopping
<1>. QED BY <1>0, <1>2, <1>4, <1>5, <1>8, <1>12, <1>13 DEF FailEffect

LEMMA MarkLanesStep ==
  ASSUME Shaped, NEW t \in Clients \cup {"scanner"}, MarkLanes(t), ~Present
  PROVE Shaped' /\ PatchFails(t) /\ pc[t] = "mark"
<1>1. pc[t] = "mark" /\ FinishPatch(t)
      /\ UNCHANGED <<handle, hw, faults, troubles, scan, calls, overtaken, lost>>
  BY DEF MarkLanes, Fail, radio, ghosts, history
<1>. QED BY <1>1, FinishStep DEF Patched

\* The place and the locals of the thread that waited for the scanner's.
JoinedAt(t) == IF loc[t].rt = None THEN "idle" ELSE "halt"
JoinedWith(t) == IF loc[t].rt = None THEN NoLocals ELSE [loc[t] EXCEPT !.joins = FALSE]

JoinedEffect(t) ==
  /\ pc[t] = "joining" /\ pc["scanner"] = "ended" /\ t # "scanner"
  /\ pc'[t] = (IF loc[t].rt = None THEN "idle" ELSE "halt") /\ pc'["scanner"] = "off"
  /\ \A o \in Threads : o \notin {t, "scanner"} => pc'[o] = pc[o]
  /\ \A o \in Threads : /\ loc'[o].ser = loc[o].ser /\ loc'[o].rt = loc[o].rt
                        /\ loc'[o].new = loc[o].new
                        /\ loc'[o].guard <=> loc[o].guard
                        /\ o # t => loc'[o] = loc[o]
  /\ loc[t].ser # None => loc[t].rt # None
  /\ loc'[t].reverting = loc[t].reverting \/ ~loc'[t].reverting
  /\ scan' = Idle
  /\ UNCHANGED <<set, rts, handle, hw, overtaken, lost>>

LEMMA JoinedStep ==
  ASSUME Shaped, NEW t \in Threads \ {"hotplug"}, Joined(t)
  PROVE Shaped' /\ JoinedEffect(t)
<1>. DEFINE p == JoinedAt(t)
            m == JoinedWith(t)
            e == [loc[t] EXCEPT !.joins = FALSE]
<1>0. t \in Threads /\ pc[t] = "joining" /\ pc["scanner"] = "ended" /\ t # "scanner"
      /\ "scanner" \in Threads
  BY Names DEF Joined
<1>1. loc[t] \in Locals /\ loc[t].new = None /\ Fits(t, "joining", loc[t])
      /\ loc["scanner"] = NoLocals
  BY <1>0, ShapeOf DEF Resting
<1>2. (loc[t].ser # None => loc[t].rt \in Runtimes) /\ (loc[t].guard => loc[t].ser # None)
      /\ loc[t].guard \in BOOLEAN /\ (loc[t].rt # None => loc[t].rt \in Runtimes)
  BY <1>1 DEF Fits, Locals
<1>3. e \in Locals /\ e.ser = loc[t].ser /\ e.rt = loc[t].rt /\ e.new = None
      /\ e.guard = loc[t].guard /\ e.reverting = loc[t].reverting /\ e.keeper = loc[t].keeper
  BY <1>1 DEF Locals
<1>4. pc' = [pc EXCEPT ![t] = p, !["scanner"] = "off"] /\ loc' = [loc EXCEPT ![t] = m]
      /\ scan' = Idle
      /\ UNCHANGED <<set, rts, handle, hw, overtaken, lost, calls, faults, troubles>>
  BY DEF Joined, JoinedAt, JoinedWith, radio, ghosts, history
<1>5. m = IF loc[t].rt = None THEN NoLocals ELSE e
  BY DEF JoinedWith
<1>. HIDE DEF m, e
<1>6. m \in Locals /\ m.ser = loc[t].ser /\ m.rt = loc[t].rt /\ m.new = None
      /\ (m.guard <=> loc[t].guard) /\ (m.reverting = loc[t].reverting \/ ~m.reverting)
  BY <1>2, <1>3, <1>5, LocNone, Names
<1>7. Fits(t, p, m)
  <2>1. CASE loc[t].rt = None
    BY <1>0, <1>1, <1>5, <2>1, LocNone, Names DEF Fits, JoinedAt, Resting, Patched, Stopping
  <2>2. CASE loc[t].rt # None
    <3>1. p = "halt" /\ m = e
      BY <1>5, <2>2 DEF JoinedAt
    <3>. QED BY <1>0, <1>1, <1>2, <1>3, <2>2, <3>1, Names
           DEF Fits, Resting, Patched, Stopping
  <2>. QED BY <2>1, <2>2
<1>8. Fits("scanner", "off", NoLocals)
  BY LocNone, Names DEF Fits, Resting, Patched, Stopping
<1>9. pc \in [Threads -> Labels] /\ loc \in [Threads -> Locals]
      /\ \A o \in Threads : Fits(o, pc[o], loc[o])
  BY ShapedParts DEF ThreadsFit
<1>10. p \in Labels /\ "off" \in Labels
  BY DEF JoinedAt, Labels
<1>. HIDE DEF p
<1>11. pc' \in [Threads -> Labels] /\ pc'[t] = p /\ pc'["scanner"] = "off"
       /\ \A o \in Threads : o \notin {t, "scanner"} => pc'[o] = pc[o]
  BY <1>0, <1>4, <1>9, <1>10
<1>12. loc' \in [Threads -> Locals] /\ loc'[t] = m
       /\ \A o \in Threads : o # t => loc'[o] = loc[o]
  BY <1>0, <1>4, <1>6, <1>9
<1>13. ThreadsFit'
  BY <1>0, <1>1, <1>7, <1>8, <1>9, <1>11, <1>12 DEF ThreadsFit
<1>14. Guards' = Guards
  BY <1>0, <1>6, <1>12 DEF Guards
<1>15. Rated'
  BY <1>4, <1>14, ShapedParts DEF Rated, Present
<1>16. CountersFit'
  <2>1. Idle \in [hardware: BOOLEAN, inSweep: BOOLEAN, ending: BOOLEAN]
    BY DEF Idle
  <2>. QED BY <1>4, <2>1, CountersStep, ShapedParts
<1>17. /\ handle' \in Runtimes \cup {Closed, InHand} /\ hw' \in Settings
       /\ set' \in SetStates /\ rts' \in [Runtimes -> RuntimeStates] /\ Roomy(rts')
       /\ IF Present' THEN set'.rt \in Runtimes ELSE set' = Gone
  BY <1>4, ShapedParts DEF Present
<1>18. Shaped'
  BY <1>13, <1>15, <1>16, <1>17, RadioNext
<1>19. \A o \in Threads : /\ loc'[o].ser = loc[o].ser /\ loc'[o].rt = loc[o].rt
                          /\ loc'[o].new = loc[o].new
                          /\ loc'[o].guard <=> loc[o].guard
                          /\ o # t => loc'[o] = loc[o]
  BY <1>1, <1>6, <1>12
<1>20. loc'[t].reverting = loc[t].reverting \/ ~loc'[t].reverting
  BY <1>6, <1>12
<1>21. pc'[t] = (IF loc[t].rt = None THEN "idle" ELSE "halt")
  BY <1>11 DEF p, JoinedAt
<1>. QED BY <1>0, <1>2, <1>4, <1>11, <1>18, <1>19, <1>20, <1>21, Names DEF JoinedEffect

HaltPatchEffect(t) ==
  LET s == loc[t].ser
  IN /\ Moves(t, Resumes(t)) /\ loc'[t] = NoLocals /\ pc[t] = "halt"
     /\ s \in Runtimes /\ loc[t].rt \in Runtimes
     /\ handle' = Released(loc[t].rt)
     /\ rts'[s].patching = "free"
     /\ \A q \in Runtimes : q # s => rts'[q].patching = rts[q].patching
     /\ \A q \in Runtimes :
          \/ q = s /\ OnlyFor(t, q) /\ ~rts'[q].sweeping /\ rts'[q].waiting = Nothing
          \/ /\ rts'[q].sweeping = rts[q].sweeping /\ rts'[q].waiting = rts[q].waiting
             /\ q # loc[t].rt => rts'[q].meta = rts[q].meta
     /\ set'.status = set.status /\ set'.rt = set.rt /\ set'.holds = set.holds
     /\ set'.settings = set.settings /\ set'.lanes = set.lanes
     /\ UNCHANGED <<hw, scan, overtaken, lost>>

\* Halt of a patch: the lock goes too.
LEMMA HaltPatchStep ==
  ASSUME Shaped, NEW t \in Threads \ {"hotplug"}, Halt(t), loc[t].ser # None
  PROVE Shaped' /\ HaltPatchEffect(t)
<1>. DEFINE s == loc[t].ser
            r == loc[t].rt
            n == RatePatchesWithout(t)
            h == Halted(r)
<1>0. t \in Threads /\ t # "hotplug" /\ pc[t] = "halt"
  BY DEF Halt
<1>1. loc[t] \in Locals /\ r \in Runtimes
  BY <1>0, ShapeOf
<1>2. s \in Runtimes
  BY <1>1 DEF Locals
<1>3. set \in SetStates /\ hw \in Settings /\ handle \in Runtimes \cup {Closed, InHand}
      /\ (Present => set.rt \in Runtimes) /\ (~Present => set = Gone)
  BY RadioFits
<1>4. EndPatch(t) /\ rts' = Unlocked(t, h) /\ set' = [set EXCEPT !.ratePatches = n]
      /\ handle' = Released(r)
      /\ UNCHANGED <<hw, scan, overtaken, lost, calls, faults, troubles>>
  BY DEF Halt, ghosts, history
<1>5. Moves(t, Resumes(t)) /\ loc'[t] = NoLocals /\ ThreadsFit'
  BY <1>0, <1>4, ShapedParts, EndPatchStep
<1>6. /\ h \in [Runtimes -> RuntimeStates] /\ Roomy(h)
      /\ \A q \in Runtimes : q # r => h[q] = rts[q]
      /\ h[r].sweeping = rts[r].sweeping
      /\ h[r].waiting = rts[r].waiting /\ h[r].patching = rts[r].patching
  BY <1>1, HaltedFits
<1>. HIDE DEF h, n
<1>7. rts' \in [Runtimes -> RuntimeStates] /\ Frees(t, h, rts')
  BY <1>0, <1>2, <1>4, <1>6, UnlockedStep
<1>8. Roomy(rts')
  BY <1>0, <1>2, <1>6, <1>7, FreesRoomy
<1>10. /\ set'.status = set.status /\ set'.rt = set.rt /\ set'.holds = set.holds
       /\ set'.settings = set.settings /\ set'.lanes = set.lanes
       /\ set'.ratePatches = n /\ (n \in Nat => set' \in SetStates)
       /\ (~Present => set' = set)
  BY <1>4, FinishSet DEF n, RatePatchesWithout
<1>11. (Present' <=> Present) /\ ~loc'[t].guard
  BY <1>5, <1>10, LocNone DEF Present
<1>12. Rated' /\ n \in Nat
  BY <1>0, <1>5, <1>10, <1>11, ShapedParts, RatedDrop DEF n
<1>13. CountersFit'
  BY <1>4, CountersNext
<1>14. IF Present' THEN set'.rt \in Runtimes ELSE set' = Gone
  BY <1>3, <1>10, <1>11
<1>15. handle' \in Runtimes \cup {Closed, InHand}
  BY <1>3, <1>4 DEF Released
<1>16. Shaped'
  BY <1>3, <1>4, <1>5, <1>7, <1>8, <1>10, <1>12, <1>13, <1>14, <1>15, RadioNext
<1>17. rts'[s].patching = "free" /\ \A q \in Runtimes : q # s => rts'[q].patching = rts[q].patching
  BY <1>6, <1>7 DEF Frees
<1>18. \A q \in Runtimes :
         \/ q = s /\ OnlyFor(t, q) /\ ~rts'[q].sweeping /\ rts'[q].waiting = Nothing
         \/ /\ rts'[q].sweeping = rts[q].sweeping /\ rts'[q].waiting = rts[q].waiting
            /\ q # r => rts'[q].meta = rts[q].meta
  BY <1>2, <1>6, <1>7 DEF Frees
<1>. QED BY <1>0, <1>1, <1>2, <1>4, <1>5, <1>10, <1>16, <1>17, <1>18 DEF HaltPatchEffect

HaltEffect(t) ==
  /\ Moves(t, Resumes(t)) /\ loc'[t] = NoLocals /\ pc[t] = "halt"
  /\ t # "scanner" /\ loc[t].rt \in Runtimes /\ ~loc[t].guard
  /\ handle' = Released(loc[t].rt)
  /\ Halts(loc[t].rt) /\ \A q \in Runtimes : q # loc[t].rt => Stays(q)
  /\ UNCHANGED <<set, hw, scan, overtaken, lost>>

LEMMA HaltStep ==
  ASSUME Shaped, NEW t \in Threads \ {"hotplug"}, Halt(t), loc[t].ser = None
  PROVE Shaped' /\ HaltEffect(t)
<1>. DEFINE r == loc[t].rt
<1>0. t \in Threads /\ t # "hotplug" /\ pc[t] = "halt"
  BY DEF Halt
<1>1. loc[t] \in Locals /\ r \in Runtimes /\ Fits(t, "halt", loc[t])
  BY <1>0, ShapeOf
<1>2. t # "scanner" /\ ~loc[t].guard
  BY <1>1 DEF Fits, Stopping
<1>3. EndPatch(t) /\ rts' = Halted(r) /\ handle' = Released(r)
      /\ UNCHANGED <<set, hw, scan, overtaken, lost, calls, faults, troubles>>
  BY DEF Halt, ghosts, history
<1>5. Moves(t, Resumes(t)) /\ loc'[t] = NoLocals /\ ThreadsFit'
  BY <1>0, <1>3, ShapedParts, EndPatchStep
<1>6. /\ rts' \in [Runtimes -> RuntimeStates] /\ Roomy(rts')
      /\ Halts(r) /\ \A q \in Runtimes : q # r => Stays(q)
  BY <1>1, <1>3, HaltedStep
<1>7. CountersFit'
  BY <1>3, CountersNext
<1>8. set' \in SetStates /\ hw' \in Settings /\ handle' \in Runtimes \cup {Closed, InHand}
  BY <1>3, RadioFits DEF Released
<1>9. IF Present' THEN set'.rt \in Runtimes ELSE set' = Gone
  BY <1>3, RadioFits DEF Present
<1>10. loc'[t].guard <=> loc[t].guard
  BY <1>2, <1>5, LocNone
<1>11. Rated'
  BY <1>0, <1>3, <1>5, <1>10, ShapedParts, RatedSame DEF Present
<1>12. Shaped'
  BY <1>5, <1>6, <1>7, <1>8, <1>9, <1>11, RadioNext
<1>. QED BY <1>0, <1>1, <1>2, <1>3, <1>5, <1>6, <1>12 DEF HaltEffect

\* The threads stay where they are.
LEMMA StillNext ==
  ASSUME Shaped, UNCHANGED <<pc, loc, set, handle, hw>>, rts' \in [Runtimes -> RuntimeStates],
         Roomy(rts'), CountersFit'
  PROVE Shaped'
<1>1. ThreadsFit' /\ Rated' /\ set' \in SetStates /\ hw' \in Settings
      /\ handle' \in Runtimes \cup {Closed, InHand}
  BY ShapedParts DEF ThreadsFit, Rated, Guards, Present
<1>2. IF Present' THEN set'.rt \in Runtimes ELSE set' = Gone
  BY RadioFits DEF Present
<1>. QED BY <1>1, <1>2, RadioNext

LEMMA DieStep ==
  ASSUME Shaped, NEW r \in Runtimes, Die(r)
  PROVE /\ Shaped' /\ \A q \in Runtimes : Stays(q)
        /\ UNCHANGED <<set, handle, hw, pc, loc, scan, overtaken, lost>>
<1>. DEFINE x == [rts[r] EXCEPT !.live = FALSE]
<1>0. rts[r] \in RuntimeStates /\ Roomy(rts)
  BY RadioFits
<1>1. x \in RuntimeStates /\ x.sweeping = rts[r].sweeping /\ x.meta = rts[r].meta
      /\ x.waiting = rts[r].waiting /\ x.patching = rts[r].patching /\ x.batch = rts[r].batch
  BY <1>0, RtLive
<1>2. rts' = [rts EXCEPT ![r] = x]
      /\ troubles < MaxTroubles /\ faults' = faults + 1 /\ troubles' = troubles + 1
      /\ UNCHANGED <<set, handle, hw, pc, loc, scan, overtaken, lost, calls>>
  BY DEF Die, ghosts, history
<1>. HIDE DEF x
<1>3. rts' \in [Runtimes -> RuntimeStates] /\ rts'[r] = x
      /\ (\A q \in Runtimes : q # r => rts'[q] = rts[q]) /\ Roomy(rts')
  BY <1>0, <1>1, <1>2, StepRts DEF Roomy
<1>4. CountersFit'
  <2>1. faults \in Nat /\ troubles \in Nat /\ faults <= troubles
    BY ShapedParts, RadioAssumption
  <2>2. faults' \in Nat /\ faults' <= troubles'
    BY <1>2, <2>1
  <2>. QED BY <1>2, <2>2, CountersStep, ShapedParts
<1>. QED BY <1>1, <1>2, <1>3, <1>4, StillNext DEF Stays

LEMMA DrainNothingStep ==
  ASSUME Shaped, Drain, ~Present
  PROVE /\ Shaped' /\ UNCHANGED <<set, rts, handle, hw, pc, loc, scan, overtaken, lost>>
<1>1. faults > 0 /\ faults' = faults - 1
      /\ UNCHANGED <<set, rts, handle, hw, pc, loc, scan, overtaken, lost, calls, troubles>>
  BY DEF Drain, Fail, ghosts, history
<1>2. CountersFit'
  <2>1. faults \in Nat /\ troubles \in Nat /\ faults <= troubles
    BY ShapedParts, RadioAssumption
  <2>2. faults' \in Nat /\ faults' <= troubles'
    BY <1>1, <2>1
  <2>. QED BY <1>1, <2>2, CountersStep, ShapedParts
<1>. QED BY <1>1, <1>2, StillNext, RadioFits

LEMMA DrainStep ==
  ASSUME Shaped, Drain, Present
  PROVE /\ Fail("drainer") /\ pc["drainer"] = "idle" /\ loc["drainer"] = NoLocals
        /\ "drainer" \in Threads \ {"hotplug"}
        /\ UNCHANGED <<handle, hw, troubles, scan, calls, overtaken, lost>>
        /\ faults' \in Nat /\ faults' <= troubles
<1>1. Fail("drainer") /\ pc["drainer"] = "idle" /\ faults > 0 /\ faults' = faults - 1
      /\ UNCHANGED <<handle, hw, scan, overtaken, lost, calls, troubles>>
  BY DEF Drain, Fail, ghosts, history
<1>2. faults \in Nat /\ troubles \in Nat /\ faults <= troubles
  BY ShapedParts, RadioAssumption
<1>3. faults' \in Nat /\ faults' <= troubles
  BY <1>1, <1>2
<1>4. "drainer" \in Threads \ {"hotplug"}
  BY Names
<1>5. loc["drainer"] = NoLocals
  BY <1>1, <1>4, ShapeOf DEF Resting
<1>. QED BY <1>1, <1>3, <1>4, <1>5

LEMMA MarkLanesFailStep ==
  ASSUME Shaped, NEW t \in Threads \ {"hotplug"}, MarkLanes(t), Present
  PROVE /\ Fail(t) /\ pc[t] = "mark"
        /\ UNCHANGED <<handle, hw, troubles, scan, calls, overtaken, lost>>
        /\ faults' \in Nat /\ faults' <= troubles
<1>1. Fail(t) /\ pc[t] = "mark"
      /\ UNCHANGED <<handle, hw, scan, overtaken, lost, calls, troubles, faults>>
  BY DEF MarkLanes, Fail, radio, ghosts, history
<1>2. faults \in Nat /\ troubles \in Nat /\ faults <= troubles
  BY ShapedParts, RadioAssumption
<1>. QED BY <1>1, <1>2

----------------------------------------------------------------------------
(* The steps of the prober.                                                *)

\* The radio is reopened on runtime r.
Reopens(r) ==
  /\ pc["hotplug"] = "idle" /\ set.status = "Error" /\ handle = Closed /\ Fresh(r)
  /\ hw' = Merge(hw, set.settings)
  /\ rts' = [rts EXCEPT ![r] = Started(FALSE, hw'["rate"])]
  /\ handle' = r
  /\ loc' = [loc EXCEPT !["hotplug"] = [loc["hotplug"] EXCEPT !.new = r, !.actual = hw']]
  /\ Goto("hotplug", "revive")
  /\ UNCHANGED <<set, faults, troubles, scan, ghosts>>

ReconnectEffect(r) ==
  /\ Moves("hotplug", "revive") /\ pc["hotplug"] = "idle"
  /\ loc["hotplug"] = NoLocals
  /\ set.status = "Error" /\ handle = Closed /\ Fresh(r) /\ handle' = r
  /\ hw' = set.settings
  /\ loc'["hotplug"].ser = None /\ loc'["hotplug"].rt = None
  /\ loc'["hotplug"].new = r /\ loc'["hotplug"].actual = hw'
  /\ ~loc'["hotplug"].guard /\ ~loc'["hotplug"].reverting
  /\ Starts(r, FALSE, hw'["rate"]) /\ \A q \in Runtimes : q # r => Stays(q)
  /\ UNCHANGED <<set, scan, overtaken, lost>>

LEMMA ReconnectStep ==
  ASSUME Shaped, NEW r \in Runtimes, Reopens(r)
  PROVE Shaped' /\ ReconnectEffect(r)
<1>. DEFINE t == "hotplug"
            a == hw'
            v == hw'["rate"]
            m == [loc[t] EXCEPT !.new = r, !.actual = a]
<1>0. t \in Threads /\ pc[t] = "idle" /\ handle = Closed /\ Fresh(r) /\ set.status = "Error"
  BY Names DEF Reopens
<1>1. loc[t] \in Locals /\ loc[t] = NoLocals
  BY <1>0, ShapeOf DEF Resting
<1>2. a = set.settings /\ a \in Settings /\ v \in Nat
  BY RadioFits, MergeAll DEF Reopens, Settings, Fields
<1>3. pc' = [pc EXCEPT ![t] = "revive"] /\ loc' = [loc EXCEPT ![t] = m] /\ handle' = r
      /\ rts' = [rts EXCEPT ![r] = Started(FALSE, v)]
      /\ UNCHANGED <<set, scan, overtaken, lost, calls, faults, troubles>>
  BY DEF Reopens, Goto, ghosts, history
<1>. HIDE DEF a, v
<1>4. m \in Locals /\ m.ser = loc[t].ser /\ m.rt = loc[t].rt /\ m.new = r /\ m.actual = a
      /\ m.guard = loc[t].guard /\ m.reverting = loc[t].reverting
  BY <1>1, <1>2, SettingsAreDeltas DEF Locals
<1>. HIDE DEF m
<1>5. /\ rts' \in [Runtimes -> RuntimeStates] /\ Roomy(rts')
      /\ Starts(r, FALSE, v) /\ \A q \in Runtimes : q # r => Stays(q)
  BY <1>2, <1>3, StartedStep
<1>6. Fits(t, "revive", m) /\ "revive" \in Labels
  BY <1>1, <1>2, <1>4, LocNone, Names DEF Fits, Resting, Patched, Stopping, Labels
<1>7. CountersFit'
  BY <1>3, CountersNext
<1>8. m.guard <=> loc[t].guard
  BY <1>4
<1>9. set' = set /\ handle' \in Runtimes \cup {Closed, InHand} /\ hw' \in Settings
  BY <1>2, <1>3 DEF a
<1>10. Shaped' /\ Moves(t, "revive") /\ loc'[t] = m
  BY <1>0, <1>3, <1>4, <1>5, <1>6, <1>7, <1>8, <1>9, StepHere, ZenonT(30)
<1>. QED BY <1>0, <1>1, <1>2, <1>3, <1>4, <1>5, <1>10, LocNone DEF a, v, ReconnectEffect

ReviveEffect ==
  LET new == loc["hotplug"].new
  IN /\ Moves("hotplug", "idle") /\ loc'["hotplug"] = NoLocals
     /\ pc["hotplug"] = "revive" /\ Present /\ set.rt \in Runtimes /\ new \in Runtimes
     /\ set'.status = "Running" /\ set'.rt = new /\ set'.holds = set.holds
     /\ set'.settings = loc["hotplug"].actual /\ set'.lanes = hw["lanes"]
     /\ \A q \in Runtimes : q # set.rt => Stays(q)
     /\ \/ Unused("hotplug", set.rt) /\ Forgets(set.rt)
        \/ ~Unused("hotplug", set.rt) /\ Halts(set.rt)
     /\ overtaken' = 0 => rts[set.rt].patching = "free" /\ overtaken = 0
     /\ UNCHANGED <<handle, hw, scan, lost>>

LEMMA ReviveStep ==
  ASSUME Shaped, Revive, set.status = "Error"
  PROVE Shaped' /\ ReviveEffect
<1>. DEFINE t == "hotplug"
            new == loc[t].new
            a == loc[t].actual
            l == hw["lanes"]
<1>0. t \in Threads /\ pc[t] = "revive" /\ Present
  BY Names DEF Revive, Present
<1>1. loc[t] \in Locals /\ loc[t].new # None /\ ~loc[t].guard
      /\ Fits(t, "revive", loc[t])
  BY <1>0, ShapeOf
<1>8. a \in Settings
  BY <1>1 DEF Fits
<1>2. new \in Runtimes /\ set.rt \in Runtimes /\ set \in SetStates /\ l \in Nat
      /\ hw \in Settings /\ handle \in Runtimes \cup {Closed, InHand}
  BY <1>0, <1>1, RadioFits DEF Locals, Settings, Fields
<1>3. pc' = [pc EXCEPT ![t] = "idle"] /\ loc' = [loc EXCEPT ![t] = NoLocals]
      /\ rts' = Replaced(t) /\ Overtaking(rts[set.rt].patching # "free")
      /\ UNCHANGED <<handle, hw, scan, lost, calls, faults, troubles>>
  BY DEF Revive, Goto
<1>4. set' = [set EXCEPT !.status = "Running", !.rt = new, !.settings = a, !.lanes = l]
  BY DEF Revive
<1>5. /\ rts' \in [Runtimes -> RuntimeStates] /\ Roomy(rts')
      /\ \A q \in Runtimes : q # set.rt => Stays(q)
      /\ (Unused(t, set.rt) /\ Forgets(set.rt)) \/ (~Unused(t, set.rt) /\ Halts(set.rt))
  BY <1>0, <1>2, <1>3, ReplacedStep
<1>6. /\ overtaken' = overtaken \/ (overtaken < MaxOvertakes /\ overtaken' = overtaken + 1)
      /\ overtaken' = 0 => overtaken = 0 /\ rts[set.rt].patching = "free"
  <2>. DEFINE so == rts[set.rt].patching # "free"
  <2>1. so \in BOOLEAN /\ Overtaking(so)
    BY <1>3
  <2>. HIDE DEF so
  <2>2. /\ overtaken' = overtaken \/ (overtaken < MaxOvertakes /\ overtaken' = overtaken + 1)
        /\ overtaken' = 0 => overtaken = 0 /\ ~so
    BY <2>1, OvertakingStep
  <2>. QED BY <2>2 DEF so
<1>7. CountersFit'
  BY <1>3, <1>6, CountersNext
<1>. HIDE DEF a, l
<1>9. set' \in SetStates /\ set'.status = "Running" /\ set'.rt = new /\ set'.holds = set.holds
      /\ set'.settings = a /\ set'.lanes = l /\ set'.ratePatches = set.ratePatches
  BY <1>2, <1>4, <1>8 DEF SetStates
<1>10. /\ Present' => set'.rt \in Runtimes
       /\ ~Present' => set' = Gone
       /\ Present' => Present /\ set'.ratePatches = set.ratePatches
       /\ handle' \in Runtimes \cup {Closed, InHand} /\ hw' \in Settings
  BY <1>0, <1>2, <1>3, <1>9 DEF Present
<1>11. Fits(t, "idle", NoLocals) /\ "idle" \in Labels /\ NoLocals \in Locals
       /\ (NoLocals.guard <=> loc[t].guard)
  BY <1>1, LocNone, Names DEF Fits, Resting, Patched, Stopping, Labels
<1>12. Shaped' /\ Moves(t, "idle") /\ loc'[t] = NoLocals
  BY <1>0, <1>3, <1>5, <1>7, <1>9, <1>10, <1>11, StepNext, ZenonT(30)
<1>. QED BY <1>0, <1>2, <1>3, <1>5, <1>6, <1>9, <1>12 DEF a, l, ReviveEffect

ReviveGoneEffect ==
  LET new == loc["hotplug"].new
  IN /\ Moves("hotplug", "idle") /\ loc'["hotplug"] = NoLocals
     /\ pc["hotplug"] = "revive" /\ new \in Runtimes /\ handle' = Closed
     /\ Halts(new) /\ \A q \in Runtimes : q # new => Stays(q)
     /\ UNCHANGED <<set, hw, scan, overtaken, lost>>

LEMMA ReviveGoneStep ==
  ASSUME Shaped, Revive, set.status # "Error"
  PROVE Shaped' /\ ReviveGoneEffect
<1>. DEFINE t == "hotplug"
            new == loc[t].new
<1>0. t \in Threads /\ pc[t] = "revive"
  BY Names DEF Revive
<1>1. loc[t] \in Locals /\ loc[t].new # None /\ ~loc[t].guard
  BY <1>0, ShapeOf
<1>2. new \in Runtimes
  BY <1>1 DEF Locals
<1>3. pc' = [pc EXCEPT ![t] = "idle"] /\ loc' = [loc EXCEPT ![t] = NoLocals]
      /\ rts' = Halted(new) /\ handle' = Closed
      /\ UNCHANGED <<set, hw, scan, overtaken, lost, calls, faults, troubles>>
  BY DEF Revive, Goto
<1>5. /\ rts' \in [Runtimes -> RuntimeStates] /\ Roomy(rts')
      /\ Halts(new) /\ \A q \in Runtimes : q # new => Stays(q)
  BY <1>2, <1>3, HaltedStep
<1>7. CountersFit'
  BY <1>3, CountersNext
<1>10. set' = set /\ handle' \in Runtimes \cup {Closed, InHand} /\ hw' \in Settings
  BY <1>3, RadioFits
<1>11. Fits(t, "idle", NoLocals) /\ "idle" \in Labels /\ NoLocals \in Locals
       /\ (NoLocals.guard <=> loc[t].guard)
  BY <1>1, LocNone, Names DEF Fits, Resting, Patched, Stopping, Labels
<1>12. Shaped' /\ Moves(t, "idle") /\ loc'[t] = NoLocals
  BY <1>0, <1>3, <1>5, <1>7, <1>10, <1>11, StepHere, ZenonT(30)
<1>. QED BY <1>0, <1>2, <1>3, <1>5, <1>12 DEF ReviveGoneEffect

----------------------------------------------------------------------------
(* The steps of the callers.                                               *)

LEMMA CallStep ==
  ASSUME Shaped, NEW c \in Clients, Called(c)
  PROVE /\ c \in Threads /\ c \notin {"scanner", "drainer", "hotplug"} /\ pc[c] = "idle"
        /\ loc[c] = NoLocals /\ NoLocals \in Locals
        /\ calls < MaxCalls /\ calls' = calls + 1
<1>1. c \in Threads /\ c \notin {"scanner", "drainer", "hotplug"} /\ pc[c] = "idle"
  BY Names DEF Called
<1>2. loc[c] = NoLocals
  BY <1>1, ShapeOf DEF Resting
<1>. QED BY <1>1, <1>2, LocNone DEF Called

RemoveEffect(c) ==
  /\ Moves(c, pc'[c]) /\ pc'[c] \in Stopping /\ Present
  /\ pc[c] = "idle" /\ loc[c] = NoLocals /\ set.rt \in Runtimes
  /\ loc'[c].ser = None /\ loc'[c].rt = set.rt /\ loc'[c].new = None
  /\ ~loc'[c].guard /\ ~loc'[c].reverting
  /\ set' = Gone
  /\ UNCHANGED <<rts, handle, hw, scan, overtaken, lost>>

LEMMA RemoveStep ==
  ASSUME Shaped, NEW c \in Clients, Remove(c)
  PROVE Shaped' /\ RemoveEffect(c)
<1>. DEFINE b == set.scanner
            p == IF b THEN "joining" ELSE "halt"
            m == [loc[c] EXCEPT !.rt = set.rt, !.joins = b]
<1>0. Present /\ Called(c)
  BY DEF Remove
<1>1. /\ c \in Threads /\ c \notin {"scanner", "drainer", "hotplug"} /\ pc[c] = "idle"
      /\ loc[c] = NoLocals /\ NoLocals \in Locals
      /\ calls < MaxCalls /\ calls' = calls + 1
  BY <1>0, CallStep
<1>2. set.rt \in Runtimes /\ set \in SetStates /\ hw \in Settings
      /\ handle \in Runtimes \cup {Closed, InHand} /\ rts \in [Runtimes -> RuntimeStates]
      /\ Roomy(rts)
  BY <1>0, RadioFits
<1>3. b \in BOOLEAN /\ p \in {"joining", "halt"} /\ p \in Labels
  BY <1>2 DEF SetStates, Labels
<1>4. pc' = [pc EXCEPT ![c] = p] /\ loc' = [loc EXCEPT ![c] = m] /\ set' = Gone
      /\ UNCHANGED <<rts, handle, hw, scan, overtaken, lost, faults, troubles>>
  BY DEF Remove, Goto, radio, history
<1>. HIDE DEF b, p
<1>5. m \in Locals /\ m.ser = loc[c].ser /\ m.rt = set.rt /\ m.new = loc[c].new
      /\ m.guard = loc[c].guard /\ m.reverting = loc[c].reverting
  BY <1>1, <1>2, <1>3 DEF Locals
<1>. HIDE DEF m
<1>7. Fits(c, p, m)
  BY <1>1, <1>2, <1>3, <1>5, LocNone, Names DEF Fits, Resting, Patched, Stopping
<1>9. CountersFit'
  BY <1>1, <1>4, CountersNext
<1>10. /\ set' \in SetStates /\ ~Present' /\ set' = Gone
       /\ rts' \in [Runtimes -> RuntimeStates] /\ Roomy(rts')
       /\ handle' \in Runtimes \cup {Closed, InHand} /\ hw' \in Settings
  BY <1>2, <1>4, SetGone DEF Present
<1>11. m.guard <=> loc[c].guard
  BY <1>5
<1>12. Shaped' /\ Moves(c, p) /\ loc'[c] = m
  BY <1>1, <1>3, <1>4, <1>5, <1>7, <1>9, <1>10, <1>11, StepNext, ZenonT(30)
<1>13. pc'[c] = p /\ p \in Stopping
  BY <1>3, <1>12 DEF Moves, Stopping
<1>. QED BY <1>0, <1>1, <1>2, <1>4, <1>5, <1>12, <1>13, LocNone DEF RemoveEffect

StartScanEffect(c) ==
  /\ pc[c] = "idle" /\ pc["scanner"] = "off" /\ c # "scanner"
  /\ pc'[c] = "list scan" /\ pc'["scanner"] = "loop"
  /\ \A o \in Threads : o \notin {c, "scanner"} => pc'[o] = pc[o]
  /\ loc[c] = NoLocals /\ loc["scanner"] = NoLocals
  /\ UNCHANGED <<set, rts, handle, hw, loc, scan, overtaken, lost>>

LEMMA StartScanStep ==
  ASSUME Shaped, NEW c \in Clients, StartScan(c)
  PROVE Shaped' /\ StartScanEffect(c)
<1>0. Called(c) /\ pc["scanner"] = "off" /\ "scanner" \in Threads
  BY Names DEF StartScan
<1>1. /\ c \in Threads /\ c \notin {"scanner", "drainer", "hotplug"} /\ pc[c] = "idle"
      /\ loc[c] = NoLocals /\ NoLocals \in Locals
      /\ calls < MaxCalls /\ calls' = calls + 1
  BY <1>0, CallStep
<1>2. loc["scanner"] = NoLocals
  BY <1>0, ShapeOf DEF Resting
<1>3. pc' = [pc EXCEPT ![c] = "list scan", !["scanner"] = "loop"]
      /\ UNCHANGED <<set, rts, handle, hw, loc, scan, overtaken, lost, faults, troubles>>
  BY DEF StartScan, radio, history
<1>4. pc \in [Threads -> Labels] /\ loc \in [Threads -> Locals]
      /\ \A o \in Threads : Fits(o, pc[o], loc[o])
  BY ShapedParts DEF ThreadsFit
<1>5. "list scan" \in Labels /\ "loop" \in Labels
  BY DEF Labels
<1>6. pc' \in [Threads -> Labels] /\ pc'[c] = "list scan" /\ pc'["scanner"] = "loop"
       /\ \A o \in Threads : o \notin {c, "scanner"} => pc'[o] = pc[o]
  BY <1>0, <1>1, <1>3, <1>4, <1>5
<1>7. Fits("scanner", "loop", NoLocals) /\ Fits(c, "list scan", NoLocals)
  BY <1>1, LocNone, Names DEF Fits, Resting, Patched, Stopping
<1>8. ThreadsFit'
  BY <1>0, <1>1, <1>2, <1>3, <1>4, <1>6, <1>7 DEF ThreadsFit
<1>9. Rated'
  BY <1>3, ShapedParts DEF Rated, Guards, Present
<1>10. CountersFit'
  BY <1>1, <1>3, CountersNext
<1>11. /\ handle' \in Runtimes \cup {Closed, InHand} /\ hw' \in Settings
       /\ set' \in SetStates /\ rts' \in [Runtimes -> RuntimeStates] /\ Roomy(rts')
       /\ IF Present' THEN set'.rt \in Runtimes ELSE set' = Gone
  BY <1>3, ShapedParts DEF Present
<1>12. Shaped'
  BY <1>8, <1>9, <1>10, <1>11, RadioNext
<1>. QED BY <1>0, <1>1, <1>2, <1>3, <1>6, <1>12 DEF StartScanEffect

\* A client's step that puts it at p with m, and s into the table.
LEMMA CallerStep ==
  ASSUME Shaped, NEW c \in Clients, NEW p \in Labels, NEW m \in Locals, Fits(c, p, m),
         pc' = [pc EXCEPT ![c] = p], loc' = [loc EXCEPT ![c] = m], ~m.guard, ~loc[c].guard,
         set' \in SetStates, set'.status = set.status, set'.rt = set.rt,
         set'.ratePatches = set.ratePatches, ~Present => set' = set,
         UNCHANGED <<rts, handle, hw, faults, troubles, scan, overtaken, lost>>,
         calls' = calls \/ (calls < MaxCalls /\ calls' = calls + 1)
  PROVE Shaped' /\ Moves(c, p) /\ loc'[c] = m
<1>1. CountersFit'
  BY CountersNext
<1>2. /\ Present' => set'.rt \in Runtimes
      /\ ~Present' => set' = Gone
      /\ Present' => Present /\ set'.ratePatches = set.ratePatches
      /\ rts' \in [Runtimes -> RuntimeStates] /\ Roomy(rts')
      /\ handle' \in Runtimes \cup {Closed, InHand} /\ hw' \in Settings
  BY RadioFits DEF Present
<1>3. c \in Threads /\ (m.guard <=> loc[c].guard)
  BY Names
<1>. QED BY <1>1, <1>2, <1>3, StepNext, ZenonT(30)

\* What none of a caller's steps touches.
CallerKeeps(c, p) ==
  /\ Moves(c, p) /\ c # "scanner" /\ c # "hotplug"
  /\ loc'[c].ser = None /\ loc'[c].rt = None /\ loc'[c].new = None
  /\ loc[c].ser = None /\ loc[c].rt = None /\ loc[c].new = None
  /\ ~loc'[c].guard /\ ~loc[c].guard
  /\ loc'[c].reverting => loc[c].reverting
  /\ set'.status = set.status /\ set'.rt = set.rt
  /\ set'.settings = set.settings /\ set'.lanes = set.lanes
  /\ UNCHANGED <<rts, handle, hw, scan, overtaken, lost>>

LEMMA ListScanStep ==
  ASSUME Shaped, NEW c \in Clients, ListScan(c)
  PROVE Shaped' /\ CallerKeeps(c, pc'[c]) /\ pc[c] = "list scan" /\ pc'[c] \in {"idle", "joining"}
        /\ set'.holds = set.holds
<1>. DEFINE p == IF Present THEN "idle" ELSE "joining"
            m == IF Present THEN NoLocals ELSE [NoLocals EXCEPT !.joins = TRUE]
            z == [NoLocals EXCEPT !.joins = TRUE]
<1>0. c \in Threads /\ pc[c] = "list scan" /\ c # "scanner" /\ c # "hotplug"
  BY Names DEF ListScan
<1>1. loc[c] = NoLocals /\ NoLocals \in Locals
  BY <1>0, ShapeOf, LocNone DEF Resting
<1>2. loc \in [Threads -> Locals] /\ set \in SetStates
  BY ShapedParts DEF ThreadsFit
<1>3. loc' = [loc EXCEPT ![c] = m] /\ pc' = [pc EXCEPT ![c] = p]
      /\ set' = (IF Present THEN [set EXCEPT !.scanner = TRUE] ELSE set)
      /\ UNCHANGED <<rts, handle, hw, faults, troubles, scan, overtaken, lost, calls>>
  BY <1>0, <1>1, <1>2 DEF ListScan, Goto, radio, ghosts, history
<1>4. set' \in SetStates /\ set'.status = set.status /\ set'.rt = set.rt /\ set'.holds = set.holds
      /\ set'.settings = set.settings /\ set'.lanes = set.lanes
      /\ set'.ratePatches = set.ratePatches /\ (~Present => set' = set)
  BY <1>2, <1>3 DEF SetStates
<1>5. z \in Locals /\ z.ser = NoLocals.ser /\ z.rt = NoLocals.rt /\ z.new = NoLocals.new
      /\ z.guard = NoLocals.guard /\ z.reverting = NoLocals.reverting
  BY <1>1 DEF Locals
<1>6. m = IF Present THEN NoLocals ELSE z
  OBVIOUS
<1>. HIDE DEF m, z
<1>7. m \in Locals /\ m.ser = None /\ m.rt = None /\ m.new = None
      /\ ~m.guard /\ ~m.reverting /\ (Present => m = NoLocals)
  BY <1>1, <1>5, <1>6, LocNone
<1>8. p \in Labels /\ p \in {"idle", "joining"} /\ (p = "idle" => Present)
  BY DEF Labels
<1>. HIDE DEF p
<1>9. Fits(c, p, m)
  BY <1>7, <1>8, Names DEF Fits, Resting, Patched, Stopping
<1>10. ~loc[c].guard
  BY <1>1, LocNone
<1>11. Shaped' /\ Moves(c, p) /\ loc'[c] = m
  BY <1>3, <1>4, <1>7, <1>8, <1>9, <1>10, CallerStep
<1>12. pc'[c] = p
  BY <1>11 DEF Moves
<1>. QED BY <1>0, <1>1, <1>3, <1>4, <1>7, <1>8, <1>10, <1>11, <1>12, LocNone DEF CallerKeeps

LEMMA StopScanStep ==
  ASSUME Shaped, NEW c \in Clients, StopScan(c)
  PROVE Shaped' /\ CallerKeeps(c, "joining") /\ pc[c] = "idle" /\ set'.holds = set.holds
<1>. DEFINE m == [loc[c] EXCEPT !.joins = TRUE]
<1>0. Called(c) /\ Present
  BY DEF StopScan
<1>1. /\ c \in Threads /\ c \notin {"scanner", "drainer", "hotplug"} /\ pc[c] = "idle"
      /\ loc[c] = NoLocals /\ NoLocals \in Locals
      /\ calls < MaxCalls /\ calls' = calls + 1
  BY <1>0, CallStep
<1>2. set \in SetStates
  BY ShapedParts
<1>3. loc' = [loc EXCEPT ![c] = m] /\ pc' = [pc EXCEPT ![c] = "joining"]
      /\ set' = [set EXCEPT !.scanner = FALSE]
      /\ UNCHANGED <<rts, handle, hw, faults, troubles, scan, overtaken, lost>>
  BY DEF StopScan, Goto, radio, history
<1>4. set' \in SetStates /\ set'.status = set.status /\ set'.rt = set.rt /\ set'.holds = set.holds
      /\ set'.settings = set.settings /\ set'.lanes = set.lanes
      /\ set'.ratePatches = set.ratePatches
  BY <1>2, <1>3 DEF SetStates
<1>5. m \in Locals /\ m.ser = loc[c].ser /\ m.rt = loc[c].rt /\ m.new = loc[c].new
      /\ m.guard = loc[c].guard /\ m.reverting = loc[c].reverting
  BY <1>1 DEF Locals
<1>. HIDE DEF m
<1>6. m.ser = None /\ m.rt = None /\ m.new = None /\ ~m.guard /\ ~m.reverting /\ ~loc[c].guard
  BY <1>1, <1>5, LocNone
<1>7. Fits(c, "joining", m) /\ "joining" \in Labels
  BY <1>6, Names DEF Fits, Resting, Patched, Stopping, Labels
<1>8. Shaped' /\ Moves(c, "joining") /\ loc'[c] = m
  BY <1>0, <1>1, <1>3, <1>4, <1>5, <1>6, <1>7, CallerStep
<1>. QED BY <1>1, <1>3, <1>4, <1>6, <1>8, LocNone DEF CallerKeeps

LEMMA BeginStep ==
  ASSUME Shaped, NEW c \in Clients, NEW k \in Keepers, NEW stream \in Streams,
         Begin(c, k, stream)
  PROVE Shaped' /\ CallerKeeps(c, "commit") /\ pc[c] = "idle" /\ set'.holds = set.holds
<1>. DEFINE v == set.settings["rate"]
            m == [loc[c] EXCEPT !.keeper = k, !.stream = stream, !.rate = v]
<1>0. Called(c)
  BY DEF Begin
<1>1. /\ c \in Threads /\ c \notin {"scanner", "drainer", "hotplug"} /\ pc[c] = "idle"
      /\ loc[c] = NoLocals /\ NoLocals \in Locals
      /\ calls < MaxCalls /\ calls' = calls + 1
  BY <1>0, CallStep
<1>2. set \in SetStates /\ v \in Nat /\ stream \in Nat
  BY RadioFits, RadioAssumption
<1>3. loc' = [loc EXCEPT ![c] = m] /\ pc' = [pc EXCEPT ![c] = "commit"]
      /\ UNCHANGED <<set, rts, handle, hw, faults, troubles, scan, overtaken, lost>>
  BY DEF Begin, Goto, radio, history
<1>. HIDE DEF v
<1>5. m \in Locals /\ m.ser = loc[c].ser /\ m.rt = loc[c].rt /\ m.new = loc[c].new
      /\ m.guard = loc[c].guard /\ m.reverting = loc[c].reverting /\ m.keeper = k
  BY <1>1, <1>2 DEF Locals
<1>. HIDE DEF m
<1>6. m.ser = None /\ m.rt = None /\ m.new = None /\ ~m.guard /\ ~m.reverting /\ ~loc[c].guard
  BY <1>1, <1>5, LocNone
<1>7. Fits(c, "commit", m) /\ "commit" \in Labels
  BY <1>5, <1>6, Names DEF Fits, Resting, Patched, Stopping, Labels
<1>8. Shaped' /\ Moves(c, "commit") /\ loc'[c] = m
  BY <1>0, <1>1, <1>2, <1>3, <1>5, <1>6, <1>7, CallerStep
<1>. QED BY <1>1, <1>3, <1>6, <1>8, LocNone DEF CallerKeeps

CommitEffect(c) ==
  /\ CallerKeeps(c, pc'[c]) /\ pc[c] = "commit" /\ pc'[c] \in {"idle", "commit"}
  /\ loc[c].keeper \in Keepers
  /\ ~Commits(c) => set'.holds = set.holds
  /\ Commits(c) => set'.holds = [set.holds EXCEPT ![loc[c].keeper] =
                                   [rate |-> loc[c].rate, stream |-> loc[c].stream]]

LEMMA CommitStep ==
  ASSUME Shaped, NEW c \in Clients, Commit(c)
  PROVE Shaped' /\ CommitEffect(c)
<1>. DEFINE k == loc[c].keeper
            x == [rate |-> loc[c].rate, stream |-> loc[c].stream]
            v == set.settings["rate"]
            again == /\ ~Commits(c) /\ set.ratePatches = 0 /\ k # "history"
                     /\ Running /\ ~Kept(k) /\ loc[c].stream < set.lanes
            m == IF again THEN [loc[c] EXCEPT !.rate = v] ELSE NoLocals
            p == IF again THEN "commit" ELSE "idle"
            z == [loc[c] EXCEPT !.rate = v]
<1>0. c \in Threads /\ pc[c] = "commit" /\ c # "scanner" /\ c # "hotplug"
  BY Names DEF Commit
<1>1. loc[c] \in Locals /\ loc[c].ser = None /\ loc[c].rt = None /\ loc[c].new = None
      /\ ~loc[c].guard /\ Fits(c, "commit", loc[c])
  BY <1>0, ShapeOf
<1>2. k \in Keepers
  BY <1>1 DEF Fits
<1>3. set \in SetStates /\ v \in Nat /\ pc \in [Threads -> Labels]
  BY RadioFits, ShapedParts DEF ThreadsFit
<1>4. x \in [rate: Nat, stream: Nat]
  BY <1>1 DEF Locals
<1>5. set' = (IF Commits(c) THEN [set EXCEPT !.holds = [set.holds EXCEPT ![k] = x]] ELSE set)
      /\ UNCHANGED <<rts, handle, hw, faults, troubles, scan, overtaken, lost, calls>>
  BY DEF Commit, radio, ghosts, history
<1>6. loc' = [loc EXCEPT ![c] = m] /\ pc' = [pc EXCEPT ![c] = p]
  <2>1. CASE again
    <3>1. loc' = [loc EXCEPT ![c] = z] /\ pc' = pc
      BY <2>1 DEF Commit
    <3>2. pc = [pc EXCEPT ![c] = "commit"]
      BY <1>0, <1>3
    <3>. QED BY <2>1, <3>1, <3>2
  <2>2. CASE ~again
    BY <2>2 DEF Commit, Goto
  <2>. QED BY <2>1, <2>2
<1>. DEFINE h == [set.holds EXCEPT ![k] = x]
<1>7. h \in [Keepers -> [rate: Nat, stream: Nat]]
  <2>. HIDE DEF x
  <2>. QED BY <1>2, <1>3, <1>4 DEF SetStates
<1>8. set' = (IF Commits(c) THEN [set EXCEPT !.holds = h] ELSE set)
  BY <1>5
<1>. HIDE DEF h
<1>9. set' \in SetStates /\ set'.status = set.status /\ set'.rt = set.rt
      /\ set'.settings = set.settings /\ set'.lanes = set.lanes
      /\ set'.ratePatches = set.ratePatches
      /\ (~Commits(c) => set' = set) /\ (Commits(c) => set'.holds = h)
  BY <1>3, <1>7, <1>8 DEF SetStates
<1>10. Commits(c) => Present
  BY DEF Commits, Running, Present
<1>11. z \in Locals /\ z.ser = None /\ z.rt = None /\ z.new = None
      /\ ~z.guard /\ z.reverting = loc[c].reverting /\ z.keeper = k
  <2>. HIDE DEF v
  <2>. QED BY <1>1, <1>3 DEF Locals
<1>12. m = (IF again THEN z ELSE NoLocals) /\ p \in Labels /\ p \in {"idle", "commit"}
       /\ (p = "commit" <=> again)
  BY DEF Labels
<1>. HIDE DEF z, m, p, again
<1>13. m \in Locals /\ m.ser = None /\ m.rt = None /\ m.new = None
       /\ ~m.guard /\ (m.reverting => loc[c].reverting)
       /\ (p = "commit" => m.keeper = k) /\ (p = "idle" => m = NoLocals)
  BY <1>11, <1>12, LocNone
<1>14. Fits(c, p, m)
  BY <1>2, <1>12, <1>13, Names DEF Fits, Resting, Patched, Stopping
<1>15. Shaped' /\ Moves(c, p) /\ loc'[c] = m
  BY <1>1, <1>5, <1>6, <1>9, <1>10, <1>12, <1>13, <1>14, CallerStep
<1>16. pc'[c] = p
  BY <1>15 DEF Moves
<1>. QED BY <1>0, <1>1, <1>2, <1>5, <1>9, <1>12, <1>13, <1>15, <1>16 DEF CallerKeeps, h, CommitEffect

FinishKeeperEffect(k) ==
  /\ set'.status = set.status /\ set'.rt = set.rt
  /\ set'.settings = set.settings /\ set'.lanes = set.lanes
  /\ set'.holds = [set.holds EXCEPT ![k] = NoHold]
  /\ UNCHANGED <<rts, handle, hw, pc, loc, scan, overtaken, lost>>

LEMMA FinishKeeperStep ==
  ASSUME Shaped, NEW c \in Clients, NEW k \in Keepers, Finish(c, k)
  PROVE Shaped' /\ FinishKeeperEffect(k)
<1>. DEFINE h == [set.holds EXCEPT ![k] = NoHold]
<1>0. Called(c) /\ Present
  BY DEF Finish
<1>1. calls < MaxCalls /\ calls' = calls + 1
  BY <1>0 DEF Called
<1>2. set \in SetStates /\ set.rt \in Runtimes
  BY <1>0, RadioFits
<1>3. h \in [Keepers -> [rate: Nat, stream: Nat]]
  BY <1>2, UnheldFits DEF SetStates
<1>4. set' = [set EXCEPT !.holds = h]
      /\ UNCHANGED <<rts, handle, hw, pc, loc, faults, troubles, scan, overtaken, lost>>
  BY DEF Finish, radio, history
<1>. HIDE DEF h
<1>5. set' \in SetStates /\ set'.status = set.status /\ set'.rt = set.rt
      /\ set'.settings = set.settings /\ set'.lanes = set.lanes
      /\ set'.ratePatches = set.ratePatches /\ set'.holds = h
  BY <1>2, <1>3, <1>4 DEF SetStates
<1>6. ThreadsFit' /\ hw' \in Settings /\ handle' \in Runtimes \cup {Closed, InHand}
      /\ rts' \in [Runtimes -> RuntimeStates] /\ Roomy(rts')
  BY <1>4, ShapedParts DEF ThreadsFit
<1>7. Rated' /\ Present'
  BY <1>0, <1>4, <1>5, ShapedParts DEF Rated, Guards, Present
<1>8. CountersFit'
  BY <1>1, <1>4, CountersNext
<1>9. Shaped'
  BY <1>2, <1>5, <1>6, <1>7, <1>8, RadioNext
<1>. QED BY <1>4, <1>5, <1>9 DEF h, FinishKeeperEffect

----------------------------------------------------------------------------
(* The steps of the scanner.                                               *)

ScanStates == [hardware: BOOLEAN, inSweep: BOOLEAN, ending: BOOLEAN]

LEMMA ScanFits ==
  ASSUME Shaped
  PROVE /\ scan \in ScanStates /\ scan.inSweep \in BOOLEAN /\ scan.ending \in BOOLEAN
        /\ LET e == [scan EXCEPT !.ending = TRUE]
           IN e \in ScanStates /\ e.inSweep = scan.inSweep /\ e.ending = TRUE
        /\ LET e == [scan EXCEPT !.hardware = FALSE]
           IN e \in ScanStates /\ e.inSweep = scan.inSweep /\ e.ending = scan.ending
        /\ \A b \in BOOLEAN : LET e == [scan EXCEPT !.inSweep = b]
                              IN e \in ScanStates /\ e.inSweep = b /\ e.ending = scan.ending
<1>1. scan \in ScanStates
  BY ShapedParts DEF ScanStates
<1>. QED BY <1>1 DEF ScanStates

\* The scanner goes on at p with m.
LEMMA ScannerStep ==
  ASSUME Shaped, NEW p \in Labels, NEW m \in Locals, Fits("scanner", p, m),
         pc' = [pc EXCEPT !["scanner"] = p], loc' = [loc EXCEPT !["scanner"] = m],
         ~m.guard, ~loc["scanner"].guard, set' = set, scan' \in ScanStates,
         rts' \in [Runtimes -> RuntimeStates], Roomy(rts'),
         handle' \in Runtimes \cup {Closed, InHand}, hw' \in Settings,
         UNCHANGED <<faults, calls>>, lost' \in BOOLEAN,
         troubles' = troubles \/ (troubles < MaxTroubles /\ troubles' = troubles + 1),
         overtaken' = overtaken \/ (overtaken < MaxOvertakes /\ overtaken' = overtaken + 1)
  PROVE Shaped' /\ Moves("scanner", p) /\ loc'["scanner"] = m
<1>1. CountersFit'
  <2>1. faults \in Nat /\ troubles \in Nat /\ faults <= troubles
    BY ShapedParts, RadioAssumption
  <2>2. faults' \in Nat /\ faults' <= troubles'
    BY <2>1
  <2>. QED BY <2>2, CountersStep DEF ScanStates
<1>2. "scanner" \in Threads /\ (m.guard <=> loc["scanner"].guard)
  BY Names
<1>. QED BY <1>1, <1>2, StepHere, ZenonT(30)

LEMMA ScannerRests ==
  ASSUME NEW p \in {"loop", "last", "leave", "ended"}
  PROVE Fits("scanner", p, NoLocals) /\ p \in Labels /\ NoLocals \in Locals /\ ~NoLocals.guard
BY LocNone, Names DEF Fits, Resting, Patched, Stopping, Labels

\* The scanner moves and nothing else does.
ScannerMoves(p) ==
  /\ Moves("scanner", p) /\ loc'["scanner"] = loc["scanner"] /\ loc["scanner"] = NoLocals
  /\ scan'.inSweep = scan.inSweep
  /\ UNCHANGED <<set, rts, handle, hw, overtaken, lost>>

LEMMA ScannerMovesStep ==
  ASSUME Shaped, pc["scanner"] \in {"loop", "last"}, NEW p \in {"loop", "last", "leave", "ended"},
         pc' = [pc EXCEPT !["scanner"] = p], scan' \in ScanStates, scan'.inSweep = scan.inSweep,
         UNCHANGED <<set, rts, handle, hw, loc, faults, troubles, calls, overtaken, lost>>
  PROVE Shaped' /\ ScannerMoves(p)
<1>1. "scanner" \in Threads
  BY Names
<1>2. loc["scanner"] = NoLocals
  BY <1>1, ShapeOf DEF Resting
<1>3. loc' = [loc EXCEPT !["scanner"] = NoLocals]
  BY <1>1, <1>2, ShapedParts DEF ThreadsFit
<1>4. Fits("scanner", p, NoLocals) /\ p \in Labels /\ NoLocals \in Locals /\ ~NoLocals.guard
  BY ScannerRests
<1>5. ~loc["scanner"].guard
  BY <1>2, <1>4
<1>6. /\ rts' \in [Runtimes -> RuntimeStates] /\ Roomy(rts') /\ lost' \in BOOLEAN
      /\ handle' \in Runtimes \cup {Closed, InHand} /\ hw' \in Settings
  BY ShapedParts
<1>7. Shaped' /\ Moves("scanner", p) /\ loc'["scanner"] = NoLocals
  BY <1>3, <1>4, <1>5, <1>6, ScannerStep
<1>. QED BY <1>2, <1>7 DEF ScannerMoves

LEMMA EndScanStep ==
  ASSUME Shaped, EndScan
  PROVE Shaped' /\ ScannerMoves(WindsUp) /\ pc["scanner"] = "loop"
<1>1. pc["scanner"] = "loop" /\ pc' = [pc EXCEPT !["scanner"] = WindsUp]
      /\ scan' = [scan EXCEPT !.ending = TRUE]
      /\ UNCHANGED <<set, rts, handle, hw, loc, faults, troubles, calls, overtaken, lost>>
  BY DEF EndScan, Goto, radio, ghosts, history
<1>2. scan' \in ScanStates /\ scan'.inSweep = scan.inSweep
  BY <1>1, ScanFits
<1>3. WindsUp \in {"loop", "last", "leave", "ended"}
  BY DEF WindsUp
<1>. QED BY <1>1, <1>2, <1>3, ScannerMovesStep

LEMMA LastFollowStep ==
  ASSUME Shaped, LastFollow
  PROVE Shaped' /\ ScannerMoves("ended") /\ pc["scanner"] = "last"
<1>1. pc["scanner"] = "last" /\ pc' = [pc EXCEPT !["scanner"] = "ended"] /\ scan' = scan
      /\ UNCHANGED <<set, rts, handle, hw, loc, faults, troubles, calls, overtaken, lost>>
  BY DEF LastFollow, Goto, radio, ghosts, history
<1>2. scan' \in ScanStates /\ scan'.inSweep = scan.inSweep
  BY <1>1, ScanFits
<1>. QED BY <1>1, <1>2, ScannerMovesStep

LEMMA HitStep ==
  ASSUME Shaped, Hit
  PROVE Shaped' /\ ScannerMoves("leave") /\ pc["scanner"] = "loop" /\ scan.inSweep
<1>1. pc["scanner"] = "loop" /\ pc' = [pc EXCEPT !["scanner"] = "leave"] /\ scan' = scan
      /\ scan.inSweep
      /\ UNCHANGED <<set, rts, handle, hw, loc, faults, troubles, calls, overtaken, lost>>
  BY DEF Hit, Goto, radio, ghosts, history
<1>2. scan' \in ScanStates /\ scan'.inSweep = scan.inSweep
  BY <1>1, ScanFits
<1>. QED BY <1>1, <1>2, ScannerMovesStep

\* sweep::enter (b false) or sweep::leave (b true) gives up.
GivesUp(b) == IF b THEN NotBack ELSE NoSweep

Retreats(b) ==
  /\ Moves("scanner", IF ~b THEN "loop" ELSE IF scan.ending THEN "last" ELSE "leave")
  /\ loc'["scanner"] = NoLocals
  /\ scan'.inSweep = scan.inSweep
  /\ scan'.ending = (b \/ scan.ending)

LEMMA GivesUpStep ==
  ASSUME Shaped, NEW b \in BOOLEAN, GivesUp(b), ~loc["scanner"].guard, set' = set,
         rts' \in [Runtimes -> RuntimeStates], Roomy(rts'),
         handle' \in Runtimes \cup {Closed, InHand}, hw' \in Settings,
         UNCHANGED <<faults, calls, overtaken>>, lost' \in BOOLEAN,
         troubles' = troubles \/ (troubles < MaxTroubles /\ troubles' = troubles + 1)
  PROVE Shaped' /\ Retreats(b)
<1>. DEFINE p == IF ~b THEN "loop" ELSE IF scan.ending THEN "last" ELSE "leave"
<1>1. p \in {"loop", "last", "leave", "ended"}
  OBVIOUS
<1>2. pc' = [pc EXCEPT !["scanner"] = p] /\ loc' = [loc EXCEPT !["scanner"] = NoLocals]
      /\ scan' = IF b THEN [scan EXCEPT !.ending = TRUE] ELSE [scan EXCEPT !.hardware = FALSE]
  BY DEF GivesUp, NotBack, NoSweep, Goto
<1>3. scan' \in ScanStates /\ scan'.inSweep = scan.inSweep /\ scan'.ending = (b \/ scan.ending)
  BY <1>2, ScanFits
<1>. HIDE DEF p
<1>4. Fits("scanner", p, NoLocals) /\ p \in Labels /\ NoLocals \in Locals /\ ~NoLocals.guard
  BY <1>1, ScannerRests
<1>5. Shaped' /\ Moves("scanner", p) /\ loc'["scanner"] = NoLocals
  BY <1>2, <1>3, <1>4, ScannerStep
<1>. QED BY <1>3, <1>5 DEF Retreats, p

\* The scanner reads the runtime of the table.
Reaches ==
  /\ loc["scanner"] = NoLocals /\ set.rt \in Runtimes /\ Present
  /\ Moves("scanner", "take")
  /\ loc'["scanner"].ser = None /\ loc'["scanner"].rt = set.rt /\ loc'["scanner"].new = None
  /\ ~loc'["scanner"].guard /\ ~loc'["scanner"].reverting
  /\ UNCHANGED <<set, rts, handle, hw, scan, overtaken, lost>>

LEMMA ReachesStep ==
  ASSUME Shaped, pc["scanner"] \in {"loop", "leave"}, Present,
         loc' = [loc EXCEPT !["scanner"] = [loc["scanner"] EXCEPT !.rt = set.rt]],
         Goto("scanner", "take"),
         UNCHANGED <<set, rts, handle, hw, scan, faults, troubles, calls, overtaken, lost>>
  PROVE Shaped' /\ Reaches
<1>. DEFINE m == [loc["scanner"] EXCEPT !.rt = set.rt]
<1>0. "scanner" \in Threads
  BY Names
<1>1. loc["scanner"] = NoLocals /\ loc["scanner"] \in Locals
  BY <1>0, ShapeOf DEF Resting
<1>2. set.rt \in Runtimes
  BY RadioFits
<1>3. m \in Locals /\ m.ser = loc["scanner"].ser /\ m.rt = set.rt /\ m.new = loc["scanner"].new
      /\ m.guard = loc["scanner"].guard /\ m.reverting = loc["scanner"].reverting
  BY <1>1, <1>2 DEF Locals
<1>4. pc' = [pc EXCEPT !["scanner"] = "take"] /\ loc' = [loc EXCEPT !["scanner"] = m]
  BY DEF Goto
<1>. HIDE DEF m
<1>5. m.ser = None /\ m.new = None /\ ~m.guard /\ ~m.reverting /\ ~loc["scanner"].guard
  BY <1>1, <1>3, LocNone
<1>6. Fits("scanner", "take", m) /\ "take" \in Labels
  BY <1>2, <1>3, <1>5, Names DEF Fits, Resting, Patched, Stopping, Labels
<1>7. /\ rts' \in [Runtimes -> RuntimeStates] /\ Roomy(rts') /\ lost' \in BOOLEAN
      /\ handle' \in Runtimes \cup {Closed, InHand} /\ hw' \in Settings /\ scan' \in ScanStates
  BY ShapedParts, ScanFits
<1>8. Shaped' /\ Moves("scanner", "take") /\ loc'["scanner"] = m
  BY <1>3, <1>4, <1>5, <1>6, <1>7, ScannerStep
<1>. QED BY <1>1, <1>2, <1>3, <1>5, <1>8 DEF Reaches

LEMMA EnterStep ==
  ASSUME Shaped, Enter
  PROVE /\ Shaped' /\ pc["scanner"] = "loop" /\ ~scan.inSweep
        /\ Reaches \/ (Retreats(FALSE) /\ loc["scanner"] = NoLocals
                       /\ UNCHANGED <<set, rts, handle, hw, overtaken, lost>>)
<1>1. pc["scanner"] = "loop" /\ ~scan.inSweep
      /\ UNCHANGED <<set, rts, handle, hw, faults, troubles, calls, overtaken, lost>>
  BY DEF Enter, radio, ghosts, history
<1>2. CASE Running
  <2>1. loc' = [loc EXCEPT !["scanner"] = [loc["scanner"] EXCEPT !.rt = set.rt]]
        /\ Goto("scanner", "take") /\ scan' = scan /\ Present
    BY <1>2 DEF Enter, Running, Present
  <2>2. Shaped' /\ Reaches
    BY <1>1, <2>1, ReachesStep
  <2>. QED BY <1>1, <2>2
<1>3. CASE ~Running
  <2>1. GivesUp(FALSE)
    BY <1>3 DEF Enter, GivesUp
  <2>2. loc["scanner"] = NoLocals /\ ~NoLocals.guard
    BY <1>1, Names, ShapeOf, LocNone DEF Resting
  <2>3. /\ rts' \in [Runtimes -> RuntimeStates] /\ Roomy(rts') /\ lost' \in BOOLEAN
        /\ handle' \in Runtimes \cup {Closed, InHand} /\ hw' \in Settings
    BY <1>1, ShapedParts
  <2>4. Shaped' /\ Retreats(FALSE)
    BY <1>1, <2>1, <2>2, <2>3, GivesUpStep
  <2>. QED BY <1>1, <2>2, <2>4
<1>. QED BY <1>2, <1>3

LEMMA LeaveStep ==
  ASSUME Shaped, Leave
  PROVE /\ Shaped' /\ pc["scanner"] = "leave"
        /\ Reaches \/ (~Present /\ Retreats(TRUE) /\ loc["scanner"] = NoLocals
                       /\ UNCHANGED <<set, rts, handle, hw, overtaken, lost>>)
<1>1. pc["scanner"] = "leave"
      /\ UNCHANGED <<set, rts, handle, hw, faults, troubles, calls, overtaken, lost>>
  BY DEF Leave, radio, ghosts, history
<1>2. CASE Present
  <2>1. loc' = [loc EXCEPT !["scanner"] = [loc["scanner"] EXCEPT !.rt = set.rt]]
        /\ Goto("scanner", "take") /\ scan' = scan
    BY <1>2 DEF Leave
  <2>2. Shaped' /\ Reaches
    BY <1>1, <1>2, <2>1, ReachesStep
  <2>. QED BY <1>1, <2>2
<1>3. CASE ~Present
  <2>1. GivesUp(TRUE)
    BY <1>3 DEF Leave, GivesUp
  <2>2. loc["scanner"] = NoLocals /\ ~NoLocals.guard
    BY <1>1, Names, ShapeOf, LocNone DEF Resting
  <2>3. /\ rts' \in [Runtimes -> RuntimeStates] /\ Roomy(rts') /\ lost' \in BOOLEAN
        /\ handle' \in Runtimes \cup {Closed, InHand} /\ hw' \in Settings
    BY <1>1, ShapedParts
  <2>4. Shaped' /\ Retreats(TRUE)
    BY <1>1, <2>1, <2>2, <2>3, GivesUpStep
  <2>. QED BY <1>1, <1>3, <2>2, <2>4
<1>. QED BY <1>2, <1>3

\* The scanner finds the sweep as it wanted it, and goes on.
FindsSweep ==
  /\ Moves("scanner", IF scan.ending THEN "last" ELSE "loop") /\ loc'["scanner"] = NoLocals
  /\ rts[loc["scanner"].rt].sweeping # scan.inSweep
  /\ scan'.inSweep = (~scan.inSweep) /\ scan'.ending = scan.ending
  /\ UNCHANGED <<set, rts, handle, hw, overtaken, lost>>

\* There is no radio in the runtime.
FindsNoRadio ==
  /\ Retreats(scan.inSweep) /\ handle # loc["scanner"].rt
  /\ Halts(loc["scanner"].rt)
  /\ \A q \in Runtimes : q # loc["scanner"].rt => Stays(q)
  /\ UNCHANGED <<set, handle, hw, overtaken, lost>>

LEMMA TakeFits ==
  ASSUME Shaped, pc["scanner"] = "take"
  PROVE /\ "scanner" \in Threads /\ loc["scanner"] \in Locals /\ ~loc["scanner"].guard
        /\ loc["scanner"].ser = None /\ loc["scanner"].rt \in Runtimes
        /\ loc["scanner"].new = None /\ Fits("scanner", "take", loc["scanner"])
<1>1. "scanner" \in Threads
  BY Names
<1>2. /\ loc["scanner"] \in Locals /\ ~loc["scanner"].guard
        /\ loc["scanner"].ser = None /\ loc["scanner"].rt \in Runtimes
        /\ loc["scanner"].new = None /\ Fits("scanner", "take", loc["scanner"])
  BY <1>1, ShapeOf
<1>. QED BY <1>1, <1>2

LEMMA NothingToTakeStep ==
  ASSUME Shaped, NothingToTake
  PROVE Shaped' /\ pc["scanner"] = "take" /\ (FindsSweep \/ FindsNoRadio)
<1>. DEFINE r == loc["scanner"].rt
<1>1. pc["scanner"] = "take"
      /\ UNCHANGED <<set, handle, hw, faults, troubles, calls, overtaken, lost>>
  BY DEF NothingToTake, radio, ghosts, history
<1>2. r \in Runtimes /\ ~loc["scanner"].guard
  BY <1>1, TakeFits
<1>3. lost' \in BOOLEAN /\ handle' \in Runtimes \cup {Closed, InHand} /\ hw' \in Settings
  BY <1>1, ShapedParts
<1>4. CASE /\ rts[r].sweeping # scan.inSweep
           /\ scan' = [scan EXCEPT !.inSweep = ~@]
           /\ loc' = [loc EXCEPT !["scanner"] = NoLocals]
           /\ Goto("scanner", IF scan.ending THEN "last" ELSE "loop")
           /\ UNCHANGED rts
  <2>. DEFINE p == IF scan.ending THEN "last" ELSE "loop"
  <2>1. scan' = [scan EXCEPT !.inSweep = ~scan.inSweep] /\ (~scan.inSweep) \in BOOLEAN
    BY <1>4, ScanFits DEF ScanStates
  <2>2. scan' \in ScanStates /\ scan'.inSweep = (~scan.inSweep) /\ scan'.ending = scan.ending
    BY <2>1, ScanFits
  <2>3. p \in {"loop", "last", "leave", "ended"} /\ pc' = [pc EXCEPT !["scanner"] = p]
    BY <1>4 DEF Goto
  <2>. HIDE DEF p
  <2>4. Fits("scanner", p, NoLocals) /\ p \in Labels /\ NoLocals \in Locals /\ ~NoLocals.guard
    BY <2>3, ScannerRests
  <2>5. rts' \in [Runtimes -> RuntimeStates] /\ Roomy(rts')
    BY <1>4, ShapedParts
  <2>6. Shaped' /\ Moves("scanner", p) /\ loc'["scanner"] = NoLocals
    BY <1>1, <1>2, <1>3, <1>4, <2>2, <2>3, <2>4, <2>5, ScannerStep
  <2>. QED BY <1>1, <1>4, <2>2, <2>6 DEF FindsSweep, p
<1>5. CASE /\ rts[r].sweeping = scan.inSweep /\ handle # r
           /\ rts' = Halted(r)
           /\ IF scan.inSweep THEN NotBack ELSE NoSweep
  <2>1. GivesUp(scan.inSweep) /\ scan.inSweep \in BOOLEAN
    BY <1>5, ScanFits DEF GivesUp
  <2>2. /\ rts' \in [Runtimes -> RuntimeStates] /\ Roomy(rts')
        /\ Halts(r) /\ \A q \in Runtimes : q # r => Stays(q)
    BY <1>2, <1>5, HaltedStep
  <2>3. Shaped' /\ Retreats(scan.inSweep)
    BY <1>1, <1>2, <1>3, <2>1, <2>2, GivesUpStep
  <2>. QED BY <1>1, <1>5, <2>2, <2>3 DEF FindsNoRadio
<1>6. \/ /\ rts[r].sweeping # scan.inSweep
         /\ scan' = [scan EXCEPT !.inSweep = ~@]
         /\ loc' = [loc EXCEPT !["scanner"] = NoLocals]
         /\ Goto("scanner", IF scan.ending THEN "last" ELSE "loop")
         /\ UNCHANGED rts
      \/ /\ rts[r].sweeping = scan.inSweep /\ handle # r
         /\ rts' = Halted(r)
         /\ IF scan.inSweep THEN NotBack ELSE NoSweep
  BY DEF NothingToTake
<1>. QED BY <1>4, <1>5, <1>6

\* The radio leaves the runtime.
Takes ==
  /\ pc["scanner"] = "take" /\ loc["scanner"].rt \in Runtimes /\ loc["scanner"].ser = None
  /\ loc["scanner"].new = None
  /\ rts[loc["scanner"].rt].sweeping = scan.inSweep /\ handle = loc["scanner"].rt
  /\ Halts(loc["scanner"].rt)
  /\ overtaken' = 0 => overtaken = 0 /\ rts[loc["scanner"].rt].patching = "free"
  /\ UNCHANGED <<set, scan, lost>>

LEMMA TakeRadioStep ==
  ASSUME Shaped, TakeRadio
  PROVE /\ pc["scanner"] = "take" /\ handle = loc["scanner"].rt
        /\ rts[loc["scanner"].rt].sweeping = scan.inSweep
        /\ overtaken' = overtaken \/ (overtaken < MaxOvertakes /\ overtaken' = overtaken + 1)
        /\ overtaken' = 0 => overtaken = 0 /\ rts[loc["scanner"].rt].patching = "free"
<1>. DEFINE so == rts[loc["scanner"].rt].patching # "free"
<1>1. so \in BOOLEAN /\ Overtaking(so)
  BY DEF TakeRadio
<1>. HIDE DEF so
<1>2. /\ overtaken' = overtaken \/ (overtaken < MaxOvertakes /\ overtaken' = overtaken + 1)
      /\ overtaken' = 0 => overtaken = 0 /\ ~so
  BY <1>1, OvertakingStep
<1>. QED BY <1>2 DEF TakeRadio, so

\* It is in the scanner's hands.
InHands ==
  /\ Takes /\ Moves("scanner", "restore") /\ loc'["scanner"] = loc["scanner"]
  /\ handle' = InHand /\ hw' = hw
  /\ \A q \in Runtimes : q # loc["scanner"].rt => Stays(q)

LEMMA InHandsStep ==
  ASSUME Shaped, TakeRadio, rts' = Halted(loc["scanner"].rt), handle' = InHand,
         Goto("scanner", "restore"), UNCHANGED <<set, hw, faults, loc, scan, calls, lost>>,
         troubles' = troubles \/ (troubles < MaxTroubles /\ troubles' = troubles + 1)
  PROVE Shaped' /\ InHands
<1>. DEFINE r == loc["scanner"].rt
            m == loc["scanner"]
<1>1. /\ pc["scanner"] = "take" /\ handle = loc["scanner"].rt
      /\ rts[loc["scanner"].rt].sweeping = scan.inSweep
      /\ overtaken' = overtaken \/ (overtaken < MaxOvertakes /\ overtaken' = overtaken + 1)
      /\ overtaken' = 0 => overtaken = 0 /\ rts[loc["scanner"].rt].patching = "free"
  BY TakeRadioStep
<1>2. /\ "scanner" \in Threads /\ m \in Locals /\ ~m.guard
      /\ m.ser = None /\ r \in Runtimes
      /\ m.new = None /\ Fits("scanner", "take", m)
  BY <1>1, TakeFits
<1>3. Fits("scanner", "restore", m) /\ "restore" \in Labels
  BY <1>2, Names DEF Fits, Resting, Patched, Stopping, Labels
<1>4. /\ rts' \in [Runtimes -> RuntimeStates] /\ Roomy(rts')
      /\ Halts(r) /\ \A q \in Runtimes : q # r => Stays(q)
  BY <1>2, HaltedStep
<1>5. pc' = [pc EXCEPT !["scanner"] = "restore"] /\ loc' = [loc EXCEPT !["scanner"] = m]
  BY <1>2, ShapedParts DEF Goto, ThreadsFit
<1>6. handle' \in Runtimes \cup {Closed, InHand} /\ hw' \in Settings /\ lost' \in BOOLEAN
      /\ scan' \in ScanStates
  BY ShapedParts, ScanFits
<1>. HIDE DEF m
<1>7. ~loc["scanner"].guard
  BY <1>2 DEF m
<1>8. Shaped' /\ Moves("scanner", "restore") /\ loc'["scanner"] = m
  BY <1>1, <1>2, <1>3, <1>4, <1>5, <1>6, <1>7, ScannerStep
<1>. QED BY <1>1, <1>2, <1>4, <1>8 DEF Takes, InHands, m

LEMMA StopSweepStep ==
  ASSUME Shaped, StopSweep
  PROVE Shaped' /\ InHands /\ scan.inSweep
<1>1. TakeRadio /\ rts' = Halted(loc["scanner"].rt) /\ handle' = InHand
      /\ Goto("scanner", "restore") /\ scan.inSweep
      /\ UNCHANGED <<set, hw, faults, loc, scan, calls, lost, troubles>>
  BY DEF StopSweep
<1>. QED BY <1>1, InHandsStep

\* The ways a StartSweep goes: the radio sweeps on runtime r, or it refuses.
SweepStarts(r, d) ==
  /\ TakeRadio /\ ~scan.inSweep /\ Fresh(r)
  /\ rts' = [Halted(loc["scanner"].rt) EXCEPT ![r] = Started(TRUE, hw["rate"])]
  /\ hw' = Merge(hw, d)
  /\ handle' = r
  /\ loc' = [loc EXCEPT !["scanner"] = [loc["scanner"] EXCEPT !.new = r]]
  /\ Goto("scanner", "swap")
  /\ UNCHANGED <<set, faults, troubles, scan, calls, lost>>

SweepRefused ==
  /\ TakeRadio /\ ~scan.inSweep
  /\ troubles < MaxTroubles /\ troubles' = troubles + 1
  /\ rts' = Halted(loc["scanner"].rt)
  /\ handle' = InHand
  /\ Goto("scanner", "restore")
  /\ UNCHANGED <<set, hw, faults, loc, scan, calls, lost>>

LEMMA StartSweepCases ==
  ASSUME StartSweep
  PROVE SweepRefused \/ \E r \in Runtimes, d \in Centers : SweepStarts(r, d)
BY DEF StartSweep, SweepRefused, SweepStarts, Refuses

LEMMA SweepRefusedStep ==
  ASSUME Shaped, SweepRefused
  PROVE Shaped' /\ InHands /\ ~scan.inSweep
<1>1. TakeRadio /\ rts' = Halted(loc["scanner"].rt) /\ handle' = InHand
      /\ Goto("scanner", "restore") /\ ~scan.inSweep
      /\ UNCHANGED <<set, hw, faults, loc, scan, calls, lost>>
      /\ troubles < MaxTroubles /\ troubles' = troubles + 1
  BY DEF SweepRefused
<1>. QED BY <1>1, InHandsStep

LEMMA CenterKeeps ==
  ASSUME NEW h \in Settings, NEW d \in Centers
  PROVE /\ Merge(h, d) \in Settings
        /\ Merge(h, d)["rate"] = h["rate"] /\ Merge(h, d)["lanes"] = h["lanes"]
<1>1. d \in Deltas /\ DOMAIN d = {"center"}
  BY RadioAssumption DEF Deltas
<1>2. "rate" \in Fields /\ "lanes" \in Fields
  BY DEF Fields
<1>. QED BY <1>1, <1>2, MergeSettings

SweepStartsEffect(r) ==
  /\ Takes /\ ~scan.inSweep /\ Fresh(r) /\ r # loc["scanner"].rt
  /\ Moves("scanner", "swap")
  /\ handle' = r /\ hw'["rate"] = hw["rate"] /\ hw'["lanes"] = hw["lanes"]
  /\ loc'["scanner"].ser = None /\ loc'["scanner"].rt = loc["scanner"].rt
  /\ loc'["scanner"].new = r /\ ~loc'["scanner"].guard
  /\ loc'["scanner"].reverting = loc["scanner"].reverting
  /\ Starts(r, TRUE, hw["rate"])
  /\ \A q \in Runtimes : q \notin {r, loc["scanner"].rt} => Stays(q)

LEMMA SweepStartsStep ==
  ASSUME Shaped, NEW r \in Runtimes, NEW d \in Centers, SweepStarts(r, d)
  PROVE Shaped' /\ SweepStartsEffect(r)
<1>. DEFINE old == loc["scanner"].rt
            v == hw["rate"]
            m == [loc["scanner"] EXCEPT !.new = r]
<1>0. TakeRadio /\ ~scan.inSweep /\ Fresh(r)
  BY DEF SweepStarts
<1>1. /\ pc["scanner"] = "take" /\ handle = loc["scanner"].rt
      /\ rts[loc["scanner"].rt].sweeping = scan.inSweep
      /\ overtaken' = overtaken \/ (overtaken < MaxOvertakes /\ overtaken' = overtaken + 1)
      /\ overtaken' = 0 => overtaken = 0 /\ rts[loc["scanner"].rt].patching = "free"
  BY <1>0, TakeRadioStep
<1>2. /\ "scanner" \in Threads /\ loc["scanner"] \in Locals /\ ~loc["scanner"].guard
      /\ loc["scanner"].ser = None /\ old \in Runtimes
      /\ loc["scanner"].new = None /\ Fits("scanner", "take", loc["scanner"])
  BY <1>1, TakeFits
<1>3. r # old /\ v \in Nat /\ hw \in Settings
  BY <1>0, <1>1, RadioFits DEF Fresh, Referenced
<1>4. hw' \in Settings /\ hw'["rate"] = hw["rate"] /\ hw'["lanes"] = hw["lanes"]
  BY <1>3, CenterKeeps DEF SweepStarts
<1>5. pc' = [pc EXCEPT !["scanner"] = "swap"] /\ loc' = [loc EXCEPT !["scanner"] = m]
      /\ rts' = [Halted(old) EXCEPT ![r] = Started(TRUE, v)] /\ handle' = r
      /\ UNCHANGED <<set, faults, troubles, scan, calls, lost>>
  BY DEF SweepStarts, Goto
<1>. HIDE DEF v
<1>6. m \in Locals /\ m.ser = None /\ m.rt = old /\ m.new = r /\ ~m.guard
      /\ m.reverting = loc["scanner"].reverting
  BY <1>2 DEF Locals
<1>. HIDE DEF m
<1>7. /\ rts' \in [Runtimes -> RuntimeStates] /\ Roomy(rts')
      /\ Starts(r, TRUE, v) /\ Halts(old)
      /\ \A q \in Runtimes : q \notin {r, old} => Stays(q)
  BY <1>2, <1>3, <1>5, RestartedStep
<1>8. Fits("scanner", "swap", m) /\ "swap" \in Labels
  BY <1>6, Names DEF Fits, Resting, Patched, Stopping, Labels
<1>9. handle' \in Runtimes \cup {Closed, InHand} /\ lost' \in BOOLEAN /\ scan' \in ScanStates
  BY <1>5, ShapedParts, ScanFits
<1>10. Shaped' /\ Moves("scanner", "swap") /\ loc'["scanner"] = m
  BY <1>1, <1>2, <1>4, <1>5, <1>6, <1>7, <1>8, <1>9, ScannerStep
<1>. QED BY <1>0, <1>1, <1>2, <1>3, <1>4, <1>5, <1>6, <1>7, <1>10 DEF Takes, v, SweepStartsEffect

\* The ways a Restore goes: the radio receives on runtime r, or it is dropped.
Receives(r) ==
  /\ pc["scanner"] = "restore" /\ Present /\ Fresh(r)
  /\ hw' = Reapplied(set.settings)
  /\ rts' = [rts EXCEPT ![r] = Started(FALSE, set.settings["rate"])]
  /\ handle' = r
  /\ loc' = [loc EXCEPT !["scanner"] = [loc["scanner"] EXCEPT !.new = r]]
  /\ Goto("scanner", "swap")
  /\ UNCHANGED <<set, faults, troubles, scan, calls, overtaken, lost>>

DropsRadio ==
  /\ pc["scanner"] = "restore"
  /\ troubles' = troubles \/ (troubles < MaxTroubles /\ troubles' = troubles + 1)
  /\ handle' = Closed
  /\ lost' = (lost \/ Present)
  /\ GivesUp(scan.inSweep)
  /\ UNCHANGED <<set, rts, hw, faults, calls, overtaken>>

LEMMA RestoreCases ==
  ASSUME Restore
  PROVE DropsRadio \/ \E r \in Runtimes : Receives(r)
BY DEF Restore, DropsRadio, Receives, Refuses, GivesUp

LEMMA RestoreFits ==
  ASSUME Shaped, pc["scanner"] \in {"restore", "swap"}
  PROVE /\ "scanner" \in Threads /\ loc["scanner"] \in Locals
        /\ pc["scanner"] = "restore" => loc["scanner"].ser = None /\ loc["scanner"].new = None
        /\ pc["scanner"] = "swap" => loc["scanner"].new \in Runtimes
        /\ loc["scanner"].ser = None => ~loc["scanner"].guard
<1>1. "scanner" \in Threads
  BY Names
<1>2. /\ loc["scanner"] \in Locals
      /\ pc["scanner"] = "restore" => loc["scanner"].ser = None /\ loc["scanner"].new = None
      /\ pc["scanner"] = "swap" => loc["scanner"].new # None
      /\ loc["scanner"].guard => loc["scanner"].ser # None
  BY <1>1, ShapeOf
<1>. QED BY <1>1, <1>2 DEF Locals

ReceivesEffect(r) ==
  /\ pc["scanner"] = "restore" /\ Present /\ Fresh(r)
  /\ loc["scanner"].ser = None /\ loc["scanner"].new = None
  /\ Moves("scanner", "swap") /\ handle' = r /\ hw' = set.settings
  /\ loc'["scanner"].ser = None /\ loc'["scanner"].rt = loc["scanner"].rt
  /\ loc'["scanner"].new = r /\ ~loc'["scanner"].guard
  /\ loc'["scanner"].reverting = loc["scanner"].reverting
  /\ Starts(r, FALSE, set.settings["rate"]) /\ \A q \in Runtimes : q # r => Stays(q)
  /\ UNCHANGED <<set, scan, overtaken, lost>>

LEMMA ReceivesStep ==
  ASSUME Shaped, NEW r \in Runtimes, Receives(r)
  PROVE Shaped' /\ ReceivesEffect(r)
<1>. DEFINE v == set.settings["rate"]
            m == [loc["scanner"] EXCEPT !.new = r]
<1>0. pc["scanner"] = "restore" /\ Present /\ Fresh(r)
  BY DEF Receives
<1>1. /\ "scanner" \in Threads /\ loc["scanner"] \in Locals /\ ~loc["scanner"].guard
      /\ loc["scanner"].ser = None /\ loc["scanner"].new = None
  BY <1>0, RestoreFits
<1>2. v \in Nat /\ hw \in Settings /\ set.settings \in Settings
  BY RadioFits
<1>3. hw' = set.settings
  BY <1>2, MergeAll DEF Receives, Reapplied
<1>4. pc' = [pc EXCEPT !["scanner"] = "swap"] /\ loc' = [loc EXCEPT !["scanner"] = m]
      /\ rts' = [rts EXCEPT ![r] = Started(FALSE, v)] /\ handle' = r
      /\ UNCHANGED <<set, faults, troubles, scan, calls, overtaken, lost>>
  BY DEF Receives, Goto
<1>. HIDE DEF v
<1>5. m \in Locals /\ m.ser = None /\ m.rt = loc["scanner"].rt /\ m.new = r /\ ~m.guard
      /\ m.reverting = loc["scanner"].reverting
  BY <1>1 DEF Locals
<1>. HIDE DEF m
<1>6. /\ rts' \in [Runtimes -> RuntimeStates] /\ Roomy(rts')
      /\ Starts(r, FALSE, v) /\ \A q \in Runtimes : q # r => Stays(q)
  BY <1>2, <1>4, StartedStep
<1>7. Fits("scanner", "swap", m) /\ "swap" \in Labels
  BY <1>5, Names DEF Fits, Resting, Patched, Stopping, Labels
<1>8. handle' \in Runtimes \cup {Closed, InHand} /\ lost' \in BOOLEAN /\ scan' \in ScanStates
      /\ hw' \in Settings
  BY <1>2, <1>3, <1>4, ShapedParts, ScanFits
<1>9. Shaped' /\ Moves("scanner", "swap") /\ loc'["scanner"] = m
  BY <1>1, <1>4, <1>5, <1>6, <1>7, <1>8, ScannerStep
<1>. QED BY <1>0, <1>1, <1>3, <1>4, <1>5, <1>6, <1>9 DEF v, ReceivesEffect

DropsRadioEffect ==
  /\ pc["scanner"] = "restore" /\ Retreats(scan.inSweep)
  /\ loc["scanner"].ser = None /\ loc["scanner"].new = None
  /\ handle' = Closed /\ (lost' <=> (lost \/ Present))
  /\ UNCHANGED <<set, rts, hw, overtaken>>

LEMMA DropsRadioStep ==
  ASSUME Shaped, DropsRadio
  PROVE Shaped' /\ DropsRadioEffect
<1>1. /\ pc["scanner"] = "restore"
      /\ troubles' = troubles \/ (troubles < MaxTroubles /\ troubles' = troubles + 1)
      /\ handle' = Closed
      /\ lost' = (lost \/ Present)
      /\ GivesUp(scan.inSweep)
      /\ UNCHANGED <<set, rts, hw, faults, calls, overtaken>>
  BY DEF DropsRadio
<1>2. ~loc["scanner"].guard /\ loc["scanner"].ser = None /\ loc["scanner"].new = None
  BY <1>1, RestoreFits
<1>3. scan.inSweep \in BOOLEAN /\ lost' \in BOOLEAN /\ hw' \in Settings
      /\ handle' \in Runtimes \cup {Closed, InHand}
      /\ rts' \in [Runtimes -> RuntimeStates] /\ Roomy(rts')
  BY <1>1, ScanFits, ShapedParts
<1>4. Shaped' /\ Retreats(scan.inSweep)
  BY <1>1, <1>2, <1>3, GivesUpStep
<1>. QED BY <1>1, <1>2, <1>4 DEF DropsRadioEffect

\* The runtime of the scanner goes into the table.
SweepSwaps ==
  /\ loc'["scanner"] = NoLocals /\ Moves("scanner", IF scan.ending THEN "last" ELSE "loop")
  /\ Present /\ set.rt \in Runtimes
  /\ set'.rt = loc["scanner"].new /\ set'.status = set.status /\ set'.holds = set.holds
  /\ set'.settings = set.settings /\ set'.lanes = set.lanes
  /\ \A q \in Runtimes : q # set.rt => Stays(q)
  /\ \/ Unused("scanner", set.rt) /\ Forgets(set.rt)
     \/ ~Unused("scanner", set.rt) /\ Halts(set.rt)
  /\ scan'.inSweep = rts[loc["scanner"].new].sweeping /\ scan'.ending = scan.ending
  /\ UNCHANGED <<handle, hw, overtaken, lost>>

LEMMA SwapSweepStep ==
  ASSUME Shaped, SwapSweep, Present, scan.inSweep \/ ~scan.ending
  PROVE Shaped' /\ pc["scanner"] = "swap" /\ loc["scanner"].ser = None /\ SweepSwaps
        /\ loc["scanner"].new \in Runtimes
<1>. DEFINE new == loc["scanner"].new
            p == IF scan.ending THEN "last" ELSE "loop"
            back == ~scan.inSweep /\ ~rts[new].sweeping
<1>0. pc["scanner"] = "swap" /\ loc["scanner"].ser = None
  BY DEF SwapSweep
<1>1. /\ "scanner" \in Threads /\ loc["scanner"] \in Locals /\ ~loc["scanner"].guard
      /\ new \in Runtimes
  BY <1>0, RestoreFits
<1>2. set \in SetStates /\ set.rt \in Runtimes /\ rts[new].sweeping \in BOOLEAN
  BY <1>1, RadioFits DEF RuntimeStates
<1>3. set' = [set EXCEPT !.rt = new] /\ rts' = Replaced("scanner")
      /\ UNCHANGED <<handle, hw, faults, troubles, calls, overtaken, lost>>
  BY DEF SwapSweep, ghosts, history
<1>4. IF back THEN NoSweep
      ELSE /\ scan' = [scan EXCEPT !.inSweep = rts[new].sweeping]
           /\ loc' = [loc EXCEPT !["scanner"] = NoLocals]
           /\ Goto("scanner", p)
  BY DEF SwapSweep
<1>5. back => p = "loop"
  OBVIOUS
<1>6. pc' = [pc EXCEPT !["scanner"] = p] /\ loc' = [loc EXCEPT !["scanner"] = NoLocals]
  BY <1>4, <1>5 DEF NoSweep, Goto
<1>7. scan' \in ScanStates /\ scan'.inSweep = rts[new].sweeping /\ scan'.ending = scan.ending
  <2>1. CASE back
    <3>1. scan' = [scan EXCEPT !.hardware = FALSE]
      BY <1>4, <2>1 DEF NoSweep
    <3>. QED BY <1>2, <2>1, <3>1, ScanFits
  <2>2. CASE ~back
    BY <1>2, <1>4, <2>2, ScanFits
  <2>. QED BY <2>1, <2>2
<1>8. p \in {"loop", "last", "leave", "ended"}
  OBVIOUS
<1>. HIDE DEF p
<1>9. Fits("scanner", p, NoLocals) /\ p \in Labels /\ NoLocals \in Locals
      /\ (NoLocals.guard <=> loc["scanner"].guard)
  BY <1>1, <1>8, ScannerRests
<1>10. /\ rts' \in [Runtimes -> RuntimeStates] /\ Roomy(rts')
       /\ \A q \in Runtimes : q # set.rt => Stays(q)
       /\ \/ Unused("scanner", set.rt) /\ Forgets(set.rt)
          \/ ~Unused("scanner", set.rt) /\ Halts(set.rt)
  BY <1>1, <1>2, <1>3, ReplacedStep
<1>11. set' \in SetStates /\ set'.rt = new /\ set'.status = set.status /\ set'.holds = set.holds
       /\ set'.settings = set.settings /\ set'.lanes = set.lanes
       /\ set'.ratePatches = set.ratePatches
  BY <1>1, <1>2, <1>3 DEF SetStates
<1>12. CountersFit'
  <2>1. faults \in Nat /\ troubles \in Nat /\ faults <= troubles /\ lost \in BOOLEAN
    BY ShapedParts, RadioAssumption
  <2>. QED BY <1>3, <1>7, <2>1, CountersStep DEF ScanStates
<1>13. /\ Present' => set'.rt \in Runtimes
       /\ ~Present' => set' = Gone
       /\ Present' => Present /\ set'.ratePatches = set.ratePatches
       /\ handle' \in Runtimes \cup {Closed, InHand} /\ hw' \in Settings
  BY <1>1, <1>3, <1>11, RadioFits DEF Present
<1>14. Shaped' /\ Moves("scanner", p) /\ loc'["scanner"] = NoLocals
  BY <1>1, <1>6, <1>9, <1>10, <1>11, <1>12, <1>13, StepNext, ZenonT(30)
<1>. QED BY <1>0, <1>1, <1>2, <1>3, <1>7, <1>10, <1>11, <1>14 DEF SweepSwaps, p

SwapSweepGoneEffect ==
  /\ pc["scanner"] = "swap" /\ loc["scanner"].ser = None
  /\ loc["scanner"].new \in Runtimes
  /\ Retreats(scan.inSweep) /\ handle' = Closed
  /\ Halts(loc["scanner"].new) /\ \A q \in Runtimes : q # loc["scanner"].new => Stays(q)
  /\ UNCHANGED <<set, hw, overtaken, lost>>

LEMMA SwapSweepGoneStep ==
  ASSUME Shaped, SwapSweep, ~Present
  PROVE Shaped' /\ SwapSweepGoneEffect
<1>. DEFINE new == loc["scanner"].new
<1>0. pc["scanner"] = "swap" /\ loc["scanner"].ser = None
  BY DEF SwapSweep
<1>1. ~loc["scanner"].guard /\ new \in Runtimes
  BY <1>0, RestoreFits
<1>2. GivesUp(scan.inSweep) /\ rts' = Halted(new) /\ handle' = Closed
      /\ UNCHANGED <<set, hw, faults, troubles, calls, overtaken, lost>>
  BY DEF SwapSweep, GivesUp, ghosts, history
<1>3. /\ rts' \in [Runtimes -> RuntimeStates] /\ Roomy(rts')
      /\ Halts(new) /\ \A q \in Runtimes : q # new => Stays(q)
  BY <1>1, <1>2, HaltedStep
<1>4. scan.inSweep \in BOOLEAN /\ lost' \in BOOLEAN /\ hw' \in Settings
      /\ handle' \in Runtimes \cup {Closed, InHand}
  BY <1>2, ScanFits, ShapedParts
<1>5. Shaped' /\ Retreats(scan.inSweep)
  BY <1>1, <1>2, <1>3, <1>4, GivesUpStep
<1>. QED BY <1>0, <1>1, <1>2, <1>3, <1>5 DEF SwapSweepGoneEffect

----------------------------------------------------------------------------
(* Who has what, after a step.                                             *)

LEMMA HeldTypes ==
  ASSUME Shaped
  PROVE /\ \A t \in Threads : /\ loc[t].ser \in Runtimes \cup {None}
                              /\ loc[t].rt \in Runtimes \cup {None}
                              /\ loc[t].new \in Runtimes \cup {None}
        /\ \A r \in Runtimes : rts[r].patching \in Threads \cup {"free"}
BY ShapedParts DEF ThreadsFit, Locals, RuntimeStates

\* A thread has a runtime of its own only where it is about to put it into the table.
NewAt(t) == (loc[t].new # None) <=> (pc[t] \in {"swap", "revive"})
NoneAt == /\ NoLocals.ser = None /\ NoLocals.rt = None /\ NoLocals.new = None
          /\ ~NoLocals.guard /\ ~NoLocals.reverting

LEMMA NewAtStep ==
  ASSUME Shaped, NEW t \in Threads
  PROVE NewAt(t) /\ NoneAt
BY ShapeOf, LocNone DEF NewAt, NoneAt

\* A radio sweeps in the runtime of the table.
SweptNow == Present /\ handle = set.rt /\ rts[set.rt].sweeping

\* The scanner's place in the sweep is not touched, or it is in a patch.
ScannerKeeps ==
  \/ /\ pc'["scanner"] = pc["scanner"]
     /\ loc'["scanner"].ser = loc["scanner"].ser /\ loc'["scanner"].rt = loc["scanner"].rt
  \/ /\ pc["scanner"] \notin {"loop", "leave", "take"} \/ ~SweptNow
     /\ pc'["scanner"] \notin {"off", "loop", "leave"}
     /\ loc'["scanner"].ser # None \/ pc'["scanner"] = "ended"
  \/ /\ pc["scanner"] \notin {"loop", "leave", "take"}
     /\ pc'["scanner"] = "loop" /\ ~scan.ending

LEMMA SweepsNext ==
  ASSUME Sweeps, "scanner" \in Threads,
         scan'.inSweep = scan.inSweep, scan'.ending = scan.ending,
         SweptNow' => SweptNow /\ set'.rt = set.rt,
         \A o \in Threads : loc'[o].new # None =>
           \/ ~rts'[loc'[o].new].sweeping
           \/ /\ loc'[o].new = loc[o].new /\ loc'[o].ser = loc[o].ser
              /\ rts'[loc[o].new].sweeping = rts[loc[o].new].sweeping,
         ScannerKeeps
  PROVE Sweeps'
<1>1. (pc["scanner"] = "leave" => scan.inSweep)'
  BY DEF Sweeps, ScannerKeeps
<1>2. (pc["scanner"] \in {"off", "loop"} => ~scan.ending)'
  BY DEF Sweeps, ScannerKeeps
<1>3. (pc["scanner"] \in {"take", "restore", "swap"} /\ loc["scanner"].ser = None =>
         scan.inSweep \/ ~scan.ending)'
  BY DEF Sweeps, ScannerKeeps
<1>4. (\A t \in Threads : loc[t].new # None /\ rts[loc[t].new].sweeping =>
         t = "scanner" /\ loc[t].ser = None /\ ~scan.inSweep)'
  BY DEF Sweeps
<1>5. (SweptNow => /\ scan.inSweep
                   /\ pc["scanner"] \in {"loop", "leave", "take"}
                   /\ pc["scanner"] = "take" => loc["scanner"].rt = set.rt)'
  BY DEF Sweeps, ScannerKeeps, SweptNow
<1>. QED BY <1>1, <1>2, <1>3, <1>4, <1>5 DEF Sweeps, SweptNow

\* The locks are where they were, but for t, which may let go of the one it has.
LEMMA LocksNext ==
  ASSUME Locks, Shaped, Shaped', NEW t \in Threads,
         \A o \in Threads : o # t => /\ Holding(o)' <=> Holding(o)
                                     /\ loc'[o].ser = loc[o].ser,
         \A r \in Runtimes :
           \/ rts'[r].patching = rts[r].patching /\ rts'[r].sweeping = rts[r].sweeping
           \/ rts'[r].patching = "free" /\ \A o \in Threads : o # t /\ Holding(o) => loc[o].ser # r,
         \/ /\ Holding(t)' <=> Holding(t)
            /\ loc'[t].ser = loc[t].ser
            /\ Holding(t) => /\ rts'[loc[t].ser].patching = t
                             /\ ~rts'[loc[t].ser].sweeping
         \/ /\ ~Holding(t)'
            /\ Holding(t) => rts'[loc[t].ser].patching = "free"
  PROVE Locks'
<1>1. ASSUME NEW o \in Threads, Holding(o)'
      PROVE rts'[loc'[o].ser].patching = o /\ ~rts'[loc'[o].ser].sweeping
  <2>1. CASE o = t
    BY <1>1, <2>1
  <2>2. CASE o # t
    <3>1. Holding(o) /\ loc'[o].ser = loc[o].ser
      BY <1>1, <2>2
    <3>2. loc[o].ser \in Runtimes
      BY <3>1, HeldTypes DEF Holding
    <3>. QED BY <2>2, <3>1, <3>2 DEF Locks
  <2>. QED BY <2>1, <2>2
<1>2. ASSUME NEW r \in Runtimes, rts'[r].patching # "free"
      PROVE Holding(rts[r].patching)' /\ loc'[rts[r].patching].ser = r
            /\ rts'[r].patching = rts[r].patching
  <2>1. rts'[r].patching = rts[r].patching /\ rts[r].patching \in Threads
    BY <1>2, HeldTypes
  <2>2. Holding(rts[r].patching) /\ loc[rts[r].patching].ser = r
    BY <1>2, <2>1 DEF Locks
  <2>. QED BY <1>2, <2>1, <2>2
<1>3. \A r \in Runtimes : rts'[r].patching # "free" =>
        Holding(rts[r].patching)' /\ loc'[rts'[r].patching].ser = r
        /\ rts'[r].patching = rts[r].patching
  BY <1>2
<1>. QED BY <1>1, <1>3 DEF Locks, Holding

\* The radio stays where it is.
LEMMA OwnedNext ==
  ASSUME Owned, handle' = handle, pc'["scanner"] = "restore" <=> pc["scanner"] = "restore",
         handle \in Runtimes => rts'[handle].meta # {},
         handle \in Runtimes /\ Present /\ set.rt = handle =>
           \/ Present' /\ set'.rt = handle
           \/ ~Present' /\ \E t \in Threads : pc'[t] \in Stopping /\ loc'[t].rt = handle,
         \A t \in Threads : handle \in Runtimes /\ loc[t].new = handle =>
           \/ loc'[t].new = handle
           \/ Present' /\ set'.rt = handle,
         \A t \in Threads : handle \in Runtimes /\ ~Present /\ pc[t] \in Stopping /\ loc[t].rt = handle
           => ~Present' /\ pc'[t] \in Stopping /\ loc'[t].rt = handle
  PROVE Owned'
<1>1. ASSUME handle \in Runtimes
      PROVE (\/ Present /\ set.rt = handle
             \/ \E t \in Threads : loc[t].new = handle
             \/ ~Present /\ \E t \in Threads : pc[t] \in Stopping /\ loc[t].rt = handle)'
  BY <1>1 DEF Owned
<1>2. (handle = InHand <=> pc["scanner"] = "restore")'
  BY DEF Owned
<1>3. (handle \in Runtimes => rts[handle].meta # {})'
  OBVIOUS
<1>. QED BY <1>1, <1>2, <1>3 DEF Owned

LEMMA OwnedClosed ==
  ASSUME handle' = Closed, pc'["scanner"] # "restore"
  PROVE Owned'
BY Names DEF Owned

\* What is shown as running stays as it is, or stops running.
LEMMA RunsNext ==
  ASSUME Runs, lost' = lost, handle' = handle,
         Running' => Running,
         Running' => \A t \in Threads : pc'[t] \in Stopping /\ loc'[t].rt # None =>
           loc'[t].rt # set'.rt,
         pc'["hotplug"] = pc["hotplug"],
         Running' => set'.rt = set.rt \/ set'.rt = handle,
         Running' => \A t \in Threads : pc[t] = "mark" => pc'[t] = "mark",
         Running' => \A t \in Threads : loc[t].new # None =>
           loc'[t].new # None \/ handle = set'.rt
  PROVE Runs'
BY DEF Runs

\* Nobody has a runtime of his own, or t has one that nobody knows.
LEMMA PrivateNone ==
  ASSUME \A o \in Threads : loc'[o].new = None
  PROVE Private'
BY DEF Private

LEMMA PrivateFresh ==
  ASSUME Shaped, NEW t \in Threads, NEW r \in Runtimes, Fresh(r), handle' = r, set' = set,
         \A o \in Threads : o # t => loc'[o] = loc[o] /\ loc[o].new = None,
         loc'[t].new = r, loc'[t].ser = loc[t].ser, loc'[t].rt = loc[t].rt
  PROVE Private'
<1>1. set.rt # r
  BY ShapedParts, SetGone, Names DEF Fresh, Referenced
<1>2. \A o \in Threads : loc'[o].ser # r /\ loc'[o].rt # r
  BY DEF Fresh, Referenced
<1>. QED BY <1>1, <1>2 DEF Private

LEMMA AskHeld ==
  ASSUME Shaped, Shaped', Held, NEW t \in Clients \cup {"scanner"}, AskEffect(t)
  PROVE Held'
<1>00. t \in Threads /\ t # "hotplug" /\ "scanner" \in Threads /\ "hotplug" \in Threads
  BY Names
<1>0. /\ t \in Threads /\ t # "hotplug" /\ "scanner" \in Threads /\ "hotplug" \in Threads
      /\ NewAt(t) /\ NoneAt
  BY <1>00, NewAtStep
<1>1. Locks'
  <2>1. \A o \in Threads : o # t => (Holding(o)' <=> Holding(o)) /\ loc'[o].ser = loc[o].ser
    BY <1>0 DEF NoneAt, Holding, Moves, AskEffect
  <2>2. \A r \in Runtimes :
          \/ rts'[r].patching = rts[r].patching /\ rts'[r].sweeping = rts[r].sweeping
          \/ rts'[r].patching = "free" /\ \A o \in Threads : o # t /\ Holding(o) => loc[o].ser # r
    BY <1>0, HeldTypes, Names DEF Held, Locks, Holding, AskEffect
  <2>3. \/ /\ Holding(t)' <=> Holding(t)
           /\ loc'[t].ser = loc[t].ser
           /\ Holding(t) => rts'[loc[t].ser].patching = t /\ ~rts'[loc[t].ser].sweeping
        \/ /\ ~Holding(t)'
           /\ Holding(t) => rts'[loc[t].ser].patching = "free"
    BY <1>0, HeldTypes, Names DEF NoneAt, Stopping, Held, Locks, Holding, Moves, AskEffect
  <2>. QED BY <1>0, <2>1, <2>2, <2>3, LocksNext DEF Held
<1>2. Private'
  BY <1>0, Names DEF NoneAt, Held, Private, Moves, AskEffect
<1>3. Owned'
  <2>1. handle' = handle /\ (pc'["scanner"] = "restore" <=> pc["scanner"] = "restore")
    BY <1>0, Names, ShapeOf DEF Resumes, Resting, Patched, Moves, AskEffect
  <2>2. handle \in Runtimes => rts'[handle].meta # {}
    BY <1>0, Names, HeldTypes DEF Held, Owned, AskEffect
  <2>3. handle \in Runtimes /\ Present /\ set.rt = handle =>
          \/ Present' /\ set'.rt = handle
          \/ ~Present' /\ \E o \in Threads : pc'[o] \in Stopping /\ loc'[o].rt = handle
    BY <1>0 DEF Held, Private, Present, AskEffect
  <2>4. \A o \in Threads : handle \in Runtimes /\ loc[o].new = handle =>
          loc'[o].new = handle \/ (Present' /\ set'.rt = handle)
    BY <1>0, Names DEF NewAt, NoneAt, Patched, Moves, Present, AskEffect
  <2>5. \A o \in Threads : handle \in Runtimes /\ ~Present /\ pc[o] \in Stopping /\ loc[o].rt = handle
          => ~Present' /\ pc'[o] \in Stopping /\ loc'[o].rt = handle
    BY <1>0, Names DEF Stopping, Patched, Resting, Moves, Present, AskEffect
  <2>. QED BY <2>1, <2>2, <2>3, <2>4, <2>5, OwnedNext DEF Held
<1>4. Runs'
  BY <1>0, HeldTypes, Names DEF NewAt, NoneAt, Held, Runs, Moves, Running, Stopping, AskEffect
<1>5. Sweeps'
  <2>1. scan'.inSweep = scan.inSweep /\ scan'.ending = scan.ending
    BY DEF AskEffect
  <2>2. SweptNow' => SweptNow /\ set'.rt = set.rt
    BY <1>0, Names, ShapedParts, SetGone DEF SweptNow, Present, AskEffect
  <2>3. \A o \in Threads : loc'[o].new # None =>
          \/ ~rts'[loc'[o].new].sweeping
          \/ /\ loc'[o].new = loc[o].new /\ loc'[o].ser = loc[o].ser
             /\ rts'[loc[o].new].sweeping = rts[loc[o].new].sweeping
    BY <1>0, HeldTypes, Names DEF NoneAt, Moves, AskEffect
  <2>4. ScannerKeeps
    BY <1>0, Names, ShapeOf, ShapedParts DEF ScannerKeeps, NoneAt, Moves, SweptNow, Resumes, Patched, Stopping, AskEffect
  <2>. QED BY <1>0, <2>1, <2>2, <2>3, <2>4, SweepsNext DEF Held
<1>6. Unpinned'
  BY <1>0, HeldTypes, Names DEF NewAt, NoneAt, Held, Unpinned, Moves, Guards, RatePinned, Kept, Present, Running, AskEffect
<1>. QED BY <1>1, <1>2, <1>3, <1>4, <1>5, <1>6 DEF Held

LEMMA AdmitHeld ==
  ASSUME Shaped, Shaped', Held, NEW t \in Clients \cup {"scanner"}, AdmitEffect(t)
  PROVE Held'
<1>00. t \in Threads /\ t # "hotplug" /\ "scanner" \in Threads /\ "hotplug" \in Threads
  BY Names
<1>0. /\ t \in Threads /\ t # "hotplug" /\ "scanner" \in Threads /\ "hotplug" \in Threads
      /\ NewAt(t) /\ NoneAt
  BY <1>00, NewAtStep
<1>1. Locks'
  <2>1. \A o \in Threads : Holding(o)' <=> Holding(o) \/ o = t
    BY <1>0, Names DEF Holding, Moves, AdmitEffect
  <2>2. \A o \in Threads : loc'[o].ser = loc[o].ser
    BY <1>0 DEF Moves, AdmitEffect
  <2>3. \A o \in Threads : Holding(o) => loc[o].ser # loc[t].ser
    BY <1>0, Names DEF Held, Locks, AdmitEffect
  <2>4. \A o \in Threads : Holding(o)' => rts'[loc'[o].ser].patching = o /\ ~rts'[loc'[o].ser].sweeping
    BY <1>0, <2>1, <2>2, <2>3, HeldTypes DEF Held, Locks, Holding, AdmitEffect
  <2>5. \A r \in Runtimes : rts'[r].patching # "free" =>
          /\ loc'[rts'[r].patching].ser = r /\ loc'[rts'[r].patching].ser # None
          /\ pc'[rts'[r].patching] # "wait"
    <3>1. ASSUME NEW r \in Runtimes, rts'[r].patching # "free", r # loc[t].ser
          PROVE /\ loc'[rts'[r].patching].ser = r
                /\ pc'[rts'[r].patching] # "wait"
      <4>1. rts'[r].patching = rts[r].patching /\ rts[r].patching \in Threads
        BY <3>1, HeldTypes DEF AdmitEffect
      <4>2. Holding(rts[r].patching) /\ loc[rts[r].patching].ser = r
        BY <3>1, <4>1 DEF Held, Locks
      <4>3. rts[r].patching # t
        BY <4>2 DEF Holding, AdmitEffect
      <4>. QED BY <4>1, <4>2, <4>3 DEF Holding, Moves, AdmitEffect
    <3>2. rts'[loc[t].ser].patching = t /\ loc'[t].ser = loc[t].ser /\ pc'[t] # "wait"
      BY DEF Moves, AdmitEffect
    <3>. QED BY <3>1, <3>2, Names
  <2>. QED BY <2>4, <2>5 DEF Locks, Holding
<1>2. Private'
  BY <1>0, HeldTypes, Names DEF NewAt, NoneAt, Held, Private, Moves, AdmitEffect
<1>3. Owned'
  BY <1>0, HeldTypes, Names DEF NewAt, NoneAt, Held, Owned, Moves, Present, Stopping, AdmitEffect
<1>4. Runs'
  BY <1>0, HeldTypes, Names DEF NewAt, NoneAt, Held, Runs, Moves, Running, Stopping, AdmitEffect
<1>5. Sweeps'
  <2>1. scan'.inSweep = scan.inSweep /\ scan'.ending = scan.ending
    BY DEF AdmitEffect
  <2>2. SweptNow' => SweptNow /\ set'.rt = set.rt
    BY <1>0, Names, ShapedParts, SetGone DEF SweptNow, Present, AdmitEffect
  <2>3. \A o \in Threads : loc'[o].new # None =>
          \/ ~rts'[loc'[o].new].sweeping
          \/ /\ loc'[o].new = loc[o].new /\ loc'[o].ser = loc[o].ser
             /\ rts'[loc[o].new].sweeping = rts[loc[o].new].sweeping
    BY <1>0, HeldTypes, Names DEF NoneAt, Moves, AdmitEffect
  <2>4. ScannerKeeps
    BY <1>0, Names, ShapeOf DEF ScannerKeeps, NoneAt, Moves, SweptNow, Resumes, Patched, Stopping, AdmitEffect
  <2>. QED BY <1>0, <2>1, <2>2, <2>3, <2>4, SweepsNext DEF Held
<1>6. Unpinned'
  BY <1>0, HeldTypes, Names DEF NewAt, NoneAt, Held, Unpinned, Moves, Guards, RatePinned, Kept, Present, Running, AdmitEffect
<1>. QED BY <1>1, <1>2, <1>3, <1>4, <1>5, <1>6 DEF Held

LEMMA ValidateHeld ==
  ASSUME Shaped, Shaped', Held, NEW t \in Clients \cup {"scanner"}, Present, ~Refused(loc[t].delta), ValidateEffect(t)
  PROVE Held'
<1>00. t \in Threads /\ t # "hotplug" /\ "scanner" \in Threads /\ "hotplug" \in Threads
  BY Names
<1>0. /\ t \in Threads /\ t # "hotplug" /\ "scanner" \in Threads /\ "hotplug" \in Threads
      /\ NewAt(t) /\ NoneAt
  BY <1>00, NewAtStep
<1>1. Locks'
  BY <1>0, HeldTypes, Names DEF NewAt, NoneAt, Held, Locks, Holding, Moves, ValidateEffect
<1>2. Private'
  BY <1>0, HeldTypes, Names DEF NewAt, NoneAt, Held, Private, Moves, ValidateEffect
<1>3. Owned'
  BY <1>0, HeldTypes, Names DEF NewAt, NoneAt, Held, Owned, Moves, Present, Stopping, ValidateEffect
<1>4. Runs'
  BY <1>0, HeldTypes, Names DEF NewAt, NoneAt, Held, Runs, Moves, Running, Stopping, ValidateEffect
<1>5. Sweeps'
  <2>1. scan'.inSweep = scan.inSweep /\ scan'.ending = scan.ending
    BY DEF ValidateEffect
  <2>2. SweptNow' => SweptNow /\ set'.rt = set.rt
    BY <1>0, Names, ShapedParts, SetGone DEF SweptNow, Present, ValidateEffect
  <2>3. \A o \in Threads : loc'[o].new # None =>
          \/ ~rts'[loc'[o].new].sweeping
          \/ /\ loc'[o].new = loc[o].new /\ loc'[o].ser = loc[o].ser
             /\ rts'[loc[o].new].sweeping = rts[loc[o].new].sweeping
    BY <1>0, HeldTypes, Names DEF NoneAt, Moves, ValidateEffect
  <2>4. ScannerKeeps
    BY <1>0, Names, ShapeOf DEF ScannerKeeps, NoneAt, Moves, SweptNow, Resumes, Patched, Stopping, ValidateEffect
  <2>. QED BY <1>0, <2>1, <2>2, <2>3, <2>4, SweepsNext DEF Held
<1>6. Unpinned'
  <2>1. ChangesRate(loc[t].delta) => ~RatePinned
    BY DEF Refused
  <2>2. Guards' # {} => ~RatePinned
    BY <1>0, <2>1 DEF Held, Unpinned, Guards, Moves, ValidateEffect
  <2>3. (RatePinned' <=> RatePinned) /\ (Running' <=> Running)
    BY DEF RatePinned, Kept, Running, ValidateEffect
  <2>. QED BY <2>2, <2>3 DEF Held, Unpinned
<1>. QED BY <1>1, <1>2, <1>3, <1>4, <1>5, <1>6 DEF Held

LEMMA ApplyTakenHeld ==
  ASSUME Shaped, Shaped', Held, NEW t \in Clients \cup {"scanner"}, ApplyTakenEffect(t)
  PROVE Held'
<1>00. t \in Threads /\ t # "hotplug" /\ "scanner" \in Threads /\ "hotplug" \in Threads
  BY Names
<1>0. /\ t \in Threads /\ t # "hotplug" /\ "scanner" \in Threads /\ "hotplug" \in Threads
      /\ NewAt(t) /\ NoneAt
  BY <1>00, NewAtStep
<1>1. Locks'
  BY <1>0, HeldTypes, Names DEF NewAt, NoneAt, Held, Locks, Holding, Moves, ApplyTakenEffect
<1>2. Private'
  BY <1>0, HeldTypes, Names DEF NewAt, NoneAt, Held, Private, Moves, ApplyTakenEffect
<1>3. Owned'
  BY <1>0, HeldTypes, Names DEF NewAt, NoneAt, Held, Owned, Moves, Present, Stopping, ApplyTakenEffect
<1>4. Runs'
  BY <1>0, HeldTypes, Names DEF NewAt, NoneAt, Held, Runs, Moves, Running, Stopping, ApplyTakenEffect
<1>5. Sweeps'
  BY <1>0, HeldTypes, Names DEF NewAt, NoneAt, Held, Sweeps, Moves, Present, ApplyTakenEffect
<1>6. Unpinned'
  BY <1>0, HeldTypes, Names DEF NewAt, NoneAt, Held, Unpinned, Moves, Guards, RatePinned, Kept, Present, Running, ApplyTakenEffect
<1>. QED BY <1>1, <1>2, <1>3, <1>4, <1>5, <1>6 DEF Held

LEMMA ApplyIdleHeld ==
  ASSUME Shaped, Shaped', Held, NEW t \in Clients \cup {"scanner"}, ApplyIdleEffect(t)
  PROVE Held'
<1>00. t \in Threads /\ t # "hotplug" /\ "scanner" \in Threads /\ "hotplug" \in Threads
  BY Names
<1>0. /\ t \in Threads /\ t # "hotplug" /\ "scanner" \in Threads /\ "hotplug" \in Threads
      /\ NewAt(t) /\ NoneAt
  BY <1>00, NewAtStep
<1>1. Locks'
  BY <1>0, HeldTypes, Names DEF NewAt, NoneAt, Held, Locks, Holding, Moves, ApplyIdleEffect
<1>2. Private'
  BY <1>0, HeldTypes, Names DEF NewAt, NoneAt, Held, Private, Moves, ApplyIdleEffect
<1>3. Owned'
  BY <1>0, HeldTypes, Names DEF NewAt, NoneAt, Held, Owned, Moves, Present, Stopping, ApplyIdleEffect
<1>4. Runs'
  BY <1>0, HeldTypes, Names DEF NewAt, NoneAt, Held, Runs, Moves, Running, Stopping, ApplyIdleEffect
<1>5. Sweeps'
  <2>1. scan'.inSweep = scan.inSweep /\ scan'.ending = scan.ending
    BY DEF ApplyIdleEffect
  <2>2. SweptNow' => SweptNow /\ set'.rt = set.rt
    BY <1>0, Names, ShapedParts, SetGone DEF SweptNow, Present, ApplyIdleEffect
  <2>3. \A o \in Threads : loc'[o].new # None =>
          \/ ~rts'[loc'[o].new].sweeping
          \/ /\ loc'[o].new = loc[o].new /\ loc'[o].ser = loc[o].ser
             /\ rts'[loc[o].new].sweeping = rts[loc[o].new].sweeping
    BY <1>0, HeldTypes, Names DEF NoneAt, Moves, ApplyIdleEffect
  <2>4. ScannerKeeps
    BY <1>0, Names, ShapeOf DEF ScannerKeeps, NoneAt, Moves, SweptNow, Resumes, Patched, Stopping, ApplyIdleEffect
  <2>. QED BY <1>0, <2>1, <2>2, <2>3, <2>4, SweepsNext DEF Held
<1>6. Unpinned'
  BY <1>0, HeldTypes, Names DEF NewAt, NoneAt, Held, Unpinned, Moves, Guards, RatePinned, Kept, Present, Running, ApplyIdleEffect
<1>. QED BY <1>1, <1>2, <1>3, <1>4, <1>5, <1>6 DEF Held

LEMMA WriteBackRevertsHeld ==
  ASSUME Shaped, Shaped', Held, NEW t \in Clients \cup {"scanner"}, WriteBackRevertsEffect(t)
  PROVE Held'
<1>00. t \in Threads /\ t # "hotplug" /\ "scanner" \in Threads /\ "hotplug" \in Threads
  BY Names
<1>0. /\ t \in Threads /\ t # "hotplug" /\ "scanner" \in Threads /\ "hotplug" \in Threads
      /\ NewAt(t) /\ NoneAt
  BY <1>00, NewAtStep
<1>1. Locks'
  BY <1>0, HeldTypes, Names DEF NewAt, NoneAt, Held, Locks, Holding, Moves, WriteBackRevertsEffect
<1>2. Private'
  BY <1>0, HeldTypes, Names DEF NewAt, NoneAt, Held, Private, Moves, WriteBackRevertsEffect
<1>3. Owned'
  BY <1>0, HeldTypes, Names DEF NewAt, NoneAt, Held, Owned, Moves, Present, Stopping, WriteBackRevertsEffect
<1>4. Runs'
  BY <1>0, HeldTypes, Names DEF NewAt, NoneAt, Held, Runs, Moves, Running, Stopping, WriteBackRevertsEffect
<1>5. Sweeps'
  <2>1. scan'.inSweep = scan.inSweep /\ scan'.ending = scan.ending
    BY DEF WriteBackRevertsEffect
  <2>2. SweptNow' => SweptNow /\ set'.rt = set.rt
    BY <1>0, Names, ShapedParts, SetGone DEF SweptNow, Present, WriteBackRevertsEffect
  <2>3. \A o \in Threads : loc'[o].new # None =>
          \/ ~rts'[loc'[o].new].sweeping
          \/ /\ loc'[o].new = loc[o].new /\ loc'[o].ser = loc[o].ser
             /\ rts'[loc[o].new].sweeping = rts[loc[o].new].sweeping
    BY <1>0, HeldTypes, Names DEF NoneAt, Moves, WriteBackRevertsEffect
  <2>4. ScannerKeeps
    BY <1>0, Names, ShapeOf DEF ScannerKeeps, NoneAt, Moves, SweptNow, Resumes, Patched, Stopping, WriteBackRevertsEffect
  <2>. QED BY <1>0, <2>1, <2>2, <2>3, <2>4, SweepsNext DEF Held
<1>6. Unpinned'
  BY <1>0, HeldTypes, Names DEF NewAt, NoneAt, Held, Unpinned, Moves, Guards, RatePinned, Kept, Present, Running, WriteBackRevertsEffect
<1>. QED BY <1>1, <1>2, <1>3, <1>4, <1>5, <1>6 DEF Held

LEMMA WriteBackRelanesHeld ==
  ASSUME Shaped, Shaped', Held, NEW t \in Clients \cup {"scanner"}, WriteBackRelanesEffect(t)
  PROVE Held'
<1>00. t \in Threads /\ t # "hotplug" /\ "scanner" \in Threads /\ "hotplug" \in Threads
  BY Names
<1>0. /\ t \in Threads /\ t # "hotplug" /\ "scanner" \in Threads /\ "hotplug" \in Threads
      /\ NewAt(t) /\ NoneAt
  BY <1>00, NewAtStep
<1>1. Locks'
  BY <1>0, HeldTypes, Names DEF NewAt, NoneAt, Held, Locks, Holding, Moves, WriteBackRelanesEffect
<1>2. Private'
  BY <1>0, HeldTypes, Names DEF NewAt, NoneAt, Held, Private, Moves, WriteBackRelanesEffect
<1>3. Owned'
  <2>1. handle' = handle /\ (pc'["scanner"] = "restore" <=> pc["scanner"] = "restore")
    BY <1>0, Names, ShapeOf DEF Resumes, Resting, Patched, Moves, WriteBackRelanesEffect
  <2>2. handle \in Runtimes => rts'[handle].meta # {}
    <3>1. handle \in Runtimes => rts[handle].meta # {}
      BY DEF Held, Owned
    <3>. QED BY <3>1 DEF WriteBackRelanesEffect
  <2>3. handle \in Runtimes /\ Present /\ set.rt = handle =>
          \/ Present' /\ set'.rt = handle
          \/ ~Present' /\ \E o \in Threads : pc'[o] \in Stopping /\ loc'[o].rt = handle
    BY <1>0 DEF Held, Private, Present, WriteBackRelanesEffect
  <2>4. \A o \in Threads : handle \in Runtimes /\ loc[o].new = handle =>
          loc'[o].new = handle \/ (Present' /\ set'.rt = handle)
    BY <1>0, Names DEF NewAt, NoneAt, Patched, Moves, Present, WriteBackRelanesEffect
  <2>5. \A o \in Threads : handle \in Runtimes /\ ~Present /\ pc[o] \in Stopping /\ loc[o].rt = handle
          => ~Present' /\ pc'[o] \in Stopping /\ loc'[o].rt = handle
    BY <1>0, Names DEF Stopping, Patched, Resting, Moves, Present, WriteBackRelanesEffect
  <2>. QED BY <2>1, <2>2, <2>3, <2>4, <2>5, OwnedNext DEF Held
<1>4. Runs'
  BY <1>0, HeldTypes, Names DEF NewAt, NoneAt, Held, Runs, Moves, Running, Stopping, WriteBackRelanesEffect
<1>5. Sweeps'
  <2>1. scan'.inSweep = scan.inSweep /\ scan'.ending = scan.ending
    BY DEF WriteBackRelanesEffect
  <2>2. SweptNow' => SweptNow /\ set'.rt = set.rt
    BY <1>0, Names, ShapedParts, SetGone DEF SweptNow, Present, WriteBackRelanesEffect
  <2>3. \A o \in Threads : loc'[o].new # None =>
          \/ ~rts'[loc'[o].new].sweeping
          \/ /\ loc'[o].new = loc[o].new /\ loc'[o].ser = loc[o].ser
             /\ rts'[loc[o].new].sweeping = rts[loc[o].new].sweeping
    BY <1>0, HeldTypes, Names DEF NoneAt, Moves, WriteBackRelanesEffect
  <2>4. ScannerKeeps
    BY <1>0, Names, ShapeOf DEF ScannerKeeps, NoneAt, Moves, SweptNow, Resumes, Patched, Stopping, WriteBackRelanesEffect
  <2>. QED BY <1>0, <2>1, <2>2, <2>3, <2>4, SweepsNext DEF Held
<1>6. Unpinned'
  BY <1>0, HeldTypes, Names DEF NewAt, NoneAt, Held, Unpinned, Moves, Guards, RatePinned, Kept, Present, Running, WriteBackRelanesEffect
<1>. QED BY <1>1, <1>2, <1>3, <1>4, <1>5, <1>6 DEF Held

LEMMA RestartLanesHeld ==
  ASSUME Shaped, Shaped', Held, NEW t \in Clients \cup {"scanner"}, RestartLanesEffect(t)
  PROVE Held'
<1>00. t \in Threads /\ t # "hotplug" /\ "scanner" \in Threads /\ "hotplug" \in Threads
  BY Names
<1>0. /\ t \in Threads /\ t # "hotplug" /\ "scanner" \in Threads /\ "hotplug" \in Threads
      /\ NewAt(t) /\ NoneAt
  BY <1>00, NewAtStep
<1>1. Locks'
  BY <1>0, HeldTypes, Names DEF NewAt, NoneAt, Held, Locks, Holding, Moves, RestartLanesEffect
<1>2. Private'
  BY <1>0, HeldTypes, Names DEF NewAt, NoneAt, Held, Private, Moves, RestartLanesEffect
<1>3. Owned'
  BY <1>0, HeldTypes, Names DEF NewAt, NoneAt, Held, Owned, Moves, Present, Stopping, RestartLanesEffect
<1>4. Runs'
  BY <1>0, HeldTypes, Names DEF NewAt, NoneAt, Held, Runs, Moves, Running, Stopping, RestartLanesEffect
<1>5. Sweeps'
  BY <1>0, HeldTypes, Names DEF NewAt, NoneAt, Held, Sweeps, Moves, Present, RestartLanesEffect
<1>6. Unpinned'
  BY <1>0, HeldTypes, Names DEF NewAt, NoneAt, Held, Unpinned, Moves, Guards, RatePinned, Kept, Present, Running, RestartLanesEffect
<1>. QED BY <1>1, <1>2, <1>3, <1>4, <1>5, <1>6 DEF Held

LEMMA RestartLanesGoneHeld ==
  ASSUME Shaped, Shaped', Held, NEW t \in Clients \cup {"scanner"}, RestartLanesGoneEffect(t)
  PROVE Held'
<1>00. t \in Threads /\ t # "hotplug" /\ "scanner" \in Threads /\ "hotplug" \in Threads
  BY Names
<1>0. /\ t \in Threads /\ t # "hotplug" /\ "scanner" \in Threads /\ "hotplug" \in Threads
      /\ NewAt(t) /\ NoneAt
  BY <1>00, NewAtStep
<1>1. Locks'
  BY <1>0, HeldTypes, Names DEF NewAt, NoneAt, Held, Locks, Holding, Moves, RestartLanesGoneEffect
<1>2. Private'
  BY <1>0, HeldTypes, Names DEF NewAt, NoneAt, Held, Private, Moves, RestartLanesGoneEffect
<1>3. Owned'
  BY <1>0, HeldTypes, Names DEF NewAt, NoneAt, Held, Owned, Moves, Present, Stopping, RestartLanesGoneEffect
<1>4. Runs'
  BY <1>0, HeldTypes, Names DEF NewAt, NoneAt, Held, Runs, Moves, Running, Stopping, RestartLanesGoneEffect
<1>5. Sweeps'
  BY <1>0, HeldTypes, Names DEF NewAt, NoneAt, Held, Sweeps, Moves, Present, RestartLanesGoneEffect
<1>6. Unpinned'
  BY <1>0, HeldTypes, Names DEF NewAt, NoneAt, Held, Unpinned, Moves, Guards, RatePinned, Kept, Present, Running, RestartLanesGoneEffect
<1>. QED BY <1>1, <1>2, <1>3, <1>4, <1>5, <1>6 DEF Held

LEMMA StartLanesHeld ==
  ASSUME Shaped, Shaped', Held, NEW t \in Clients \cup {"scanner"}, NEW r \in Runtimes, StartLanesEffect(t, r)
  PROVE Held'
<1>00. t \in Threads /\ t # "hotplug" /\ "scanner" \in Threads /\ "hotplug" \in Threads
  BY Names
<1>0. /\ t \in Threads /\ t # "hotplug" /\ "scanner" \in Threads /\ "hotplug" \in Threads
      /\ NewAt(t) /\ NoneAt
  BY <1>00, NewAtStep
<1>1. Locks'
  BY <1>0, HeldTypes, Names DEF NewAt, NoneAt, Held, Locks, Holding, Moves, StartLanesEffect, Starts, Halts, Stays, Fresh, Referenced
<1>2. Private'
  <2>1. \A o \in Threads : loc[o].new = None
    BY <1>0, HeldTypes, Names DEF Held, Private, Owned, StartLanesEffect, Starts, Halts, Stays, Fresh, Referenced
  <2>2. \A o \in Threads : o # t => loc'[o] = loc[o]
    BY <1>0 DEF Moves, StartLanesEffect, Starts, Halts, Stays, Fresh, Referenced
  <2>. QED BY <1>0, <2>1, <2>2, PrivateFresh DEF NoneAt, StartLanesEffect
<1>3. Owned'
  BY <1>0, HeldTypes, Names DEF NewAt, NoneAt, Held, Owned, Moves, Present, Stopping, StartLanesEffect, Starts, Halts, Stays, Fresh, Referenced
<1>4. Runs'
  BY <1>0, HeldTypes, Names DEF NewAt, NoneAt, Held, Runs, Moves, Running, Stopping, StartLanesEffect, Starts, Halts, Stays, Fresh, Referenced
<1>5. Sweeps'
  BY <1>0, HeldTypes, Names DEF NewAt, NoneAt, Held, Sweeps, Moves, Present, StartLanesEffect, Starts, Halts, Stays, Fresh, Referenced
<1>6. Unpinned'
  BY <1>0, HeldTypes, Names DEF NewAt, NoneAt, Held, Unpinned, Moves, Guards, RatePinned, Kept, Present, Running, StartLanesEffect, Starts, Halts, Stays, Fresh, Referenced
<1>. QED BY <1>1, <1>2, <1>3, <1>4, <1>5, <1>6 DEF Held

LEMMA StartLanesFailsHeld ==
  ASSUME Shaped, Shaped', Held, NEW t \in Clients \cup {"scanner"}, StartLanesFailsEffect(t)
  PROVE Held'
<1>00. t \in Threads /\ t # "hotplug" /\ "scanner" \in Threads /\ "hotplug" \in Threads
  BY Names
<1>0. /\ t \in Threads /\ t # "hotplug" /\ "scanner" \in Threads /\ "hotplug" \in Threads
      /\ NewAt(t) /\ NoneAt
  BY <1>00, NewAtStep
<1>1. Locks'
  BY <1>0, HeldTypes, Names DEF NewAt, NoneAt, Held, Locks, Holding, Moves, StartLanesFailsEffect, Halts, Stays
<1>2. Private'
  BY <1>0, HeldTypes, Names DEF NewAt, NoneAt, Held, Private, Moves, StartLanesFailsEffect, Halts, Stays
<1>3. Owned'
  BY <1>0, HeldTypes, Names DEF NewAt, NoneAt, Held, Owned, Moves, Present, Stopping, StartLanesFailsEffect, Halts, Stays
<1>4. Runs'
  BY <1>0, HeldTypes, Names DEF NewAt, NoneAt, Held, Runs, Moves, Running, Stopping, StartLanesFailsEffect, Halts, Stays
<1>5. Sweeps'
  <2>1. scan'.inSweep = scan.inSweep /\ scan'.ending = scan.ending
    BY DEF StartLanesFailsEffect, Halts, Stays
  <2>2. SweptNow' => SweptNow /\ set'.rt = set.rt
    BY <1>0, Names, ShapedParts, SetGone DEF SweptNow, Present, StartLanesFailsEffect, Halts, Stays
  <2>3. \A o \in Threads : loc'[o].new # None =>
          \/ ~rts'[loc'[o].new].sweeping
          \/ /\ loc'[o].new = loc[o].new /\ loc'[o].ser = loc[o].ser
             /\ rts'[loc[o].new].sweeping = rts[loc[o].new].sweeping
    BY <1>0, HeldTypes, Names DEF NoneAt, Moves, StartLanesFailsEffect, Halts, Stays
  <2>4. ScannerKeeps
    BY <1>0, Names, ShapeOf DEF ScannerKeeps, NoneAt, Moves, SweptNow, Resumes, Patched, Stopping, StartLanesFailsEffect, Halts, Stays
  <2>. QED BY <1>0, <2>1, <2>2, <2>3, <2>4, SweepsNext DEF Held
<1>6. Unpinned'
  BY <1>0, HeldTypes, Names DEF NewAt, NoneAt, Held, Unpinned, Moves, Guards, RatePinned, Kept, Present, Running, StartLanesFailsEffect, Halts, Stays
<1>. QED BY <1>1, <1>2, <1>3, <1>4, <1>5, <1>6 DEF Held

LEMMA SwapLanesHeld ==
  ASSUME Shaped, Shaped', Held, NEW t \in Clients \cup {"scanner"}, Present, SwapLanesEffect(t)
  PROVE Held'
<1>00. t \in Threads /\ t # "hotplug" /\ "scanner" \in Threads /\ "hotplug" \in Threads
  BY Names
<1>0. /\ t \in Threads /\ t # "hotplug" /\ "scanner" \in Threads /\ "hotplug" \in Threads
      /\ NewAt(t) /\ NoneAt
  BY <1>00, NewAtStep
<1>1. Locks'
  <2>1. \A o \in Threads : o # t => (Holding(o)' <=> Holding(o)) /\ loc'[o].ser = loc[o].ser
    BY <1>0 DEF NoneAt, Holding, Moves, SwapLanesEffect, Stays, Unused
  <2>2. \A r \in Runtimes :
          \/ rts'[r].patching = rts[r].patching /\ rts'[r].sweeping = rts[r].sweeping
          \/ rts'[r].patching = "free" /\ \A o \in Threads : o # t /\ Holding(o) => loc[o].ser # r
    BY <1>0, HeldTypes, Names DEF Held, Locks, Holding, SwapLanesEffect, Stays, Unused
  <2>3. \/ /\ Holding(t)' <=> Holding(t)
           /\ loc'[t].ser = loc[t].ser
           /\ Holding(t) => rts'[loc[t].ser].patching = t /\ ~rts'[loc[t].ser].sweeping
        \/ /\ ~Holding(t)'
           /\ Holding(t) => rts'[loc[t].ser].patching = "free"
    BY <1>0, HeldTypes, Names DEF NoneAt, Stopping, Held, Locks, Holding, Moves, SwapLanesEffect, Stays, Unused
  <2>. QED BY <1>0, <2>1, <2>2, <2>3, LocksNext DEF Held
<1>2. Private'
  BY <1>0, HeldTypes, Names DEF NewAt, NoneAt, Held, Private, Moves, SwapLanesEffect, Stays, Unused
<1>3. Owned'
  <2>1. handle' = handle /\ (pc'["scanner"] = "restore" <=> pc["scanner"] = "restore")
    BY <1>0, Names, ShapeOf DEF Resumes, Resting, Patched, Moves, SwapLanesEffect, Stays, Unused
  <2>2. handle \in Runtimes => rts'[handle].meta # {}
    <3>1. handle \in Runtimes => rts[handle].meta # {}
      BY DEF Held, Owned
    <3>2. handle = loc[t].new /\ loc[t].new # set.rt /\ loc[t].ser # loc[t].new
      BY <1>0 DEF NewAt, Held, Private, SwapLanesEffect, Stays, Unused
    <3>. QED BY <3>1, <3>2 DEF SwapLanesEffect, Stays, Unused
  <2>3. handle \in Runtimes /\ Present /\ set.rt = handle =>
          \/ Present' /\ set'.rt = handle
          \/ ~Present' /\ \E o \in Threads : pc'[o] \in Stopping /\ loc'[o].rt = handle
    BY <1>0 DEF NewAt, Held, Private, Present, SwapLanesEffect, Stays, Unused
  <2>4. \A o \in Threads : handle \in Runtimes /\ loc[o].new = handle =>
          loc'[o].new = handle \/ (Present' /\ set'.rt = handle)
    BY <1>0, Names DEF NewAt, NoneAt, Patched, Moves, Present, SwapLanesEffect, Stays, Unused
  <2>5. \A o \in Threads : handle \in Runtimes /\ ~Present /\ pc[o] \in Stopping /\ loc[o].rt = handle
          => ~Present' /\ pc'[o] \in Stopping /\ loc'[o].rt = handle
    BY <1>0, Names DEF Stopping, Patched, Resting, Moves, Present, SwapLanesEffect, Stays, Unused
  <2>. QED BY <2>1, <2>2, <2>3, <2>4, <2>5, OwnedNext DEF Held
<1>4. Runs'
  <2>1. lost' = lost /\ handle' = handle /\ pc'["hotplug"] = pc["hotplug"]
    BY <1>0, Names DEF Moves, SwapLanesEffect, Stays, Unused
  <2>2. Running' => Running
    BY DEF Running, SwapLanesEffect, Stays, Unused
  <2>3. Running' => \A o \in Threads : pc'[o] \in Stopping /\ loc'[o].rt # None => loc'[o].rt # set'.rt
    BY <1>0, Names DEF NoneAt, Stopping, Moves, Running, Held, Runs, Private, SwapLanesEffect, Stays, Unused
  <2>4. Running' => set'.rt = set.rt \/ set'.rt = handle
    BY <1>0 DEF NewAt, Held, Private, SwapLanesEffect, Stays, Unused
  <2>5. Running' => \A o \in Threads : pc[o] = "mark" => pc'[o] = "mark"
    BY <1>0 DEF Moves, Present, Running, SwapLanesEffect, Stays, Unused
  <2>6. Running' => \A o \in Threads : loc[o].new # None => loc'[o].new # None \/ handle = set'.rt
    BY <1>0, Names DEF NewAt, Patched, Moves, Held, Private, SwapLanesEffect, Stays, Unused
  <2>. QED BY <2>1, <2>2, <2>3, <2>4, <2>5, <2>6, RunsNext DEF Held
<1>5. Sweeps'
  <2>1. scan'.inSweep = scan.inSweep /\ scan'.ending = scan.ending
    BY DEF SwapLanesEffect, Stays, Unused
  <2>2. SweptNow' => SweptNow /\ set'.rt = set.rt
    <3>1. loc[t].new # None /\ handle = loc[t].new /\ loc[t].new # set.rt /\ loc[t].ser # loc[t].new
      BY <1>0 DEF NewAt, Held, Private, SwapLanesEffect, Stays, Unused
    <3>2. ~rts[loc[t].new].sweeping
      BY <1>0, <3>1, Names DEF Held, Sweeps, SwapLanesEffect, Stays, Unused
    <3>3. ~rts'[set'.rt].sweeping
      BY <3>1, <3>2 DEF SwapLanesEffect, Stays, Unused
    <3>. QED BY <3>3 DEF SweptNow
  <2>3. \A o \in Threads : loc'[o].new # None =>
          \/ ~rts'[loc'[o].new].sweeping
          \/ /\ loc'[o].new = loc[o].new /\ loc'[o].ser = loc[o].ser
             /\ rts'[loc[o].new].sweeping = rts[loc[o].new].sweeping
    BY <1>0, HeldTypes, Names DEF NoneAt, Moves, SwapLanesEffect, Stays, Unused
  <2>4. ScannerKeeps
    BY <1>0, Names, ShapeOf DEF ScannerKeeps, NoneAt, Moves, SweptNow, Resumes, Patched, Stopping, SwapLanesEffect, Stays, Unused
  <2>. QED BY <1>0, <2>1, <2>2, <2>3, <2>4, SweepsNext DEF Held
<1>6. Unpinned'
  BY <1>0, HeldTypes, Names DEF NewAt, NoneAt, Held, Unpinned, Moves, Guards, RatePinned, Kept, Present, Running, SwapLanesEffect, Stays, Unused
<1>. QED BY <1>1, <1>2, <1>3, <1>4, <1>5, <1>6 DEF Held

LEMMA SwapLanesGoneHeld ==
  ASSUME Shaped, Shaped', Held, NEW t \in Clients \cup {"scanner"}, ~Present, SwapLanesGoneEffect(t)
  PROVE Held'
<1>00. t \in Threads /\ t # "hotplug" /\ "scanner" \in Threads /\ "hotplug" \in Threads
  BY Names
<1>0. /\ t \in Threads /\ t # "hotplug" /\ "scanner" \in Threads /\ "hotplug" \in Threads
      /\ NewAt(t) /\ NoneAt
  BY <1>00, NewAtStep
<1>1. Locks'
  BY <1>0, HeldTypes, Names DEF NewAt, NoneAt, Held, Locks, Holding, Moves, SwapLanesGoneEffect, Halts, Stays
<1>2. Private'
  BY <1>0, HeldTypes, Names DEF NewAt, NoneAt, Held, Private, Moves, SwapLanesGoneEffect, Halts, Stays
<1>3. Owned'
  <2>1. handle = loc[t].new /\ loc[t].new # None
    BY <1>0 DEF NewAt, Held, Private, SwapLanesGoneEffect, Halts, Stays
  <2>2. pc'["scanner"] # "restore"
    BY <1>0, <2>1, Names DEF Held, Owned, Moves, SwapLanesGoneEffect, Halts, Stays
  <2>. QED BY <2>2, OwnedClosed DEF SwapLanesGoneEffect, Halts, Stays
<1>4. Runs'
  BY <1>0, HeldTypes, Names DEF NewAt, NoneAt, Held, Runs, Moves, Running, Stopping, SwapLanesGoneEffect, Halts, Stays
<1>5. Sweeps'
  BY <1>0, HeldTypes, Names DEF NewAt, NoneAt, Held, Sweeps, Moves, Present, SwapLanesGoneEffect, Halts, Stays
<1>6. Unpinned'
  BY <1>0, HeldTypes, Names DEF NewAt, NoneAt, Held, Unpinned, Moves, Guards, RatePinned, Kept, Present, Running, SwapLanesGoneEffect, Halts, Stays
<1>. QED BY <1>1, <1>2, <1>3, <1>4, <1>5, <1>6 DEF Held

LEMMA PatchEndsHeld ==
  ASSUME Shaped, Shaped', Held, NEW t \in Clients \cup {"scanner"}, PatchEnds(t), pc[t] = "mark" => ~Present,
         pc[t] = "wait" => rts[loc[t].ser].patching = "free"
  PROVE Held'
<1>00. t \in Threads /\ t # "hotplug" /\ "scanner" \in Threads /\ "hotplug" \in Threads
  BY Names
<1>0. /\ t \in Threads /\ t # "hotplug" /\ "scanner" \in Threads /\ "hotplug" \in Threads
      /\ NewAt(t) /\ NoneAt
  BY <1>00, NewAtStep
<1>1. Locks'
  BY <1>0, HeldTypes, Names DEF NewAt, NoneAt, Held, Locks, Holding, Moves, PatchEnds, OnlyFor
<1>2. Private'
  BY <1>0, HeldTypes, Names DEF NewAt, NoneAt, Held, Private, Moves, PatchEnds, OnlyFor
<1>3. Owned'
  <2>1. handle' = handle /\ (pc'["scanner"] = "restore" <=> pc["scanner"] = "restore")
    BY <1>0, Names, ShapeOf DEF Resumes, Resting, Patched, Moves, PatchEnds, OnlyFor
  <2>2. handle \in Runtimes => rts'[handle].meta # {}
    BY <1>0, Names, HeldTypes DEF Held, Owned, PatchEnds, OnlyFor
  <2>3. handle \in Runtimes /\ Present /\ set.rt = handle =>
          \/ Present' /\ set'.rt = handle
          \/ ~Present' /\ \E o \in Threads : pc'[o] \in Stopping /\ loc'[o].rt = handle
    BY <1>0 DEF Held, Private, Present, PatchEnds, OnlyFor
  <2>4. \A o \in Threads : handle \in Runtimes /\ loc[o].new = handle =>
          loc'[o].new = handle \/ (Present' /\ set'.rt = handle)
    BY <1>0, Names DEF NewAt, NoneAt, Patched, Moves, Present, PatchEnds, OnlyFor
  <2>5. \A o \in Threads : handle \in Runtimes /\ ~Present /\ pc[o] \in Stopping /\ loc[o].rt = handle
          => ~Present' /\ pc'[o] \in Stopping /\ loc'[o].rt = handle
    BY <1>0, Names DEF Stopping, Patched, Resting, Moves, Present, PatchEnds, OnlyFor
  <2>. QED BY <2>1, <2>2, <2>3, <2>4, <2>5, OwnedNext DEF Held
<1>4. Runs'
  <2>1. lost' = lost /\ handle' = handle /\ pc'["hotplug"] = pc["hotplug"]
    BY <1>0, Names DEF Moves, PatchEnds, OnlyFor
  <2>2. Running' => Running
    BY DEF Running, PatchEnds, OnlyFor
  <2>3. Running' => \A o \in Threads : pc'[o] \in Stopping /\ loc'[o].rt # None => loc'[o].rt # set'.rt
    BY <1>0, Names DEF NoneAt, Stopping, Moves, Running, Held, Runs, Private, PatchEnds, OnlyFor
  <2>4. Running' => set'.rt = set.rt \/ set'.rt = handle
    BY <1>0 DEF NewAt, Held, Private, PatchEnds, OnlyFor
  <2>5. Running' => \A o \in Threads : pc[o] = "mark" => pc'[o] = "mark"
    BY <1>0 DEF Moves, Present, Running, PatchEnds, OnlyFor
  <2>6. Running' => \A o \in Threads : loc[o].new # None => loc'[o].new # None \/ handle = set'.rt
    BY <1>0, Names DEF NewAt, Patched, Moves, Held, Private, PatchEnds, OnlyFor
  <2>. QED BY <2>1, <2>2, <2>3, <2>4, <2>5, <2>6, RunsNext DEF Held
<1>5. Sweeps'
  <2>1. scan'.inSweep = scan.inSweep /\ scan'.ending = scan.ending
    BY DEF PatchEnds, OnlyFor
  <2>2. SweptNow' => SweptNow /\ set'.rt = set.rt
    BY <1>0, Names, ShapedParts, SetGone DEF SweptNow, Present, PatchEnds, OnlyFor
  <2>3. \A o \in Threads : loc'[o].new # None =>
          \/ ~rts'[loc'[o].new].sweeping
          \/ /\ loc'[o].new = loc[o].new /\ loc'[o].ser = loc[o].ser
             /\ rts'[loc[o].new].sweeping = rts[loc[o].new].sweeping
    BY <1>0, HeldTypes, Names DEF NoneAt, Moves, PatchEnds, OnlyFor
  <2>4. ScannerKeeps
    BY <1>0, Names, ShapeOf DEF ScannerKeeps, NoneAt, Moves, SweptNow, Resumes, Patched, Stopping, PatchEnds, OnlyFor
  <2>. QED BY <1>0, <2>1, <2>2, <2>3, <2>4, SweepsNext DEF Held
<1>6. Unpinned'
  BY <1>0, HeldTypes, Names DEF NewAt, NoneAt, Held, Unpinned, Moves, Guards, RatePinned, Kept, Present, Running, PatchEnds, OnlyFor
<1>. QED BY <1>1, <1>2, <1>3, <1>4, <1>5, <1>6 DEF Held

LEMMA FailHeld ==
  ASSUME Shaped, Shaped', Held, NEW t \in Threads \ {"hotplug"}, FailEffect(t),
         pc[t] = "mark" \/ (t = "drainer" /\ pc[t] = "idle")
  PROVE Held'
<1>00. t \in Threads /\ t # "hotplug" /\ "scanner" \in Threads /\ "hotplug" \in Threads
  BY Names
<1>0. /\ t \in Threads /\ t # "hotplug" /\ "scanner" \in Threads /\ "hotplug" \in Threads
      /\ NewAt(t) /\ NoneAt
  BY <1>00, NewAtStep
<1>1. Locks'
  <2>1. \A o \in Threads : o # t => (Holding(o)' <=> Holding(o)) /\ loc'[o].ser = loc[o].ser
    BY <1>0 DEF NoneAt, Holding, Moves, FailEffect
  <2>2. \A r \in Runtimes :
          \/ rts'[r].patching = rts[r].patching /\ rts'[r].sweeping = rts[r].sweeping
          \/ rts'[r].patching = "free" /\ \A o \in Threads : o # t /\ Holding(o) => loc[o].ser # r
    BY <1>0, HeldTypes, Names DEF Held, Locks, Holding, FailEffect
  <2>3. \/ /\ Holding(t)' <=> Holding(t)
           /\ loc'[t].ser = loc[t].ser
           /\ Holding(t) => rts'[loc[t].ser].patching = t /\ ~rts'[loc[t].ser].sweeping
        \/ /\ ~Holding(t)'
           /\ Holding(t) => rts'[loc[t].ser].patching = "free"
    BY <1>0, HeldTypes, Names DEF NoneAt, Stopping, Held, Locks, Holding, Moves, FailEffect
  <2>. QED BY <1>0, <2>1, <2>2, <2>3, LocksNext DEF Held
<1>2. Private'
  BY <1>0, HeldTypes, Names DEF NewAt, NoneAt, Held, Private, Moves, FailEffect
<1>3. Owned'
  BY <1>0, HeldTypes, Names DEF NewAt, NoneAt, Held, Owned, Moves, Present, Stopping, FailEffect
<1>4. Runs'
  BY <1>0, HeldTypes, Names DEF NewAt, NoneAt, Held, Runs, Moves, Running, Stopping, FailEffect
<1>5. Sweeps'
  <2>1. scan'.inSweep = scan.inSweep /\ scan'.ending = scan.ending
    BY DEF FailEffect
  <2>2. SweptNow' => SweptNow /\ set'.rt = set.rt
    BY <1>0, Names, ShapedParts, SetGone DEF SweptNow, Present, FailEffect
  <2>3. \A o \in Threads : loc'[o].new # None =>
          \/ ~rts'[loc'[o].new].sweeping
          \/ /\ loc'[o].new = loc[o].new /\ loc'[o].ser = loc[o].ser
             /\ rts'[loc[o].new].sweeping = rts[loc[o].new].sweeping
    BY <1>0, HeldTypes, Names DEF NoneAt, Moves, FailEffect
  <2>4. ScannerKeeps
    BY <1>0, Names, ShapeOf DEF ScannerKeeps, NoneAt, Moves, SweptNow, Resumes, Patched, Stopping, FailEffect
  <2>. QED BY <1>0, <2>1, <2>2, <2>3, <2>4, SweepsNext DEF Held
<1>6. Unpinned'
  BY <1>0, SetGone DEF Held, Unpinned, RatePinned, Kept, FailEffect
<1>. QED BY <1>1, <1>2, <1>3, <1>4, <1>5, <1>6 DEF Held

LEMMA JoinedHeld ==
  ASSUME Shaped, Shaped', Held, NEW t \in Threads \ {"hotplug"}, JoinedEffect(t)
  PROVE Held'
<1>00. t \in Threads /\ t # "hotplug" /\ "scanner" \in Threads /\ "hotplug" \in Threads
  BY Names
<1>0. /\ t \in Threads /\ t # "hotplug" /\ "scanner" \in Threads /\ "hotplug" \in Threads
      /\ NewAt(t) /\ NoneAt
  BY <1>00, NewAtStep
<1>1. Locks'
  BY <1>0, HeldTypes, Names DEF NewAt, NoneAt, Held, Locks, Holding, Moves, JoinedEffect
<1>2. Private'
  BY <1>0, HeldTypes, Names DEF NewAt, NoneAt, Held, Private, Moves, JoinedEffect
<1>3. Owned'
  BY <1>0, HeldTypes, Names DEF NewAt, NoneAt, Held, Owned, Moves, Present, Stopping, JoinedEffect
<1>4. Runs'
  BY <1>0, HeldTypes, Names DEF NewAt, NoneAt, Held, Runs, Moves, Running, Stopping, JoinedEffect
<1>5. Sweeps'
  <2>1. (pc["scanner"] = "leave" => scan.inSweep)'
    BY <1>0 DEF Held, Sweeps, Idle, JoinedEffect
  <2>2. (pc["scanner"] \in {"off", "loop"} => ~scan.ending)'
    BY <1>0 DEF Held, Sweeps, Idle, JoinedEffect
  <2>3. (pc["scanner"] \in {"take", "restore", "swap"} /\ loc["scanner"].ser = None =>
         scan.inSweep \/ ~scan.ending)'
    BY <1>0 DEF Held, Sweeps, Idle, JoinedEffect
  <2>4. (\A o \in Threads : loc[o].new # None /\ rts[loc[o].new].sweeping =>
          o = "scanner" /\ loc[o].ser = None /\ ~scan.inSweep)'
    BY <1>0, HeldTypes DEF NoneAt, Held, Sweeps, Idle, JoinedEffect
  <2>5. ~SweptNow'
    BY <1>0 DEF SweptNow, Present, Held, Sweeps, JoinedEffect
  <2>. QED BY <2>1, <2>2, <2>3, <2>4, <2>5 DEF Sweeps, SweptNow
<1>6. Unpinned'
  BY <1>0, HeldTypes, Names DEF NewAt, NoneAt, Held, Unpinned, Moves, Guards, RatePinned, Kept, Present, Running, JoinedEffect
<1>. QED BY <1>1, <1>2, <1>3, <1>4, <1>5, <1>6 DEF Held

LEMMA HaltPatchHeld ==
  ASSUME Shaped, Shaped', Held, NEW t \in Threads \ {"hotplug"}, HaltPatchEffect(t)
  PROVE Held'
<1>00. t \in Threads /\ t # "hotplug" /\ "scanner" \in Threads /\ "hotplug" \in Threads
  BY Names
<1>0. /\ t \in Threads /\ t # "hotplug" /\ "scanner" \in Threads /\ "hotplug" \in Threads
      /\ NewAt(t) /\ NoneAt
  BY <1>00, NewAtStep
<1>1. Locks'
  BY <1>0, HeldTypes, Names DEF NewAt, NoneAt, Held, Locks, Holding, Moves, HaltPatchEffect, OnlyFor, Released
<1>2. Private'
  BY <1>0, HeldTypes, Names DEF NewAt, NoneAt, Held, Private, Moves, HaltPatchEffect, OnlyFor, Released
<1>3. Owned'
  <2>a. CASE handle = loc[t].rt
    <3>1. pc["scanner"] # "restore"
      BY <2>a, Names DEF Held, Owned, HaltPatchEffect, OnlyFor, Released
    <3>2. pc'["scanner"] # "restore" /\ handle' = Closed
      BY <1>0, <2>a, <3>1 DEF Resumes, Moves, HaltPatchEffect, OnlyFor, Released
    <3>. QED BY <3>2, OwnedClosed
  <2>b. CASE handle # loc[t].rt
    <3>1. handle' = handle /\ (pc'["scanner"] = "restore" <=> pc["scanner"] = "restore")
      BY <1>0, <2>b, Names, ShapeOf DEF Resumes, Resting, Patched, Moves, HaltPatchEffect, OnlyFor, Released
    <3>2. handle \in Runtimes => rts'[handle].meta # {}
      <4>1. handle \in Runtimes => rts[handle].meta # {}
        BY DEF Held, Owned
      <4>. QED BY <1>0, <2>b, <4>1 DEF HaltPatchEffect, OnlyFor, Released
    <3>3. handle \in Runtimes /\ Present /\ set.rt = handle =>
            \/ Present' /\ set'.rt = handle
            \/ ~Present' /\ \E o \in Threads : pc'[o] \in Stopping /\ loc'[o].rt = handle
      BY <1>0, <2>b DEF Held, Private, Present, HaltPatchEffect, OnlyFor, Released
    <3>4. \A o \in Threads : handle \in Runtimes /\ loc[o].new = handle =>
            loc'[o].new = handle \/ (Present' /\ set'.rt = handle)
      BY <1>0, <2>b, Names DEF NewAt, NoneAt, Patched, Moves, Present, HaltPatchEffect, OnlyFor, Released
    <3>5. \A o \in Threads : handle \in Runtimes /\ ~Present /\ pc[o] \in Stopping /\ loc[o].rt = handle
            => ~Present' /\ pc'[o] \in Stopping /\ loc'[o].rt = handle
      BY <1>0, <2>b, Names DEF Stopping, Patched, Resting, Moves, Present, HaltPatchEffect, OnlyFor, Released
    <3>. QED BY <3>1, <3>2, <3>3, <3>4, <3>5, OwnedNext DEF Held
  <2>. QED BY <2>a, <2>b
<1>4. Runs'
  BY <1>0, HeldTypes, Names DEF NewAt, NoneAt, Held, Runs, Moves, Running, Stopping, HaltPatchEffect, OnlyFor, Released
<1>5. Sweeps'
  <2>1. scan'.inSweep = scan.inSweep /\ scan'.ending = scan.ending
    BY DEF HaltPatchEffect, OnlyFor, Released
  <2>2. SweptNow' => SweptNow /\ set'.rt = set.rt
    BY <1>0, Names, ShapedParts, SetGone DEF SweptNow, Present, HaltPatchEffect, OnlyFor, Released
  <2>3. \A o \in Threads : loc'[o].new # None =>
          \/ ~rts'[loc'[o].new].sweeping
          \/ /\ loc'[o].new = loc[o].new /\ loc'[o].ser = loc[o].ser
             /\ rts'[loc[o].new].sweeping = rts[loc[o].new].sweeping
    BY <1>0, HeldTypes, Names DEF NoneAt, Moves, HaltPatchEffect, OnlyFor, Released
  <2>4. ScannerKeeps
    BY <1>0, Names, ShapeOf DEF ScannerKeeps, NoneAt, Moves, SweptNow, Resumes, Patched, Stopping, HaltPatchEffect, OnlyFor, Released
  <2>. QED BY <1>0, <2>1, <2>2, <2>3, <2>4, SweepsNext DEF Held
<1>6. Unpinned'
  BY <1>0, HeldTypes, Names DEF NewAt, NoneAt, Held, Unpinned, Moves, Guards, RatePinned, Kept, Present, Running, HaltPatchEffect, OnlyFor, Released
<1>. QED BY <1>1, <1>2, <1>3, <1>4, <1>5, <1>6 DEF Held

LEMMA HaltHeld ==
  ASSUME Shaped, Shaped', Held, NEW t \in Threads \ {"hotplug"}, HaltEffect(t), loc[t].ser = None
  PROVE Held'
<1>00. t \in Threads /\ t # "hotplug" /\ "scanner" \in Threads /\ "hotplug" \in Threads
  BY Names
<1>0. /\ t \in Threads /\ t # "hotplug" /\ "scanner" \in Threads /\ "hotplug" \in Threads
      /\ NewAt(t) /\ NoneAt
  BY <1>00, NewAtStep
<1>1. Locks'
  BY <1>0, HeldTypes, Names DEF NewAt, NoneAt, Held, Locks, Holding, Moves, HaltEffect, Halts, Stays, Released
<1>2. Private'
  BY <1>0, HeldTypes, Names DEF NewAt, NoneAt, Held, Private, Moves, HaltEffect, Halts, Stays, Released
<1>3. Owned'
  BY <1>0, HeldTypes, Names DEF NewAt, NoneAt, Held, Owned, Moves, Present, Stopping, HaltEffect, Halts, Stays, Released
<1>4. Runs'
  BY <1>0, HeldTypes, Names DEF NewAt, NoneAt, Held, Runs, Moves, Running, Stopping, HaltEffect, Halts, Stays, Released
<1>5. Sweeps'
  <2>1. scan'.inSweep = scan.inSweep /\ scan'.ending = scan.ending
    BY DEF HaltEffect, Halts, Stays, Released
  <2>2. SweptNow' => SweptNow /\ set'.rt = set.rt
    BY <1>0, Names, ShapedParts, SetGone DEF SweptNow, Present, HaltEffect, Halts, Stays, Released
  <2>3. \A o \in Threads : loc'[o].new # None =>
          \/ ~rts'[loc'[o].new].sweeping
          \/ /\ loc'[o].new = loc[o].new /\ loc'[o].ser = loc[o].ser
             /\ rts'[loc[o].new].sweeping = rts[loc[o].new].sweeping
    BY <1>0, HeldTypes, Names DEF NoneAt, Moves, HaltEffect, Halts, Stays, Released
  <2>4. ScannerKeeps
    BY <1>0, Names, ShapeOf DEF ScannerKeeps, NoneAt, Moves, SweptNow, Resumes, Patched, Stopping, HaltEffect, Halts, Stays, Released
  <2>. QED BY <1>0, <2>1, <2>2, <2>3, <2>4, SweepsNext DEF Held
<1>6. Unpinned'
  BY <1>0, HeldTypes, Names DEF NewAt, NoneAt, Held, Unpinned, Moves, Guards, RatePinned, Kept, Present, Running, HaltEffect, Halts, Stays, Released
<1>. QED BY <1>1, <1>2, <1>3, <1>4, <1>5, <1>6 DEF Held

LEMMA ReconnectHeld ==
  ASSUME Shaped, Shaped', Held, NEW r \in Runtimes, ReconnectEffect(r)
  PROVE Held'
<1>00. "scanner" \in Threads /\ "hotplug" \in Threads
  BY Names
<1>0. /\ "scanner" \in Threads /\ "hotplug" \in Threads
      /\ NewAt("scanner") /\ NoneAt
  BY <1>00, NewAtStep
<1>1. Locks'
  BY <1>0, HeldTypes, Names DEF NewAt, NoneAt, Held, Locks, Holding, Moves, ReconnectEffect, Starts, Stays, Fresh, Referenced
<1>2. Private'
  <2>1. \A o \in Threads : loc[o].new = None
    BY <1>0, HeldTypes, Names DEF Held, Private, Owned, ReconnectEffect, Starts, Stays, Fresh, Referenced
  <2>2. \A o \in Threads : o # "hotplug" => loc'[o] = loc[o]
    BY <1>0 DEF Moves, ReconnectEffect, Starts, Stays, Fresh, Referenced
  <2>. QED BY <1>0, <2>1, <2>2, PrivateFresh DEF NoneAt, ReconnectEffect
<1>3. Owned'
  BY <1>0, HeldTypes, Names DEF NewAt, NoneAt, Held, Owned, Moves, Present, Stopping, ReconnectEffect, Starts, Stays, Fresh, Referenced
<1>4. Runs'
  BY <1>0, HeldTypes, Names DEF NewAt, NoneAt, Held, Runs, Moves, Running, Stopping, ReconnectEffect, Starts, Stays, Fresh, Referenced
<1>5. Sweeps'
  BY <1>0, HeldTypes, Names DEF NewAt, NoneAt, Held, Sweeps, Moves, Present, ReconnectEffect, Starts, Stays, Fresh, Referenced
<1>6. Unpinned'
  BY <1>0, HeldTypes, Names DEF NewAt, NoneAt, Held, Unpinned, Moves, Guards, RatePinned, Kept, Present, Running, ReconnectEffect, Starts, Stays, Fresh, Referenced
<1>. QED BY <1>1, <1>2, <1>3, <1>4, <1>5, <1>6 DEF Held

LEMMA ReviveHeld ==
  ASSUME Shaped, Shaped', Held, set.status = "Error", ReviveEffect
  PROVE Held'
<1>00. "scanner" \in Threads /\ "hotplug" \in Threads
  BY Names
<1>0. /\ "scanner" \in Threads /\ "hotplug" \in Threads
      /\ NewAt("scanner") /\ NoneAt
  BY <1>00, NewAtStep
<1>1. Locks'
  <2>0. loc["hotplug"].ser = None /\ loc["hotplug"].new # None /\ NoLocals.ser = None
    BY <1>0, ShapeOf DEF ReviveEffect, Stays, Forgets, Halts, Unused, NoneAt
  <2>1. \A o \in Threads : o # "hotplug" => (Holding(o)' <=> Holding(o)) /\ loc'[o].ser = loc[o].ser
    BY <1>0, <2>0 DEF NoneAt, Holding, Moves, ReviveEffect, Stays, Forgets, Halts, Unused
  <2>2. \A r \in Runtimes :
          \/ rts'[r].patching = rts[r].patching /\ rts'[r].sweeping = rts[r].sweeping
          \/ rts'[r].patching = "free" /\ \A o \in Threads : o # "hotplug" /\ Holding(o) => loc[o].ser # r
    BY <1>0, <2>0, HeldTypes, Names DEF Held, Locks, Holding, ReviveEffect, Stays, Forgets, Halts, Unused
  <2>3. \/ /\ Holding("hotplug")' <=> Holding("hotplug")
           /\ loc'["hotplug"].ser = loc["hotplug"].ser
           /\ Holding("hotplug") => rts'[loc["hotplug"].ser].patching = "hotplug" /\ ~rts'[loc["hotplug"].ser].sweeping
        \/ /\ ~Holding("hotplug")'
           /\ Holding("hotplug") => rts'[loc["hotplug"].ser].patching = "free"
    BY <1>0, <2>0, HeldTypes, Names DEF NoneAt, Stopping, Held, Locks, Holding, Moves, ReviveEffect, Stays, Forgets, Halts, Unused
  <2>. QED BY <1>0, <2>0, <2>1, <2>2, <2>3, LocksNext DEF Held
<1>2. Private'
  BY <1>0, HeldTypes, Names DEF NewAt, NoneAt, Held, Private, Moves, ReviveEffect, Stays, Forgets, Halts, Unused
<1>3. Owned'
  <2>0. /\ loc["hotplug"].new # None /\ loc["hotplug"].new # set.rt
        /\ handle = loc["hotplug"].new
    BY <1>0, ShapeOf DEF Held, Private, ReviveEffect, Stays, Forgets, Halts, Unused
  <2>1. (handle = InHand <=> pc["scanner"] = "restore")'
    BY <1>0 DEF Held, Owned, Moves, ReviveEffect, Stays, Forgets, Halts, Unused
  <2>2. rts'[handle].meta # {}
    BY <2>0 DEF Held, Owned, ReviveEffect, Stays, Forgets, Halts, Unused
  <2>3. Present' /\ set'.rt = handle /\ handle' = handle
    BY <2>0 DEF Present, ReviveEffect, Stays, Forgets, Halts, Unused
  <2>. QED BY <2>1, <2>2, <2>3 DEF Owned
<1>4. Runs'
  <2>0. loc["hotplug"].new # None /\ handle = loc["hotplug"].new
    BY <1>0, ShapeOf DEF Held, Private, ReviveEffect, Stays, Forgets, Halts, Unused
  <2>1. \A o \in Threads : loc'[o].rt # set'.rt
    BY <1>0, <2>0 DEF NoneAt, Held, Private, Moves, ReviveEffect, Stays, Forgets, Halts, Unused
  <2>2. pc'["hotplug"] # "revive" /\ handle' = set'.rt
    BY <2>0 DEF Moves, ReviveEffect, Stays, Forgets, Halts, Unused
  <2>. QED BY <2>1, <2>2 DEF Runs
<1>5. Sweeps'
  BY <1>0, HeldTypes, Names DEF NewAt, NoneAt, Held, Sweeps, Moves, Present, ReviveEffect, Stays, Forgets, Halts, Unused
<1>6. Unpinned'
  BY <1>0, HeldTypes, Names DEF NewAt, NoneAt, Held, Unpinned, Moves, Guards, RatePinned, Kept, Present, Running, ReviveEffect, Stays, Forgets, Halts, Unused
<1>. QED BY <1>1, <1>2, <1>3, <1>4, <1>5, <1>6 DEF Held

LEMMA ReviveGoneHeld ==
  ASSUME Shaped, Shaped', Held, set.status # "Error", ReviveGoneEffect
  PROVE Held'
<1>00. "scanner" \in Threads /\ "hotplug" \in Threads
  BY Names
<1>0. /\ "scanner" \in Threads /\ "hotplug" \in Threads
      /\ NewAt("scanner") /\ NoneAt
  BY <1>00, NewAtStep
<1>1. Locks'
  <2>0. loc["hotplug"].ser = None /\ loc["hotplug"].new # None /\ NoLocals.ser = None
    BY <1>0, ShapeOf DEF ReviveGoneEffect, Halts, Stays, NoneAt
  <2>1. \A o \in Threads : o # "hotplug" => (Holding(o)' <=> Holding(o)) /\ loc'[o].ser = loc[o].ser
    BY <1>0, <2>0 DEF NoneAt, Holding, Moves, ReviveGoneEffect, Halts, Stays
  <2>2. \A r \in Runtimes :
          \/ rts'[r].patching = rts[r].patching /\ rts'[r].sweeping = rts[r].sweeping
          \/ rts'[r].patching = "free" /\ \A o \in Threads : o # "hotplug" /\ Holding(o) => loc[o].ser # r
    BY <1>0, <2>0, HeldTypes, Names DEF Held, Locks, Holding, ReviveGoneEffect, Halts, Stays
  <2>3. \/ /\ Holding("hotplug")' <=> Holding("hotplug")
           /\ loc'["hotplug"].ser = loc["hotplug"].ser
           /\ Holding("hotplug") => rts'[loc["hotplug"].ser].patching = "hotplug" /\ ~rts'[loc["hotplug"].ser].sweeping
        \/ /\ ~Holding("hotplug")'
           /\ Holding("hotplug") => rts'[loc["hotplug"].ser].patching = "free"
    BY <1>0, <2>0, HeldTypes, Names DEF NoneAt, Stopping, Held, Locks, Holding, Moves, ReviveGoneEffect, Halts, Stays
  <2>. QED BY <1>0, <2>0, <2>1, <2>2, <2>3, LocksNext DEF Held
<1>2. Private'
  BY <1>0, HeldTypes, Names DEF NewAt, NoneAt, Held, Private, Moves, ReviveGoneEffect, Halts, Stays
<1>3. Owned'
  <2>0. loc["hotplug"].new # None
    BY <1>0, ShapeOf DEF ReviveGoneEffect, Halts, Stays
  <2>1. handle = loc["hotplug"].new
    BY <1>0, <2>0 DEF Held, Private
  <2>2. pc'["scanner"] # "restore"
    BY <1>0, <2>1, Names DEF Held, Owned, Moves, ReviveGoneEffect, Halts, Stays
  <2>. QED BY <2>2, OwnedClosed DEF ReviveGoneEffect, Halts, Stays
<1>4. Runs'
  BY <1>0, HeldTypes, Names DEF NewAt, NoneAt, Held, Runs, Moves, Running, Stopping, ReviveGoneEffect, Halts, Stays
<1>5. Sweeps'
  <2>1. scan'.inSweep = scan.inSweep /\ scan'.ending = scan.ending
    BY DEF ReviveGoneEffect, Halts, Stays
  <2>2. SweptNow' => SweptNow /\ set'.rt = set.rt
    BY <1>0, Names, ShapedParts, SetGone DEF SweptNow, Present, ReviveGoneEffect, Halts, Stays
  <2>3. \A o \in Threads : loc'[o].new # None =>
          \/ ~rts'[loc'[o].new].sweeping
          \/ /\ loc'[o].new = loc[o].new /\ loc'[o].ser = loc[o].ser
             /\ rts'[loc[o].new].sweeping = rts[loc[o].new].sweeping
    BY <1>0, HeldTypes, Names DEF NoneAt, Moves, ReviveGoneEffect, Halts, Stays
  <2>4. ScannerKeeps
    BY <1>0, Names, ShapeOf DEF ScannerKeeps, NoneAt, Moves, SweptNow, Resumes, Patched, Stopping, ReviveGoneEffect, Halts, Stays
  <2>. QED BY <1>0, <2>1, <2>2, <2>3, <2>4, SweepsNext DEF Held
<1>6. Unpinned'
  BY <1>0, HeldTypes, Names DEF NewAt, NoneAt, Held, Unpinned, Moves, Guards, RatePinned, Kept, Present, Running, ReviveGoneEffect, Halts, Stays
<1>. QED BY <1>1, <1>2, <1>3, <1>4, <1>5, <1>6 DEF Held

LEMMA RemoveHeld ==
  ASSUME Shaped, Shaped', Held, NEW c \in Clients, RemoveEffect(c)
  PROVE Held'
<1>00. c \in Threads /\ c # "scanner" /\ c # "drainer" /\ c # "hotplug" /\ "scanner" \in Threads
  BY Names
<1>0. /\ c \in Threads /\ c # "scanner" /\ c # "drainer" /\ c # "hotplug" /\ "scanner" \in Threads
      /\ NewAt(c) /\ NoneAt
  BY <1>00, NewAtStep
<1>1. Locks'
  BY <1>0, HeldTypes, Names DEF NewAt, NoneAt, Held, Locks, Holding, Moves, RemoveEffect
<1>2. Private'
  BY <1>0, SetGone, Names DEF NoneAt, Held, Private, Moves, RemoveEffect
<1>3. Owned'
  <2>1. handle' = handle /\ (pc'["scanner"] = "restore" <=> pc["scanner"] = "restore")
    BY <1>0, Names, ShapeOf DEF Resumes, Resting, Patched, Moves, RemoveEffect
  <2>2. handle \in Runtimes => rts'[handle].meta # {}
    BY <1>0, Names, HeldTypes DEF Held, Owned, RemoveEffect
  <2>3. handle \in Runtimes /\ Present /\ set.rt = handle =>
          \/ Present' /\ set'.rt = handle
          \/ ~Present' /\ \E o \in Threads : pc'[o] \in Stopping /\ loc'[o].rt = handle
    BY <1>0, SetGone DEF Present, RemoveEffect
  <2>4. \A o \in Threads : handle \in Runtimes /\ loc[o].new = handle =>
          loc'[o].new = handle \/ (Present' /\ set'.rt = handle)
    BY <1>0, Names DEF NewAt, NoneAt, Patched, Moves, Present, RemoveEffect
  <2>5. \A o \in Threads : handle \in Runtimes /\ ~Present /\ pc[o] \in Stopping /\ loc[o].rt = handle
          => ~Present' /\ pc'[o] \in Stopping /\ loc'[o].rt = handle
    BY <1>0, Names DEF Stopping, Patched, Resting, Moves, Present, RemoveEffect
  <2>. QED BY <2>1, <2>2, <2>3, <2>4, <2>5, OwnedNext DEF Held
<1>4. Runs'
  BY SetGone DEF Runs, Running, RemoveEffect
<1>5. Sweeps'
  <2>1. scan'.inSweep = scan.inSweep /\ scan'.ending = scan.ending
    BY DEF RemoveEffect
  <2>2. SweptNow' => SweptNow /\ set'.rt = set.rt
    BY <1>0, Names, ShapedParts, SetGone DEF SweptNow, Present, RemoveEffect
  <2>3. \A o \in Threads : loc'[o].new # None =>
          \/ ~rts'[loc'[o].new].sweeping
          \/ /\ loc'[o].new = loc[o].new /\ loc'[o].ser = loc[o].ser
             /\ rts'[loc[o].new].sweeping = rts[loc[o].new].sweeping
    BY <1>0, HeldTypes, Names DEF NoneAt, Moves, RemoveEffect
  <2>4. ScannerKeeps
    BY <1>0, Names, ShapeOf DEF ScannerKeeps, NoneAt, Moves, SweptNow, Resumes, Patched, Stopping, RemoveEffect
  <2>. QED BY <1>0, <2>1, <2>2, <2>3, <2>4, SweepsNext DEF Held
<1>6. Unpinned'
  BY SetGone DEF Unpinned, Present, RatePinned, Kept, RemoveEffect
<1>. QED BY <1>1, <1>2, <1>3, <1>4, <1>5, <1>6 DEF Held

LEMMA StartScanHeld ==
  ASSUME Shaped, Shaped', Held, NEW c \in Clients, StartScanEffect(c)
  PROVE Held'
<1>00. c \in Threads /\ c # "scanner" /\ c # "drainer" /\ c # "hotplug" /\ "scanner" \in Threads
  BY Names
<1>0. /\ c \in Threads /\ c # "scanner" /\ c # "drainer" /\ c # "hotplug" /\ "scanner" \in Threads
      /\ NewAt(c) /\ NoneAt
  BY <1>00, NewAtStep
<1>1. Locks'
  <2>1. \A o \in Threads : o # c => (Holding(o)' <=> Holding(o)) /\ loc'[o].ser = loc[o].ser
    BY <1>0 DEF NoneAt, Holding, Moves, StartScanEffect
  <2>2. \A r \in Runtimes :
          \/ rts'[r].patching = rts[r].patching /\ rts'[r].sweeping = rts[r].sweeping
          \/ rts'[r].patching = "free" /\ \A o \in Threads : o # c /\ Holding(o) => loc[o].ser # r
    BY <1>0, HeldTypes, Names DEF Held, Locks, Holding, StartScanEffect
  <2>3. \/ /\ Holding(c)' <=> Holding(c)
           /\ loc'[c].ser = loc[c].ser
           /\ Holding(c) => rts'[loc[c].ser].patching = c /\ ~rts'[loc[c].ser].sweeping
        \/ /\ ~Holding(c)'
           /\ Holding(c) => rts'[loc[c].ser].patching = "free"
    BY <1>0, HeldTypes, Names DEF NoneAt, Stopping, Held, Locks, Holding, Moves, StartScanEffect
  <2>. QED BY <1>0, <2>1, <2>2, <2>3, LocksNext DEF Held
<1>2. Private'
  BY <1>0, HeldTypes, Names DEF NewAt, NoneAt, Held, Private, Moves, StartScanEffect
<1>3. Owned'
  BY <1>0, HeldTypes, Names DEF NewAt, NoneAt, Held, Owned, Moves, Present, Stopping, StartScanEffect
<1>4. Runs'
  BY <1>0, HeldTypes, Names DEF NewAt, NoneAt, Held, Runs, Moves, Running, Stopping, StartScanEffect
<1>5. Sweeps'
  BY <1>0, HeldTypes, Names DEF NewAt, NoneAt, Held, Sweeps, Moves, Present, StartScanEffect
<1>6. Unpinned'
  BY <1>0, HeldTypes, Names DEF NewAt, NoneAt, Held, Unpinned, Moves, Guards, RatePinned, Kept, Present, Running, StartScanEffect
<1>. QED BY <1>1, <1>2, <1>3, <1>4, <1>5, <1>6 DEF Held

LEMMA ReachesHeld ==
  ASSUME Shaped, Shaped', Held, pc["scanner"] \in {"loop", "leave"}, Reaches
  PROVE Held'
<1>00. "scanner" \in Threads /\ "hotplug" \in Threads
  BY Names
<1>0. /\ "scanner" \in Threads /\ "hotplug" \in Threads
      /\ NewAt("scanner") /\ NoneAt
  BY <1>00, NewAtStep
<1>1. Locks'
  BY <1>0, HeldTypes, Names DEF NewAt, NoneAt, Held, Locks, Holding, Moves, Reaches
<1>2. Private'
  BY <1>0, HeldTypes, Names DEF NewAt, NoneAt, Held, Private, Moves, Reaches
<1>3. Owned'
  BY <1>0, HeldTypes, Names DEF NewAt, NoneAt, Held, Owned, Moves, Present, Stopping, Reaches
<1>4. Runs'
  BY <1>0, HeldTypes, Names DEF NewAt, NoneAt, Held, Runs, Moves, Running, Stopping, Reaches
<1>5. Sweeps'
  BY <1>0, HeldTypes, Names DEF NewAt, NoneAt, Held, Sweeps, Moves, Present, Reaches
<1>6. Unpinned'
  BY <1>0, HeldTypes, Names DEF NewAt, NoneAt, Held, Unpinned, Moves, Guards, RatePinned, Kept, Present, Running, Reaches
<1>. QED BY <1>1, <1>2, <1>3, <1>4, <1>5, <1>6 DEF Held

LEMMA FindsSweepHeld ==
  ASSUME Shaped, Shaped', Held, pc["scanner"] = "take", FindsSweep
  PROVE Held'
<1>00. "scanner" \in Threads /\ "hotplug" \in Threads
  BY Names
<1>0. /\ "scanner" \in Threads /\ "hotplug" \in Threads
      /\ NewAt("scanner") /\ NoneAt
  BY <1>00, NewAtStep
<1>1. Locks'
  <2>0. loc["scanner"].ser = None /\ loc["scanner"].new = None /\ NoLocals.ser = None
    BY <1>0, ShapeOf DEF NoneAt
  <2>1. \A o \in Threads : o # "scanner" => (Holding(o)' <=> Holding(o)) /\ loc'[o].ser = loc[o].ser
    BY <1>0, <2>0 DEF NoneAt, Holding, Moves, FindsSweep
  <2>2. \A r \in Runtimes :
          \/ rts'[r].patching = rts[r].patching /\ rts'[r].sweeping = rts[r].sweeping
          \/ rts'[r].patching = "free" /\ \A o \in Threads : o # "scanner" /\ Holding(o) => loc[o].ser # r
    BY <1>0, <2>0, HeldTypes, Names DEF Held, Locks, Holding, FindsSweep
  <2>3. \/ /\ Holding("scanner")' <=> Holding("scanner")
           /\ loc'["scanner"].ser = loc["scanner"].ser
           /\ Holding("scanner") => rts'[loc["scanner"].ser].patching = "scanner" /\ ~rts'[loc["scanner"].ser].sweeping
        \/ /\ ~Holding("scanner")'
           /\ Holding("scanner") => rts'[loc["scanner"].ser].patching = "free"
    BY <1>0, <2>0, HeldTypes, Names DEF NoneAt, Stopping, Held, Locks, Holding, Moves, FindsSweep
  <2>. QED BY <1>0, <2>0, <2>1, <2>2, <2>3, LocksNext DEF Held
<1>2. Private'
  BY <1>0, HeldTypes, Names DEF NewAt, NoneAt, Held, Private, Moves, FindsSweep
<1>3. Owned'
  BY <1>0, HeldTypes, Names DEF NewAt, NoneAt, Held, Owned, Moves, Present, Stopping, FindsSweep
<1>4. Runs'
  BY <1>0, HeldTypes, Names DEF NewAt, NoneAt, Held, Runs, Moves, Running, Stopping, FindsSweep
<1>5. Sweeps'
  <2>0. loc["scanner"].ser = None /\ loc["scanner"].new = None /\ NoLocals.ser = None
    BY <1>0, ShapeOf DEF NoneAt
  <2>1. (pc["scanner"] = "leave" => scan.inSweep)'
    BY <1>0, <2>0 DEF Held, Sweeps, Moves, FindsSweep
  <2>2. (pc["scanner"] \in {"off", "loop"} => ~scan.ending)'
    BY <1>0, <2>0 DEF Held, Sweeps, Moves, FindsSweep
  <2>3. (pc["scanner"] \in {"take", "restore", "swap"} /\ loc["scanner"].ser = None =>
         scan.inSweep \/ ~scan.ending)'
    BY <1>0, <2>0 DEF Held, Sweeps, Moves, FindsSweep
  <2>4. (\A o \in Threads : loc[o].new # None /\ rts[loc[o].new].sweeping =>
          o = "scanner" /\ loc[o].ser = None /\ ~scan.inSweep)'
    BY <1>0, <2>0, HeldTypes DEF NoneAt, Held, Sweeps, Moves, FindsSweep
  <2>5. ~SweptNow'
    <3>1. SweptNow' => SweptNow
      BY <1>0, <2>0, ShapedParts DEF SweptNow, Present, FindsSweep
    <3>2. SweptNow => loc["scanner"].rt = set.rt /\ handle = set.rt /\ scan.inSweep
                      /\ rts[set.rt].sweeping /\ set.rt \in Runtimes
      BY <1>0, <2>0, ShapedParts DEF SweptNow, Held, Sweeps
    <3>3. \A r \in Runtimes : rts[r].sweeping \in BOOLEAN /\ scan.inSweep \in BOOLEAN
      BY ShapedParts DEF RuntimeStates
    <3>. QED BY <3>1, <3>2, <3>3 DEF FindsSweep
  <2>. QED BY <2>1, <2>2, <2>3, <2>4, <2>5 DEF Sweeps, SweptNow
<1>6. Unpinned'
  BY <1>0, HeldTypes, Names DEF NewAt, NoneAt, Held, Unpinned, Moves, Guards, RatePinned, Kept, Present, Running, FindsSweep
<1>. QED BY <1>1, <1>2, <1>3, <1>4, <1>5, <1>6 DEF Held

LEMMA FindsNoRadioHeld ==
  ASSUME Shaped, Shaped', Held, pc["scanner"] = "take", FindsNoRadio
  PROVE Held'
<1>00. "scanner" \in Threads /\ "hotplug" \in Threads
  BY Names
<1>0. /\ "scanner" \in Threads /\ "hotplug" \in Threads
      /\ NewAt("scanner") /\ NoneAt
  BY <1>00, NewAtStep
<1>1. Locks'
  <2>0. loc["scanner"].ser = None /\ loc["scanner"].new = None /\ NoLocals.ser = None
    BY <1>0, ShapeOf DEF NoneAt
  <2>1. \A o \in Threads : o # "scanner" => (Holding(o)' <=> Holding(o)) /\ loc'[o].ser = loc[o].ser
    BY <1>0, <2>0 DEF NoneAt, Holding, Moves, FindsNoRadio, Retreats, Halts, Stays
  <2>2. \A r \in Runtimes :
          \/ rts'[r].patching = rts[r].patching /\ rts'[r].sweeping = rts[r].sweeping
          \/ rts'[r].patching = "free" /\ \A o \in Threads : o # "scanner" /\ Holding(o) => loc[o].ser # r
    BY <1>0, <2>0, HeldTypes, Names DEF Held, Locks, Holding, FindsNoRadio, Retreats, Halts, Stays
  <2>3. \/ /\ Holding("scanner")' <=> Holding("scanner")
           /\ loc'["scanner"].ser = loc["scanner"].ser
           /\ Holding("scanner") => rts'[loc["scanner"].ser].patching = "scanner" /\ ~rts'[loc["scanner"].ser].sweeping
        \/ /\ ~Holding("scanner")'
           /\ Holding("scanner") => rts'[loc["scanner"].ser].patching = "free"
    BY <1>0, <2>0, HeldTypes, Names DEF NoneAt, Stopping, Held, Locks, Holding, Moves, FindsNoRadio, Retreats, Halts, Stays
  <2>. QED BY <1>0, <2>0, <2>1, <2>2, <2>3, LocksNext DEF Held
<1>2. Private'
  BY <1>0, HeldTypes, Names DEF NewAt, NoneAt, Held, Private, Moves, FindsNoRadio, Retreats, Halts, Stays
<1>3. Owned'
  BY <1>0, HeldTypes, Names DEF NewAt, NoneAt, Held, Owned, Moves, Present, Stopping, FindsNoRadio, Retreats, Halts, Stays
<1>4. Runs'
  BY <1>0, HeldTypes, Names DEF NewAt, NoneAt, Held, Runs, Moves, Running, Stopping, FindsNoRadio, Retreats, Halts, Stays
<1>5. Sweeps'
  <2>0. loc["scanner"].ser = None /\ loc["scanner"].new = None /\ NoLocals.ser = None
    BY <1>0, ShapeOf DEF NoneAt
  <2>1. (pc["scanner"] = "leave" => scan.inSweep)'
    BY <1>0, <2>0 DEF Held, Sweeps, Moves, FindsNoRadio, Retreats, Halts, Stays
  <2>2. (pc["scanner"] \in {"off", "loop"} => ~scan.ending)'
    BY <1>0, <2>0 DEF Held, Sweeps, Moves, FindsNoRadio, Retreats, Halts, Stays
  <2>3. (pc["scanner"] \in {"take", "restore", "swap"} /\ loc["scanner"].ser = None =>
         scan.inSweep \/ ~scan.ending)'
    BY <1>0, <2>0 DEF Held, Sweeps, Moves, FindsNoRadio, Retreats, Halts, Stays
  <2>4. (\A o \in Threads : loc[o].new # None /\ rts[loc[o].new].sweeping =>
          o = "scanner" /\ loc[o].ser = None /\ ~scan.inSweep)'
    BY <1>0, <2>0, HeldTypes DEF NoneAt, Held, Sweeps, Moves, FindsNoRadio, Retreats, Halts, Stays
  <2>5. ~SweptNow'
    <3>1. SweptNow' => SweptNow
      BY <1>0, <2>0, ShapedParts DEF SweptNow, Present, FindsNoRadio, Retreats, Halts, Stays
    <3>2. SweptNow => loc["scanner"].rt = set.rt /\ handle = set.rt /\ scan.inSweep
                      /\ rts[set.rt].sweeping /\ set.rt \in Runtimes
      BY <1>0, <2>0, ShapedParts DEF SweptNow, Held, Sweeps
    <3>3. \A r \in Runtimes : rts[r].sweeping \in BOOLEAN /\ scan.inSweep \in BOOLEAN
      BY ShapedParts DEF RuntimeStates
    <3>. QED BY <3>1, <3>2, <3>3 DEF FindsNoRadio, Retreats, Halts, Stays
  <2>. QED BY <2>1, <2>2, <2>3, <2>4, <2>5 DEF Sweeps, SweptNow
<1>6. Unpinned'
  BY <1>0, HeldTypes, Names DEF NewAt, NoneAt, Held, Unpinned, Moves, Guards, RatePinned, Kept, Present, Running, FindsNoRadio, Retreats, Halts, Stays
<1>. QED BY <1>1, <1>2, <1>3, <1>4, <1>5, <1>6 DEF Held

LEMMA InHandsHeld ==
  ASSUME Shaped, Shaped', Held, InHands
  PROVE Held'
<1>00. "scanner" \in Threads /\ "hotplug" \in Threads
  BY Names
<1>0. /\ "scanner" \in Threads /\ "hotplug" \in Threads
      /\ NewAt("scanner") /\ NoneAt
  BY <1>00, NewAtStep
<1>1. Locks'
  BY <1>0, HeldTypes, Names DEF NewAt, NoneAt, Held, Locks, Holding, Moves, InHands, Takes, Halts, Stays
<1>2. Private'
  BY <1>0, HeldTypes, Names DEF NewAt, NoneAt, Held, Private, Moves, InHands, Takes, Halts, Stays
<1>3. Owned'
  BY <1>0, HeldTypes, Names DEF NewAt, NoneAt, Held, Owned, Moves, Present, Stopping, InHands, Takes, Halts, Stays
<1>4. Runs'
  BY <1>0, HeldTypes, Names DEF NewAt, NoneAt, Held, Runs, Moves, Running, Stopping, InHands, Takes, Halts, Stays
<1>5. Sweeps'
  <2>1. (pc["scanner"] = "leave" => scan.inSweep)'
    BY <1>0 DEF Held, Sweeps, Moves, InHands, Takes, Halts, Stays
  <2>2. (pc["scanner"] \in {"off", "loop"} => ~scan.ending)'
    BY <1>0 DEF Held, Sweeps, Moves, InHands, Takes, Halts, Stays
  <2>3. (pc["scanner"] \in {"take", "restore", "swap"} /\ loc["scanner"].ser = None =>
         scan.inSweep \/ ~scan.ending)'
    BY <1>0 DEF Held, Sweeps, Moves, InHands, Takes, Halts, Stays
  <2>4. (\A o \in Threads : loc[o].new # None /\ rts[loc[o].new].sweeping =>
          o = "scanner" /\ loc[o].ser = None /\ ~scan.inSweep)'
    BY <1>0, HeldTypes DEF NoneAt, Held, Sweeps, Moves, InHands, Takes, Halts, Stays
  <2>5. ~SweptNow'
    BY Names, ShapedParts DEF SweptNow, Present, InHands, Takes, Halts, Stays
  <2>. QED BY <2>1, <2>2, <2>3, <2>4, <2>5 DEF Sweeps, SweptNow
<1>6. Unpinned'
  BY <1>0, HeldTypes, Names DEF NewAt, NoneAt, Held, Unpinned, Moves, Guards, RatePinned, Kept, Present, Running, InHands, Takes, Halts, Stays
<1>. QED BY <1>1, <1>2, <1>3, <1>4, <1>5, <1>6 DEF Held

LEMMA SweepStartsHeld ==
  ASSUME Shaped, Shaped', Held, NEW r \in Runtimes, Takes, ~scan.inSweep, SweepStartsEffect(r)
  PROVE Held'
<1>00. "scanner" \in Threads /\ "hotplug" \in Threads
  BY Names
<1>0. /\ "scanner" \in Threads /\ "hotplug" \in Threads
      /\ NewAt("scanner") /\ NoneAt
  BY <1>00, NewAtStep
<1>1. Locks'
  BY <1>0, HeldTypes, Names DEF NewAt, NoneAt, Held, Locks, Holding, Moves, SweepStartsEffect, Takes, Halts, Starts, Stays, Fresh, Referenced
<1>2. Private'
  <2>1. \A o \in Threads : loc[o].new = None
    BY <1>0, HeldTypes, Names DEF Held, Private, Owned, SweepStartsEffect, Takes, Halts, Starts, Stays, Fresh, Referenced
  <2>2. \A o \in Threads : o # "scanner" => loc'[o] = loc[o]
    BY <1>0 DEF Moves, SweepStartsEffect, Takes, Halts, Starts, Stays, Fresh, Referenced
  <2>. QED BY <1>0, <2>1, <2>2, PrivateFresh DEF NoneAt, SweepStartsEffect, Takes
<1>3. Owned'
  BY <1>0, HeldTypes, Names DEF NewAt, NoneAt, Held, Owned, Moves, Present, Stopping, SweepStartsEffect, Takes, Halts, Starts, Stays, Fresh, Referenced
<1>4. Runs'
  BY <1>0, HeldTypes, Names DEF NewAt, NoneAt, Held, Runs, Moves, Running, Stopping, SweepStartsEffect, Takes, Halts, Starts, Stays, Fresh, Referenced
<1>5. Sweeps'
  BY <1>0, HeldTypes, Names DEF NewAt, NoneAt, Held, Sweeps, Moves, Present, SweepStartsEffect, Takes, Halts, Starts, Stays, Fresh, Referenced
<1>6. Unpinned'
  BY <1>0, HeldTypes, Names DEF NewAt, NoneAt, Held, Unpinned, Moves, Guards, RatePinned, Kept, Present, Running, SweepStartsEffect, Takes, Halts, Starts, Stays, Fresh, Referenced
<1>. QED BY <1>1, <1>2, <1>3, <1>4, <1>5, <1>6 DEF Held

LEMMA ReceivesHeld ==
  ASSUME Shaped, Shaped', Held, NEW r \in Runtimes, ReceivesEffect(r)
  PROVE Held'
<1>00. "scanner" \in Threads /\ "hotplug" \in Threads
  BY Names
<1>0. /\ "scanner" \in Threads /\ "hotplug" \in Threads
      /\ NewAt("scanner") /\ NoneAt
  BY <1>00, NewAtStep
<1>1. Locks'
  BY <1>0, HeldTypes, Names DEF NewAt, NoneAt, Held, Locks, Holding, Moves, ReceivesEffect, Starts, Stays, Fresh, Referenced
<1>2. Private'
  <2>1. \A o \in Threads : loc[o].new = None
    BY <1>0, HeldTypes, Names DEF Held, Private, Owned, ReceivesEffect, Starts, Stays, Fresh, Referenced
  <2>2. \A o \in Threads : o # "scanner" => loc'[o] = loc[o]
    BY <1>0 DEF Moves, ReceivesEffect, Starts, Stays, Fresh, Referenced
  <2>. QED BY <1>0, <2>1, <2>2, PrivateFresh DEF NoneAt, ReceivesEffect
<1>3. Owned'
  BY <1>0, HeldTypes, Names DEF NewAt, NoneAt, Held, Owned, Moves, Present, Stopping, ReceivesEffect, Starts, Stays, Fresh, Referenced
<1>4. Runs'
  BY <1>0, HeldTypes, Names DEF NewAt, NoneAt, Held, Runs, Moves, Running, Stopping, ReceivesEffect, Starts, Stays, Fresh, Referenced
<1>5. Sweeps'
  BY <1>0, HeldTypes, Names DEF NewAt, NoneAt, Held, Sweeps, Moves, Present, ReceivesEffect, Starts, Stays, Fresh, Referenced
<1>6. Unpinned'
  BY <1>0, HeldTypes, Names DEF NewAt, NoneAt, Held, Unpinned, Moves, Guards, RatePinned, Kept, Present, Running, ReceivesEffect, Starts, Stays, Fresh, Referenced
<1>. QED BY <1>1, <1>2, <1>3, <1>4, <1>5, <1>6 DEF Held

LEMMA DropsRadioHeld ==
  ASSUME Shaped, Shaped', Held, DropsRadioEffect
  PROVE Held'
<1>00. "scanner" \in Threads /\ "hotplug" \in Threads
  BY Names
<1>0. /\ "scanner" \in Threads /\ "hotplug" \in Threads
      /\ NewAt("scanner") /\ NoneAt
  BY <1>00, NewAtStep
<1>1. Locks'
  BY <1>0, HeldTypes, Names DEF NewAt, NoneAt, Held, Locks, Holding, Moves, DropsRadioEffect, Retreats
<1>2. Private'
  <2>1. \A o \in Threads : loc[o].new = None
    BY <1>0, HeldTypes, Names DEF Held, Private, Owned, DropsRadioEffect
  <2>2. \A o \in Threads : loc'[o].new = None
    BY <1>0, <2>1 DEF NoneAt, Moves, DropsRadioEffect, Retreats
  <2>. QED BY <2>2, PrivateNone
<1>3. Owned'
  BY <1>0, HeldTypes, Names DEF NewAt, NoneAt, Held, Owned, Moves, Present, Stopping, DropsRadioEffect, Retreats
<1>4. Runs'
  <2>1. Running' => lost'
    BY DEF Running, Present, DropsRadioEffect, Retreats
  <2>. QED BY <1>0, <2>1 DEF NoneAt, Held, Runs, Running, Moves, Stopping, DropsRadioEffect, Retreats
<1>5. Sweeps'
  <2>1. (pc["scanner"] = "leave" => scan.inSweep)'
    BY <1>0 DEF Held, Sweeps, Moves, DropsRadioEffect, Retreats
  <2>2. (pc["scanner"] \in {"off", "loop"} => ~scan.ending)'
    BY <1>0 DEF Held, Sweeps, Moves, DropsRadioEffect, Retreats
  <2>3. (pc["scanner"] \in {"take", "restore", "swap"} /\ loc["scanner"].ser = None =>
         scan.inSweep \/ ~scan.ending)'
    BY <1>0 DEF Held, Sweeps, Moves, DropsRadioEffect, Retreats
  <2>4. (\A o \in Threads : loc[o].new # None /\ rts[loc[o].new].sweeping =>
          o = "scanner" /\ loc[o].ser = None /\ ~scan.inSweep)'
    BY <1>0, HeldTypes DEF NoneAt, Held, Sweeps, Moves, DropsRadioEffect, Retreats
  <2>5. ~SweptNow'
    BY Names, ShapedParts DEF SweptNow, Present, DropsRadioEffect, Retreats
  <2>. QED BY <2>1, <2>2, <2>3, <2>4, <2>5 DEF Sweeps, SweptNow
<1>6. Unpinned'
  BY <1>0, HeldTypes, Names DEF NewAt, NoneAt, Held, Unpinned, Moves, Guards, RatePinned, Kept, Present, Running, DropsRadioEffect, Retreats
<1>. QED BY <1>1, <1>2, <1>3, <1>4, <1>5, <1>6 DEF Held

LEMMA SweepSwapsHeld ==
  ASSUME Shaped, Shaped', Held, pc["scanner"] = "swap", loc["scanner"].ser = None,
         loc["scanner"].new \in Runtimes, SweepSwaps
  PROVE Held'
<1>00. "scanner" \in Threads /\ "hotplug" \in Threads
  BY Names
<1>0. /\ "scanner" \in Threads /\ "hotplug" \in Threads
      /\ NewAt("scanner") /\ NoneAt
  BY <1>00, NewAtStep
<1>1. Locks'
  BY <1>0, HeldTypes, Names DEF NewAt, NoneAt, Held, Locks, Holding, Moves, SweepSwaps, Stays, Forgets, Halts, Unused
<1>2. Private'
  BY <1>0, HeldTypes, Names DEF NewAt, NoneAt, Held, Private, Moves, SweepSwaps, Stays, Forgets, Halts, Unused
<1>3. Owned'
  <2>1. handle' = handle /\ (pc'["scanner"] = "restore" <=> pc["scanner"] = "restore")
    BY <1>0, Names, ShapeOf DEF Resumes, Resting, Patched, Moves, SweepSwaps, Stays, Forgets, Halts, Unused
  <2>2. handle \in Runtimes => rts'[handle].meta # {}
    <3>1. handle \in Runtimes => rts[handle].meta # {}
      BY DEF Held, Owned
    <3>2. handle = loc["scanner"].new /\ loc["scanner"].new # set.rt /\ loc["scanner"].ser # loc["scanner"].new
      BY <1>0 DEF NewAt, Held, Private, SweepSwaps, Stays, Forgets, Halts, Unused
    <3>. QED BY <3>1, <3>2 DEF SweepSwaps, Stays, Forgets, Halts, Unused
  <2>3. handle \in Runtimes /\ Present /\ set.rt = handle =>
          \/ Present' /\ set'.rt = handle
          \/ ~Present' /\ \E o \in Threads : pc'[o] \in Stopping /\ loc'[o].rt = handle
    BY <1>0 DEF NewAt, Held, Private, Present, SweepSwaps, Stays, Forgets, Halts, Unused
  <2>4. \A o \in Threads : handle \in Runtimes /\ loc[o].new = handle =>
          loc'[o].new = handle \/ (Present' /\ set'.rt = handle)
    BY <1>0, Names DEF NewAt, NoneAt, Patched, Moves, Present, SweepSwaps, Stays, Forgets, Halts, Unused
  <2>5. \A o \in Threads : handle \in Runtimes /\ ~Present /\ pc[o] \in Stopping /\ loc[o].rt = handle
          => ~Present' /\ pc'[o] \in Stopping /\ loc'[o].rt = handle
    BY <1>0, Names DEF Stopping, Patched, Resting, Moves, Present, SweepSwaps, Stays, Forgets, Halts, Unused
  <2>. QED BY <2>1, <2>2, <2>3, <2>4, <2>5, OwnedNext DEF Held
<1>4. Runs'
  <2>1. lost' = lost /\ handle' = handle /\ pc'["hotplug"] = pc["hotplug"]
    BY <1>0, Names DEF Moves, SweepSwaps, Stays, Forgets, Halts, Unused
  <2>2. Running' => Running
    BY DEF Running, SweepSwaps, Stays, Forgets, Halts, Unused
  <2>3. Running' => \A o \in Threads : pc'[o] \in Stopping /\ loc'[o].rt # None => loc'[o].rt # set'.rt
    BY <1>0, Names DEF NoneAt, Stopping, Moves, Running, Held, Runs, Private, SweepSwaps, Stays, Forgets, Halts, Unused
  <2>4. Running' => set'.rt = set.rt \/ set'.rt = handle
    BY <1>0 DEF NewAt, Held, Private, SweepSwaps, Stays, Forgets, Halts, Unused
  <2>5. Running' => \A o \in Threads : pc[o] = "mark" => pc'[o] = "mark"
    BY <1>0 DEF Moves, Present, Running, SweepSwaps, Stays, Forgets, Halts, Unused
  <2>6. Running' => \A o \in Threads : loc[o].new # None => loc'[o].new # None \/ handle = set'.rt
    BY <1>0, Names DEF NewAt, Patched, Moves, Held, Private, SweepSwaps, Stays, Forgets, Halts, Unused
  <2>. QED BY <2>1, <2>2, <2>3, <2>4, <2>5, <2>6, RunsNext DEF Held
<1>5. Sweeps'
  BY <1>0, HeldTypes, Names DEF NewAt, NoneAt, Held, Sweeps, Moves, Present, SweepSwaps, Stays, Forgets, Halts, Unused
<1>6. Unpinned'
  BY <1>0, HeldTypes, Names DEF NewAt, NoneAt, Held, Unpinned, Moves, Guards, RatePinned, Kept, Present, Running, SweepSwaps, Stays, Forgets, Halts, Unused
<1>. QED BY <1>1, <1>2, <1>3, <1>4, <1>5, <1>6 DEF Held

LEMMA SwapSweepGoneHeld ==
  ASSUME Shaped, Shaped', Held, ~Present, SwapSweepGoneEffect
  PROVE Held'
<1>00. "scanner" \in Threads /\ "hotplug" \in Threads
  BY Names
<1>0. /\ "scanner" \in Threads /\ "hotplug" \in Threads
      /\ NewAt("scanner") /\ NoneAt
  BY <1>00, NewAtStep
<1>1. Locks'
  BY <1>0, HeldTypes, Names DEF NewAt, NoneAt, Held, Locks, Holding, Moves, SwapSweepGoneEffect, Retreats, Halts, Stays
<1>2. Private'
  BY <1>0, HeldTypes, Names DEF NewAt, NoneAt, Held, Private, Moves, SwapSweepGoneEffect, Retreats, Halts, Stays
<1>3. Owned'
  BY <1>0, HeldTypes, Names DEF NewAt, NoneAt, Held, Owned, Moves, Present, Stopping, SwapSweepGoneEffect, Retreats, Halts, Stays
<1>4. Runs'
  BY DEF Runs, Running, Present, SwapSweepGoneEffect, Retreats, Halts, Stays
<1>5. Sweeps'
  <2>1. (pc["scanner"] = "leave" => scan.inSweep)'
    BY <1>0 DEF Held, Sweeps, Moves, SwapSweepGoneEffect, Retreats, Halts, Stays
  <2>2. (pc["scanner"] \in {"off", "loop"} => ~scan.ending)'
    BY <1>0 DEF Held, Sweeps, Moves, SwapSweepGoneEffect, Retreats, Halts, Stays
  <2>3. (pc["scanner"] \in {"take", "restore", "swap"} /\ loc["scanner"].ser = None =>
         scan.inSweep \/ ~scan.ending)'
    BY <1>0 DEF Held, Sweeps, Moves, SwapSweepGoneEffect, Retreats, Halts, Stays
  <2>4. (\A o \in Threads : loc[o].new # None /\ rts[loc[o].new].sweeping =>
          o = "scanner" /\ loc[o].ser = None /\ ~scan.inSweep)'
    BY <1>0, HeldTypes DEF NoneAt, Held, Sweeps, Moves, SwapSweepGoneEffect, Retreats, Halts, Stays
  <2>5. ~SweptNow'
    BY Names, ShapedParts DEF SweptNow, Present, SwapSweepGoneEffect, Retreats, Halts, Stays
  <2>. QED BY <2>1, <2>2, <2>3, <2>4, <2>5 DEF Sweeps, SweptNow
<1>6. Unpinned'
  BY <1>0, HeldTypes, Names DEF NewAt, NoneAt, Held, Unpinned, Moves, Guards, RatePinned, Kept, Present, Running, SwapSweepGoneEffect, Retreats, Halts, Stays
<1>. QED BY <1>1, <1>2, <1>3, <1>4, <1>5, <1>6 DEF Held

LEMMA CallerHeld ==
  ASSUME Shaped, Shaped', Held, NEW c \in Clients, NEW p \in {"idle", "joining", "commit"}, CallerKeeps(c, p), set'.holds = set.holds,
         pc[c] \in {"idle", "list scan", "commit"}
  PROVE Held'
<1>00. c \in Threads /\ c # "scanner" /\ c # "drainer" /\ c # "hotplug" /\ "scanner" \in Threads
  BY Names
<1>0. /\ c \in Threads /\ c # "scanner" /\ c # "drainer" /\ c # "hotplug" /\ "scanner" \in Threads
      /\ NewAt(c) /\ NoneAt
  BY <1>00, NewAtStep
<1>1. Locks'
  <2>1. \A o \in Threads : o # c => (Holding(o)' <=> Holding(o)) /\ loc'[o].ser = loc[o].ser
    BY <1>0 DEF NoneAt, Holding, Moves, CallerKeeps
  <2>2. \A r \in Runtimes :
          \/ rts'[r].patching = rts[r].patching /\ rts'[r].sweeping = rts[r].sweeping
          \/ rts'[r].patching = "free" /\ \A o \in Threads : o # c /\ Holding(o) => loc[o].ser # r
    BY <1>0, HeldTypes, Names DEF Held, Locks, Holding, CallerKeeps
  <2>3. \/ /\ Holding(c)' <=> Holding(c)
           /\ loc'[c].ser = loc[c].ser
           /\ Holding(c) => rts'[loc[c].ser].patching = c /\ ~rts'[loc[c].ser].sweeping
        \/ /\ ~Holding(c)'
           /\ Holding(c) => rts'[loc[c].ser].patching = "free"
    BY <1>0, HeldTypes, Names DEF NoneAt, Stopping, Held, Locks, Holding, Moves, CallerKeeps
  <2>. QED BY <1>0, <2>1, <2>2, <2>3, LocksNext DEF Held
<1>2. Private'
  <2>0. \A o \in Threads : /\ loc'[o].ser = loc[o].ser /\ loc'[o].rt = loc[o].rt
                            /\ loc'[o].new = loc[o].new
    BY <1>0 DEF Moves, CallerKeeps
  <2>1. handle' = handle /\ set'.rt = set.rt
    BY DEF CallerKeeps
  <2>2. Private
    BY DEF Held
  <2>3. ASSUME NEW o \in Threads, loc'[o].new # None
        PROVE /\ handle' = loc'[o].new
              /\ set'.rt # loc'[o].new
              /\ \A u \in Threads : loc'[u].ser # loc'[o].new /\ loc'[u].rt # loc'[o].new
              /\ \A u \in Threads : u # o => loc'[u].new = None
    BY <2>0, <2>1, <2>2, <2>3 DEF Private
  <2>. QED BY <2>3 DEF Private
<1>3. Owned'
  <2>0. \A o \in Threads : /\ loc'[o].ser = loc[o].ser /\ loc'[o].rt = loc[o].rt
                            /\ loc'[o].new = loc[o].new
    BY <1>0 DEF Moves, CallerKeeps
  <2>1. handle' = handle /\ (pc'["scanner"] = "restore" <=> pc["scanner"] = "restore")
    BY <1>0, Names, ShapeOf DEF Resumes, Resting, Patched, Moves, CallerKeeps
  <2>2. handle \in Runtimes => rts'[handle].meta # {}
    BY <1>0, Names, HeldTypes DEF Held, Owned, CallerKeeps
  <2>3. handle \in Runtimes /\ Present /\ set.rt = handle =>
          \/ Present' /\ set'.rt = handle
          \/ ~Present' /\ \E o \in Threads : pc'[o] \in Stopping /\ loc'[o].rt = handle
    BY <1>0 DEF Held, Private, Present, CallerKeeps
  <2>4. \A o \in Threads : handle \in Runtimes /\ loc[o].new = handle =>
          loc'[o].new = handle \/ (Present' /\ set'.rt = handle)
    BY <2>0
  <2>5. \A o \in Threads : handle \in Runtimes /\ ~Present /\ pc[o] \in Stopping /\ loc[o].rt = handle
          => ~Present' /\ pc'[o] \in Stopping /\ loc'[o].rt = handle
    BY <1>0, Names DEF Stopping, Patched, Resting, Moves, Present, CallerKeeps
  <2>. QED BY <2>1, <2>2, <2>3, <2>4, <2>5, OwnedNext DEF Held
<1>4. Runs'
  <2>0. \A o \in Threads : /\ loc'[o].ser = loc[o].ser /\ loc'[o].rt = loc[o].rt
                            /\ loc'[o].new = loc[o].new
    BY <1>0 DEF Moves, CallerKeeps
  <2>1. lost' = lost /\ handle' = handle /\ pc'["hotplug"] = pc["hotplug"]
    BY <1>0, Names DEF Moves, CallerKeeps
  <2>2. Running' => Running
    BY DEF Running, CallerKeeps
  <2>3. Running' => \A o \in Threads : pc'[o] \in Stopping /\ loc'[o].rt # None => loc'[o].rt # set'.rt
    <3>1. set'.rt = set.rt /\ (Running' => Running) /\ loc[c].rt = None
      BY <2>2 DEF CallerKeeps
    <3>2. \A o \in Threads : loc'[o].rt # None => pc'[o] = pc[o]
      BY <2>0, <3>1 DEF Moves, CallerKeeps
    <3>. QED BY <2>0, <3>1, <3>2 DEF Held, Runs
  <2>4. Running' => set'.rt = set.rt \/ set'.rt = handle
    BY <1>0 DEF NewAt, Held, Private, CallerKeeps
  <2>5. Running' => \A o \in Threads : pc[o] = "mark" => pc'[o] = "mark"
    BY <1>0 DEF Moves, Present, Running, CallerKeeps
  <2>6. Running' => \A o \in Threads : loc[o].new # None => loc'[o].new # None \/ handle = set'.rt
    BY <1>0, Names DEF NewAt, Patched, Moves, Held, Private, CallerKeeps
  <2>. QED BY <2>1, <2>2, <2>3, <2>4, <2>5, <2>6, RunsNext DEF Held
<1>5. Sweeps'
  <2>1. scan'.inSweep = scan.inSweep /\ scan'.ending = scan.ending
    BY DEF CallerKeeps
  <2>2. SweptNow' => SweptNow /\ set'.rt = set.rt
    BY <1>0, Names, ShapedParts, SetGone DEF SweptNow, Present, CallerKeeps
  <2>3. \A o \in Threads : loc'[o].new # None =>
          \/ ~rts'[loc'[o].new].sweeping
          \/ /\ loc'[o].new = loc[o].new /\ loc'[o].ser = loc[o].ser
             /\ rts'[loc[o].new].sweeping = rts[loc[o].new].sweeping
    BY <1>0, HeldTypes, Names DEF NoneAt, Moves, CallerKeeps
  <2>4. ScannerKeeps
    BY <1>0, Names, ShapeOf DEF ScannerKeeps, NoneAt, Moves, SweptNow, Resumes, Patched, Stopping, CallerKeeps
  <2>. QED BY <1>0, <2>1, <2>2, <2>3, <2>4, SweepsNext DEF Held
<1>6. Unpinned'
  BY <1>0, HeldTypes, Names DEF NewAt, NoneAt, Held, Unpinned, Moves, Guards, RatePinned, Kept, Present, Running, CallerKeeps
<1>. QED BY <1>1, <1>2, <1>3, <1>4, <1>5, <1>6 DEF Held

LEMMA CommitHeld ==
  ASSUME Shaped, Shaped', Held, NEW c \in Clients, CommitEffect(c)
  PROVE Held'
<1>00. c \in Threads /\ c # "scanner" /\ c # "drainer" /\ c # "hotplug" /\ "scanner" \in Threads
  BY Names
<1>0. /\ c \in Threads /\ c # "scanner" /\ c # "drainer" /\ c # "hotplug" /\ "scanner" \in Threads
      /\ NewAt(c) /\ NoneAt
  BY <1>00, NewAtStep
<1>1. Locks'
  BY <1>0, HeldTypes, Names DEF NewAt, NoneAt, Held, Locks, Holding, Moves, CommitEffect, CallerKeeps
<1>2. Private'
  BY <1>0, HeldTypes, Names DEF NewAt, NoneAt, Held, Private, Moves, CommitEffect, CallerKeeps
<1>3. Owned'
  BY <1>0, HeldTypes, Names DEF NewAt, NoneAt, Held, Owned, Moves, Present, Stopping, CommitEffect, CallerKeeps
<1>4. Runs'
  BY <1>0, HeldTypes, Names DEF NewAt, NoneAt, Held, Runs, Moves, Running, Stopping, CommitEffect, CallerKeeps
<1>5. Sweeps'
  BY <1>0, HeldTypes, Names DEF NewAt, NoneAt, Held, Sweeps, Moves, Present, CommitEffect, CallerKeeps
<1>6. Unpinned'
  <2>1. Guards' = Guards
    BY <1>0 DEF Guards, Moves, CommitEffect, CallerKeeps
  <2>2. (Present' <=> Present) /\ (Running' <=> Running)
    BY DEF Present, Running, CommitEffect, CallerKeeps
  <2>3. CASE Commits(c)
    <3>1. Running /\ Present /\ set.ratePatches = 0
      BY <2>3 DEF Commits, Running, Present
    <3>2. IsFiniteSet(Guards) /\ Cardinality(Guards) = 0
      BY <3>1, ShapedParts, GuardsFinite DEF Rated
    <3>3. Guards = {}
      BY <3>2, FS_EmptySet
    <3>. QED BY <2>1, <2>2, <3>1, <3>3 DEF Unpinned
  <2>4. CASE ~Commits(c)
    <3>1. RatePinned' <=> RatePinned
      BY <2>4 DEF RatePinned, Kept, CommitEffect, CallerKeeps
    <3>. QED BY <2>1, <2>2, <3>1 DEF Held, Unpinned
  <2>. QED BY <2>3, <2>4
<1>. QED BY <1>1, <1>2, <1>3, <1>4, <1>5, <1>6 DEF Held

LEMMA FinishKeeperHeld ==
  ASSUME Shaped, Shaped', Held, NEW k \in Keepers, FinishKeeperEffect(k)
  PROVE Held'
<1>00. "scanner" \in Threads /\ "hotplug" \in Threads
  BY Names
<1>0. /\ "scanner" \in Threads /\ "hotplug" \in Threads
      /\ NewAt("scanner") /\ NoneAt
  BY <1>00, NewAtStep
<1>1. Locks'
  BY <1>0, HeldTypes, Names DEF NewAt, NoneAt, Held, Locks, Holding, Moves, FinishKeeperEffect
<1>2. Private'
  BY <1>0, HeldTypes, Names DEF NewAt, NoneAt, Held, Private, Moves, FinishKeeperEffect
<1>3. Owned'
  BY <1>0, HeldTypes, Names DEF NewAt, NoneAt, Held, Owned, Moves, Present, Stopping, FinishKeeperEffect
<1>4. Runs'
  BY <1>0, HeldTypes, Names DEF NewAt, NoneAt, Held, Runs, Moves, Running, Stopping, FinishKeeperEffect
<1>5. Sweeps'
  BY <1>0, HeldTypes, Names DEF NewAt, NoneAt, Held, Sweeps, Moves, Present, FinishKeeperEffect
<1>6. Unpinned'
  BY <1>0, HeldTypes, Names DEF NewAt, NoneAt, Held, Unpinned, Moves, Guards, RatePinned, Kept, Present, Running, FinishKeeperEffect
<1>. QED BY <1>1, <1>2, <1>3, <1>4, <1>5, <1>6 DEF Held

LEMMA ScannerMovesHeld ==
  ASSUME Shaped, Shaped', Held, NEW p \in {"last", "leave", "ended"}, ScannerMoves(p), pc["scanner"] \in {"loop", "last"},
         p = "leave" => scan.inSweep, p = "last" => ~scan.inSweep, p = "ended" => pc["scanner"] = "last"
  PROVE Held'
<1>00. "scanner" \in Threads /\ "hotplug" \in Threads
  BY Names
<1>0. /\ "scanner" \in Threads /\ "hotplug" \in Threads
      /\ NewAt("scanner") /\ NoneAt
  BY <1>00, NewAtStep
<1>1. Locks'
  BY <1>0, HeldTypes, Names DEF NewAt, NoneAt, Held, Locks, Holding, Moves, ScannerMoves
<1>2. Private'
  BY <1>0, HeldTypes, Names DEF NewAt, NoneAt, Held, Private, Moves, ScannerMoves
<1>3. Owned'
  BY <1>0, HeldTypes, Names DEF NewAt, NoneAt, Held, Owned, Moves, Present, Stopping, ScannerMoves
<1>4. Runs'
  BY <1>0, HeldTypes, Names DEF NewAt, NoneAt, Held, Runs, Moves, Running, Stopping, ScannerMoves
<1>5. Sweeps'
  BY <1>0, HeldTypes, Names DEF NewAt, NoneAt, Held, Sweeps, Moves, Present, ScannerMoves
<1>6. Unpinned'
  BY <1>0, HeldTypes, Names DEF NewAt, NoneAt, Held, Unpinned, Moves, Guards, RatePinned, Kept, Present, Running, ScannerMoves
<1>. QED BY <1>1, <1>2, <1>3, <1>4, <1>5, <1>6 DEF Held

LEMMA RetreatsHeld ==
  ASSUME Shaped, Shaped', Held, NEW b \in BOOLEAN, Retreats(b), loc["scanner"] = NoLocals,
         b => ~Present /\ pc["scanner"] = "leave", ~b => ~scan.inSweep /\ pc["scanner"] = "loop",
         UNCHANGED <<set, rts, handle, hw, overtaken, lost>>
  PROVE Held'
<1>00. "scanner" \in Threads /\ "hotplug" \in Threads
  BY Names
<1>0. /\ "scanner" \in Threads /\ "hotplug" \in Threads
      /\ NewAt("scanner") /\ NoneAt
  BY <1>00, NewAtStep
<1>1. Locks'
  BY <1>0, HeldTypes, Names DEF NewAt, NoneAt, Held, Locks, Holding, Moves, Retreats
<1>2. Private'
  BY <1>0, HeldTypes, Names DEF NewAt, NoneAt, Held, Private, Moves, Retreats
<1>3. Owned'
  BY <1>0, HeldTypes, Names DEF NewAt, NoneAt, Held, Owned, Moves, Present, Stopping, Retreats
<1>4. Runs'
  BY <1>0, HeldTypes, Names DEF NewAt, NoneAt, Held, Runs, Moves, Running, Stopping, Retreats
<1>5. Sweeps'
  BY <1>0, HeldTypes, Names DEF NewAt, NoneAt, Held, Sweeps, Moves, Present, Retreats
<1>6. Unpinned'
  BY <1>0, HeldTypes, Names DEF NewAt, NoneAt, Held, Unpinned, Moves, Guards, RatePinned, Kept, Present, Running, Retreats
<1>. QED BY <1>1, <1>2, <1>3, <1>4, <1>5, <1>6 DEF Held

LEMMA StillHeld ==
  ASSUME Shaped, Shaped', Held, \A q \in Runtimes : Stays(q),
         UNCHANGED <<set, handle, hw, pc, loc, scan, overtaken, lost>>
  PROVE Held'
<1>00. "scanner" \in Threads /\ "hotplug" \in Threads
  BY Names
<1>0. /\ "scanner" \in Threads /\ "hotplug" \in Threads
      /\ NewAt("scanner") /\ NoneAt
  BY <1>00, NewAtStep
<1>1. Locks'
  BY <1>0, HeldTypes, Names DEF NewAt, NoneAt, Held, Locks, Holding, Moves, Stays
<1>2. Private'
  BY <1>0, HeldTypes, Names DEF NewAt, NoneAt, Held, Private, Moves, Stays
<1>3. Owned'
  BY <1>0, HeldTypes, Names DEF NewAt, NoneAt, Held, Owned, Moves, Present, Stopping, Stays
<1>4. Runs'
  BY <1>0, HeldTypes, Names DEF NewAt, NoneAt, Held, Runs, Moves, Running, Stopping, Stays
<1>5. Sweeps'
  <2>1. scan'.inSweep = scan.inSweep /\ scan'.ending = scan.ending
    BY DEF Stays
  <2>2. SweptNow' => SweptNow /\ set'.rt = set.rt
    BY <1>0, Names, ShapedParts, SetGone DEF SweptNow, Present, Stays
  <2>3. \A o \in Threads : loc'[o].new # None =>
          \/ ~rts'[loc'[o].new].sweeping
          \/ /\ loc'[o].new = loc[o].new /\ loc'[o].ser = loc[o].ser
             /\ rts'[loc[o].new].sweeping = rts[loc[o].new].sweeping
    BY <1>0, HeldTypes, Names DEF NoneAt, Moves, Stays
  <2>4. ScannerKeeps
    BY <1>0, Names DEF ScannerKeeps, NoneAt, Moves, SweptNow, Resumes, Patched, Stopping, Stays
  <2>. QED BY <1>0, <2>1, <2>2, <2>3, <2>4, SweepsNext DEF Held
<1>6. Unpinned'
  BY <1>0, HeldTypes, Names DEF NewAt, NoneAt, Held, Unpinned, Moves, Guards, RatePinned, Kept, Present, Running, Stays
<1>. QED BY <1>1, <1>2, <1>3, <1>4, <1>5, <1>6 DEF Held

----------------------------------------------------------------------------
(* Every step keeps the shape of the state and who has what.               *)

LEMMA PatchingKeeps ==
  ASSUME Shaped, Held, NEW t \in Clients \cup {"scanner"}, Patching(t)
  PROVE Shaped' /\ Held'
<1>1. CASE \E d \in Patches \cup Centers : Ask(t, d)
  BY <1>1, AskStep, AskHeld
<1>2. CASE Admit(t)
  <2>0. pc[t] = "wait" /\ rts[loc[t].ser].patching = "free"
    BY <1>2 DEF Admit
  <2>1. CASE rts[loc[t].ser].sweeping
    <3>1. Shaped' /\ PatchEnds(t)
      BY <1>2, <2>1, AdmitRefusedStep DEF PatchFails
    <3>. QED BY <2>0, <3>1, PatchEndsHeld
  <2>2. CASE ~rts[loc[t].ser].sweeping
    BY <1>2, <2>2, AdmitStep, AdmitHeld
  <2>. QED BY <2>1, <2>2
<1>3. CASE Validate(t)
  <2>0. pc[t] = "validate"
    BY <1>3 DEF Validate
  <2>1. CASE ~Present \/ Refused(loc[t].delta)
    <3>1. Shaped' /\ PatchEnds(t)
      BY <1>3, <2>1, ValidateFailsStep DEF PatchFails
    <3>. QED BY <2>0, <3>1, PatchEndsHeld
  <2>2. CASE Present /\ ~Refused(loc[t].delta)
    BY <1>3, <2>2, ValidateStep, ValidateHeld
  <2>. QED BY <2>1, <2>2
<1>4. CASE Apply(t)
  <2>1. CASE Programs(t)
    BY <2>1, ApplyTakenStep, ApplyTakenHeld
  <2>2. CASE FindsItDone(t)
    BY <2>2, ApplyIdleStep, ApplyIdleHeld
  <2>3. ASSUME NEW b \in BOOLEAN, RefusesIt(t, b, b)
        PROVE Shaped' /\ Held'
    <3>1. Shaped' /\ PatchEnds(t)
      BY <2>3, ApplyFailsStep DEF PatchFails
    <3>2. pc[t] = "apply"
      BY <2>3 DEF RefusesIt
    <3>. QED BY <3>1, <3>2, PatchEndsHeld
  <2>. QED BY <1>4, <2>1, <2>2, <2>3, ApplyCases
<1>5. CASE WriteBack(t)
  <2>0. pc[t] = "back"
    BY <1>5 DEF WriteBack
  <2>1. CASE ~Present \/ loc[t].reverting
    <3>1. Shaped' /\ PatchEnds(t)
      BY <1>5, <2>1, WriteBackGivesUpStep DEF PatchFails
    <3>. QED BY <2>0, <3>1, PatchEndsHeld
  <2>2. CASE TooLate(t)
    BY <1>5, <2>2, WriteBackRevertsStep, WriteBackRevertsHeld
  <2>3. CASE Present /\ ~loc[t].reverting /\ ~TooLate(t) /\ ~Relaned(t)
    <3>1. Shaped' /\ PatchEnds(t)
      BY <1>5, <2>3, WriteBackEndsStep DEF WriteBackEndsEffect
    <3>. QED BY <2>0, <3>1, PatchEndsHeld
  <2>4. CASE Present /\ ~loc[t].reverting /\ ~TooLate(t) /\ Relaned(t)
    BY <1>5, <2>4, WriteBackRelanesStep, WriteBackRelanesHeld
  <2>. QED BY <2>1, <2>2, <2>3, <2>4
<1>6. CASE RestartLanes(t)
  <2>1. CASE Present
    BY <1>6, <2>1, RestartLanesStep, RestartLanesHeld
  <2>2. CASE ~Present
    BY <1>6, <2>2, RestartLanesGoneStep, RestartLanesGoneHeld
  <2>. QED BY <2>1, <2>2
<1>7. CASE StartLanes(t)
  <2>1. CASE LanesFail(t)
    BY <2>1, StartLanesFailsStep, StartLanesFailsHeld
  <2>2. ASSUME NEW r \in Runtimes, LanesStart(t, r)
        PROVE Shaped' /\ Held'
    BY <2>2, StartLanesStep, StartLanesHeld
  <2>. QED BY <1>7, <2>1, <2>2, StartLanesCases
<1>8. CASE SwapLanes(t)
  <2>1. CASE Present
    BY <1>8, <2>1, SwapLanesStep, SwapLanesHeld
  <2>2. CASE ~Present
    BY <1>8, <2>2, SwapLanesGoneStep, SwapLanesGoneHeld
  <2>. QED BY <2>1, <2>2
<1>. QED BY <1>1, <1>2, <1>3, <1>4, <1>5, <1>6, <1>7, <1>8 DEF Patching

LEMMA MarkingKeeps ==
  ASSUME Shaped, Held, NEW t \in Threads \ {"hotplug"}, Marking(t)
  PROVE Shaped' /\ Held'
<1>1. CASE MarkLanes(t)
  <2>1. CASE Present
    <3>1. Shaped' /\ FailEffect(t) /\ pc[t] = "mark"
      BY <1>1, <2>1, MarkLanesFailStep, FailStep
    <3>. QED BY <3>1, FailHeld
  <2>2. CASE ~Present
    <3>0. t \in Clients \cup {"scanner"}
      <4>1. pc[t] = "mark" /\ Fits(t, pc[t], loc[t])
        BY <1>1, ShapeOf DEF MarkLanes
      <4>. QED BY <4>1, Names DEF Fits
    <3>1. Shaped' /\ PatchEnds(t) /\ pc[t] = "mark"
      BY <1>1, <2>2, <3>0, MarkLanesStep DEF PatchFails
    <3>. QED BY <2>2, <3>0, <3>1, PatchEndsHeld
  <2>. QED BY <2>1, <2>2
<1>2. CASE Joined(t)
  BY <1>2, JoinedStep, JoinedHeld
<1>3. CASE Halt(t)
  <2>1. CASE loc[t].ser = None
    BY <1>3, <2>1, HaltStep, HaltHeld
  <2>2. CASE loc[t].ser # None
    BY <1>3, <2>2, HaltPatchStep, HaltPatchHeld
  <2>. QED BY <2>1, <2>2
<1>. QED BY <1>1, <1>2, <1>3 DEF Marking

LEMMA CallerKeepsHeld ==
  ASSUME Shaped, Held, NEW c \in Clients, Caller(c)
  PROVE Shaped' /\ Held'
<1>1. CASE StartScan(c)
  BY <1>1, StartScanStep, StartScanHeld
<1>2. CASE ListScan(c)
  <2>1. Shaped' /\ CallerKeeps(c, pc'[c]) /\ pc[c] = "list scan" /\ set'.holds = set.holds
        /\ pc'[c] \in {"idle", "joining"}
    BY <1>2, ListScanStep
  <2>2. pc'[c] \in {"idle", "joining", "commit"} /\ pc[c] \in {"idle", "list scan", "commit"}
    BY <2>1
  <2>. QED BY <2>1, <2>2, CallerHeld
<1>3. CASE StopScan(c)
  BY <1>3, StopScanStep, CallerHeld
<1>4. CASE Commit(c)
  BY <1>4, CommitStep, CommitHeld
<1>5. CASE Remove(c)
  BY <1>5, RemoveStep, RemoveHeld
<1>6. ASSUME NEW k \in Keepers, Finish(c, k)
      PROVE Shaped' /\ Held'
  BY <1>6, FinishKeeperStep, FinishKeeperHeld
<1>7. ASSUME NEW k \in Keepers, NEW stream \in Streams, Begin(c, k, stream)
      PROVE Shaped' /\ Held'
  BY <1>7, BeginStep, CallerHeld
<1>. QED BY <1>1, <1>2, <1>3, <1>4, <1>5, <1>6, <1>7 DEF Caller

LEMMA ScannerKeepsHeld ==
  ASSUME Shaped, Held, Scanner
  PROVE Shaped' /\ Held'
<1>1. CASE EndScan
  <2>1. Shaped' /\ ScannerMoves(WindsUp) /\ pc["scanner"] = "loop"
    BY <1>1, EndScanStep
  <2>2. WindsUp \in {"last", "leave", "ended"} /\ (WindsUp = "leave" => scan.inSweep)
        /\ (WindsUp = "last" => ~scan.inSweep) /\ WindsUp # "ended"
    BY DEF WindsUp
  <2>. HIDE DEF WindsUp
  <2>. QED BY <2>1, <2>2, ScannerMovesHeld
<1>2. CASE LastFollow
  BY <1>2, LastFollowStep, ScannerMovesHeld
<1>3. CASE Hit
  BY <1>3, HitStep, ScannerMovesHeld
<1>4. CASE Enter
  <2>1. CASE Reaches
    BY <1>4, <2>1, EnterStep, ReachesHeld
  <2>2. CASE ~Reaches
    BY <1>4, <2>2, EnterStep, RetreatsHeld
  <2>. QED BY <2>1, <2>2
<1>5. CASE Leave
  <2>1. CASE Reaches
    BY <1>5, <2>1, LeaveStep, ReachesHeld
  <2>2. CASE ~Reaches
    BY <1>5, <2>2, LeaveStep, RetreatsHeld
  <2>. QED BY <2>1, <2>2
<1>6. CASE NothingToTake
  BY <1>6, NothingToTakeStep, FindsSweepHeld, FindsNoRadioHeld
<1>7. CASE StartSweep
  <2>1. CASE SweepRefused
    BY <2>1, SweepRefusedStep, InHandsHeld
  <2>2. ASSUME NEW r \in Runtimes, NEW d \in Centers, SweepStarts(r, d)
        PROVE Shaped' /\ Held'
    <3>1. Shaped' /\ SweepStartsEffect(r)
      BY <2>2, SweepStartsStep
    <3>2. Takes /\ ~scan.inSweep
      BY <3>1 DEF SweepStartsEffect
    <3>. QED BY <3>1, <3>2, SweepStartsHeld
  <2>. QED BY <1>7, <2>1, <2>2, StartSweepCases
<1>8. CASE StopSweep
  BY <1>8, StopSweepStep, InHandsHeld
<1>9. CASE Restore
  <2>1. CASE DropsRadio
    BY <2>1, DropsRadioStep, DropsRadioHeld
  <2>2. ASSUME NEW r \in Runtimes, Receives(r)
        PROVE Shaped' /\ Held'
    BY <2>2, ReceivesStep, ReceivesHeld
  <2>. QED BY <1>9, <2>1, <2>2, RestoreCases
<1>10. CASE SwapSweep
  <2>1. pc["scanner"] = "swap" /\ loc["scanner"].ser = None
    BY <1>10 DEF SwapSweep
  <2>2. scan.inSweep \/ ~scan.ending
    BY <2>1 DEF Held, Sweeps
  <2>3. CASE Present
    BY <1>10, <2>2, <2>3, SwapSweepStep, SweepSwapsHeld
  <2>4. CASE ~Present
    BY <1>10, <2>4, SwapSweepGoneStep, SwapSweepGoneHeld
  <2>. QED BY <2>3, <2>4
<1>. QED BY <1>1, <1>2, <1>3, <1>4, <1>5, <1>6, <1>7, <1>8, <1>9, <1>10 DEF Scanner

LEMMA ReconnectCases ==
  ASSUME Reconnect
  PROVE \E r \in Runtimes : Reopens(r)
BY DEF Reconnect, Reopens

LEMMA NextKeepsHeld ==
  ASSUME Shaped, Held, [Next]_vars
  PROVE Shaped' /\ Held'
<1>1. ASSUME NEW t \in Clients \cup {"scanner"}, Patching(t)
      PROVE Shaped' /\ Held'
  BY <1>1, PatchingKeeps
<1>2. ASSUME NEW t \in Threads \ {"hotplug"}, Marking(t)
      PROVE Shaped' /\ Held'
  BY <1>2, MarkingKeeps
<1>3. ASSUME NEW c \in Clients, Caller(c)
      PROVE Shaped' /\ Held'
  BY <1>3, CallerKeepsHeld
<1>4. CASE Scanner
  BY <1>4, ScannerKeepsHeld
<1>5. ASSUME NEW r \in Runtimes, Die(r)
      PROVE Shaped' /\ Held'
  BY <1>5, DieStep, StillHeld
<1>6. CASE Drain
  <2>1. CASE Present
    <3>1. Shaped' /\ FailEffect("drainer") /\ pc["drainer"] = "idle"
          /\ "drainer" \in Threads \ {"hotplug"}
      BY <1>6, <2>1, DrainStep, FailStep
    <3>. QED BY <3>1, FailHeld
  <2>2. CASE ~Present
    <3>1. Shaped' /\ UNCHANGED <<set, rts, handle, hw, pc, loc, scan, overtaken, lost>>
      BY <1>6, <2>2, DrainNothingStep
    <3>2. \A q \in Runtimes : Stays(q)
      BY <3>1 DEF Stays
    <3>. QED BY <3>1, <3>2, StillHeld
  <2>. QED BY <2>1, <2>2
<1>7. CASE Reconnect
  BY <1>7, ReconnectCases, ReconnectStep, ReconnectHeld
<1>8. CASE Revive
  <2>1. CASE set.status = "Error"
    BY <1>8, <2>1, ReviveStep, ReviveHeld
  <2>2. CASE set.status # "Error"
    BY <1>8, <2>2, ReviveGoneStep, ReviveGoneHeld
  <2>. QED BY <2>1, <2>2
<1>9. CASE UNCHANGED vars
  <2>1. UNCHANGED <<set, rts, handle, hw, faults, troubles, pc, loc, scan, calls, overtaken, lost>>
    BY <1>9 DEF vars, radio, ghosts, history
  <2>2. Shaped'
    BY <2>1 DEF Shaped, TypeOK, Entry, Rated, Guards, Present
  <2>3. \A q \in Runtimes : Stays(q)
    BY <2>1 DEF Stays
  <2>. QED BY <2>1, <2>2, <2>3, StillHeld
<1>. QED BY <1>1, <1>2, <1>3, <1>4, <1>5, <1>6, <1>7, <1>8, <1>9 DEF Next

LEMMA InitHeld ==
  ASSUME Init
  PROVE Shaped /\ Held
<1>1. PICK r \in Runtimes :
        /\ set = [status |-> "Running", settings |-> First, lanes |-> First["lanes"],
                  rt |-> r, holds |-> Unheld, ratePatches |-> 0, scanner |-> FALSE]
        /\ rts = [q \in Runtimes |-> IF q = r THEN Started(FALSE, First["rate"]) ELSE Fallow]
        /\ handle = r
  BY DEF Init
<1>2. /\ hw = First /\ faults = 0 /\ troubles = 0 /\ scan = Idle
      /\ calls = 0 /\ overtaken = 0 /\ lost = FALSE
      /\ pc = [t \in Threads |-> IF t = "scanner" THEN "off" ELSE "idle"]
      /\ loc = [t \in Threads |-> NoLocals]
  BY DEF Init
<1>3. First \in Settings /\ First["lanes"] \in Nat /\ First["rate"] \in Nat
  BY RadioAssumption DEF Settings, Fields
<1>4. /\ set \in SetStates /\ set.status = "Running" /\ set.rt = r /\ set.holds = Unheld
      /\ set.ratePatches = 0
  BY <1>1, <1>3, SetGone DEF SetStates
<1>5. /\ rts \in [Runtimes -> RuntimeStates]
      /\ rts[r].meta = {First["rate"]}
      /\ \A q \in Runtimes : /\ ~rts[q].sweeping /\ rts[q].patching = "free"
                             /\ rts[q].waiting = Nothing
  <2>1. /\ Started(FALSE, First["rate"]) \in RuntimeStates
        /\ Started(FALSE, First["rate"]).sweeping = FALSE
        /\ Started(FALSE, First["rate"]).meta = {First["rate"]}
        /\ Started(FALSE, First["rate"]).waiting = Nothing
        /\ Started(FALSE, First["rate"]).patching = "free"
    BY <1>3, StartedFits
  <2>2. /\ Fallow \in RuntimeStates /\ Fallow.sweeping = FALSE
        /\ Fallow.waiting = Nothing /\ Fallow.patching = "free"
    BY RtFallow
  <2>. DEFINE a == Started(FALSE, First["rate"])
              b == Fallow
  <2>3. rts = [q \in Runtimes |-> IF q = r THEN a ELSE b]
    BY <1>1
  <2>. HIDE DEF a, b
  <2>4. rts \in [Runtimes -> RuntimeStates] /\ rts[r] = a
        /\ \A q \in Runtimes : q # r => rts[q] = b
    BY <2>1, <2>2, <2>3 DEF a, b
  <2>. QED BY <2>1, <2>2, <2>4 DEF a, b
<1>6. /\ pc \in [Threads -> Labels] /\ loc \in [Threads -> Locals]
      /\ pc["scanner"] = "off" /\ pc["hotplug"] = "idle"
      /\ \A t \in Threads : /\ loc[t] = NoLocals /\ pc[t] \in {"idle", "off"}
                            /\ t # "scanner" => pc[t] = "idle"
  BY <1>2, LocNone, Names DEF Labels
<1>7. \A t \in Threads : Fits(t, pc[t], loc[t])
  BY <1>6, LocNone, Names DEF Fits, Resting, Patched, Stopping
<1>8. scan \in [hardware: BOOLEAN, inSweep: BOOLEAN, ending: BOOLEAN] /\ ~scan.ending
      /\ ~scan.inSweep
  BY <1>2 DEF Idle
<1>9. Guards = {}
  BY <1>6, LocNone DEF Guards
<1>10. Present /\ Running
  BY <1>4 DEF Present, Running
<1>11. Shaped
  <2>1. ThreadsFit
    BY <1>6, <1>7 DEF ThreadsFit
  <2>2. Rated
    BY <1>4, <1>9, FS_EmptySet DEF Rated
  <2>3. Roomy(rts)
    BY <1>5 DEF Roomy
  <2>4. /\ faults \in 0..MaxTroubles /\ troubles \in 0..MaxTroubles /\ faults <= troubles
        /\ calls \in 0..MaxCalls /\ overtaken \in 0..MaxOvertakes
    <3>1. MaxTroubles \in Nat /\ MaxCalls \in Nat /\ MaxOvertakes \in Nat
      BY RadioAssumption
    <3>. QED BY <1>2, <3>1
  <2>5. handle \in Runtimes \cup {Closed, InHand} /\ hw \in Settings /\ set.rt \in Runtimes
        /\ lost \in BOOLEAN
    BY <1>1, <1>2, <1>3, <1>4
  <2>. QED BY <1>4, <1>5, <1>8, <1>10, <2>1, <2>2, <2>3, <2>4, <2>5, ShapedParts
<1>12. Locks
  BY <1>5, <1>6, LocNone DEF Locks, Holding
<1>13. Private
  BY <1>6, LocNone DEF Private
<1>14. Owned
  BY <1>1, <1>4, <1>5, <1>6, <1>10, Names DEF Owned
<1>15. Runs
  BY <1>1, <1>4, <1>6, LocNone DEF Runs, Stopping
<1>16. Sweeps
  BY <1>4, <1>5, <1>6, <1>8, LocNone DEF Sweeps
<1>17. Unpinned
  BY <1>9, <1>10 DEF Unpinned
<1>. QED BY <1>11, <1>12, <1>13, <1>14, <1>15, <1>16, <1>17 DEF Held

LEMMA HeldOwner ==
  ASSUME Shaped, Held
  PROVE RadioHasAnOwner
<1>. SUFFICES ASSUME Settled
     PROVE /\ handle \in {Closed, set.rt}
           /\ Running /\ ~lost => handle = set.rt
           /\ Present /\ handle = set.rt /\ rts[set.rt].sweeping
                => pc["scanner"] = "loop" /\ scan.inSweep
  BY DEF RadioHasAnOwner
<1>1. \A t \in Threads : pc[t] \in {"idle", "off", "loop", "ended"}
  BY DEF Settled
<1>2. \A t \in Threads : loc[t].new = None /\ pc[t] \notin Stopping /\ pc[t] # "mark"
  <2>1. \A t \in Threads : NewAt(t)
    BY NewAtStep
  <2>. QED BY <1>1, <2>1 DEF NewAt, Stopping
<1>3. pc["scanner"] \in {"idle", "off", "loop", "ended"}
  BY <1>1, Names
<1>4. handle \in Runtimes \cup {Closed, InHand}
  BY ShapedParts
<1>5. handle # InHand
  BY <1>3 DEF Held, Owned
<1>6. handle \in Runtimes => Present /\ set.rt = handle
  BY <1>2, Names DEF Held, Owned
<1>7. Running /\ ~lost => handle = set.rt
  BY <1>2, <1>5 DEF Held, Runs
<1>. QED BY <1>3, <1>4, <1>5, <1>6, <1>7 DEF Held, Sweeps

----------------------------------------------------------------------------
(* What the table says.                                                    *)

\* A runtime's lock has one holder.
LEMMA OneHolder ==
  ASSUME Locks, NEW t \in Threads, NEW o \in Threads, Holding(t), Holding(o),
         loc[t].ser = loc[o].ser
  PROVE t = o
BY DEF Locks

LEMMA HoldsAt ==
  ASSUME Shaped, NEW t \in Threads,
         pc[t] \in {"validate", "apply", "back", "restart", "relane", "mark"}
  PROVE Holding(t) /\ loc[t].ser \in Runtimes
BY ShapeOf, Names DEF Patched, Holding

\* The runtime that a thread works with and that has the radio is the table's.
LEMMA InTheTable ==
  ASSUME Shaped, Held, Present, handle \in Runtimes, NEW t \in Threads,
         loc[t].ser = handle \/ loc[t].rt = handle
  PROVE handle = set.rt
BY Names DEF Held, Owned, Private

\* Whoever has a runtime of his own is the only one, and the radio is there.
LEMMA OneNew ==
  ASSUME Shaped, Held, NEW t \in Threads, loc[t].new # None
  PROVE /\ handle = loc[t].new /\ set.rt # handle /\ handle \in Runtimes
        /\ \A o \in Threads : loc[o].ser # handle /\ loc[o].rt # handle
        /\ \A o \in Threads : o # t => loc[o].new = None
BY HeldTypes DEF Held, Private

\* The same of the state after a step.
LEMMA NewAfter ==
  ASSUME Shaped', Held', NEW t \in Threads
  PROVE /\ (loc'[t].new # None) <=> (pc'[t] \in {"swap", "revive"})
        /\ loc'[t].new # None =>
             /\ handle' = loc'[t].new /\ handle' \in Runtimes
             /\ \A o \in Threads : o # t => loc'[o].new = None
<1>1. loc'[t] \in Locals /\ Fits(t, pc'[t], loc'[t])
  BY DEF Shaped, TypeOK
<1>2. loc'[t].new \in Runtimes \cup {None}
  BY <1>1 DEF Locals
<1>. QED BY <1>1, <1>2 DEF Fits, Held, Private

LEMMA NotElsewhere ==
  ASSUME Shaped, Held, Present, handle = set.rt
  PROVE ~Elsewhere /\ \A t \in Threads : loc[t].new = None
<1>1. handle \in Runtimes
  BY ShapedParts
<1>. QED BY <1>1, Names DEF Held, Private, Elsewhere

\* A set that is shown as running has its radio, or it is elsewhere.
LEMMA RunningWhere ==
  ASSUME Shaped, Held, Running
  PROVE handle = set.rt \/ Elsewhere
<1>1. Present /\ pc["hotplug"] # "revive"
  BY DEF Running, Present, Held, Runs
<1>2. loc["hotplug"].new = None
  <2>1. "hotplug" \in Threads /\ Fits("hotplug", pc["hotplug"], loc["hotplug"])
    BY Names, ShapeOf
  <2>. QED BY <1>1, <2>1 DEF Fits
<1>3. handle \in Runtimes \cup {Closed, InHand}
  BY ShapedParts
<1>4. handle \in Runtimes => handle = set.rt \/ \E t \in Threads \ {"hotplug"} : loc[t].new # None
  BY <1>1, <1>2, Names DEF Held, Owned
<1>. QED BY <1>3, <1>4 DEF Elsewhere

\* Unless a patch has the answer, the table agrees with the radio.
LEMMA AgreesNow ==
  ASSUME Shaped, Held, Faithful, Present, handle = set.rt \/ Elsewhere,
         \A t \in Threads : ~Answering(t)
  PROVE Agrees
<1>1. hw \in Settings /\ set.settings = hw /\ set.lanes = hw["lanes"] => Agrees
  BY DEF Agrees
<1>. QED BY <1>1, ShapedParts DEF Faithful, Answers, Away, Same

\* Then the rate is right even if one has, as long as it does not change it.
LEMMA RateNow ==
  ASSUME Shaped, Held, Faithful, Running, Guards = {}
  PROVE set.settings["rate"] = hw["rate"]
<1>0. Present
  BY DEF Running, Present
<1>1. CASE \A t \in Threads : ~Answering(t)
  BY <1>0, <1>1, RunningWhere, AgreesNow DEF Agrees
<1>2. CASE \E t \in Threads : Answering(t)
  <2>1. PICK t \in Threads : Answering(t)
    BY <1>2
  <2>2. ~loc[t].guard
    BY DEF Guards
  <2>3. CASE handle = set.rt /\ ~rts[set.rt].sweeping
    BY <1>0, <2>1, <2>2, <2>3 DEF Faithful, Answers
  <2>4. CASE ~(handle = set.rt /\ ~rts[set.rt].sweeping)
    BY <1>0, <2>4, RunningWhere DEF Faithful, Away, Agrees
  <2>. QED BY <2>3, <2>4
<1>. QED BY <1>1, <1>2

----------------------------------------------------------------------------
(* The steps that leave the radio and the table alone.                     *)

Busy == {"apply", "back", "relane", "swap", "revive"}

Calm(o) ==
  /\ pc'[o] \in Busy => pc'[o] = pc[o] /\ loc'[o] = loc[o]
  /\ pc[o] = "back" /\ Present' => pc'[o] = pc[o]
  /\ pc[o] = "apply" => pc'[o] = "apply" \/ rts'[loc[o].ser].waiting = Nothing
  /\ loc'[o].reverting => loc[o].reverting

\* Nothing that is said of runtime r changes.
Quiet(r) ==
  /\ rts'[r].waiting = rts[r].waiting
     \/ (rts'[r].waiting = Nothing /\ \A o \in Threads : pc'[o] = "apply" => loc'[o].ser # r)
  /\ (Present' /\ r = set.rt) \/ handle' = r => rts'[r].sweeping = rts[r].sweeping
  /\ handle' = r => rts'[r].meta = rts[r].meta

LEMMA QuietStep ==
  ASSUME Shaped, Shaped', Held, Held', Faithful,
         Present' => /\ Present /\ set'.rt = set.rt
                     /\ set'.settings = set.settings /\ set'.lanes = set.lanes,
         hw' = hw, handle' \in Runtimes => handle' = handle,
         Present' /\ Elsewhere' => Elsewhere,
         \A r \in Runtimes : Quiet(r),
         \A o \in Threads : Calm(o),
         Pinned'
  PROVE Faithful'
<1>0. \A o \in Threads : loc'[o].new # None => loc'[o] = loc[o] /\ pc'[o] = pc[o]
  BY NewAfter DEF Calm, Busy
<1>00. Present' => set'.rt \in Runtimes
  BY ShapedParts
<1>1. Queues'
  <2>1. \A t \in Threads : ~loc'[t].reverting
    BY DEF Faithful, Queues, Calm
  <2>2. \A t \in Threads : pc'[t] \in {"apply", "back", "relane"} => loc'[t].rt = loc'[t].ser
    BY DEF Faithful, Queues, Calm, Busy
  <2>3. \A t \in Threads : pc'[t] = "apply" => rts'[loc'[t].ser].waiting = loc'[t].delta
    <3>1. ASSUME NEW t \in Threads, pc'[t] = "apply"
          PROVE rts'[loc'[t].ser].waiting = loc'[t].delta
      <4>1. pc[t] = "apply" /\ loc'[t] = loc[t]
        BY <3>1 DEF Calm, Busy
      <4>2. loc[t].ser \in Runtimes
        BY <4>1, HoldsAt
      <4>. QED BY <3>1, <4>1, <4>2 DEF Faithful, Queues, Quiet
    <3>. QED BY <3>1
  <2>4. \A r \in Runtimes : rts'[r].waiting # Nothing =>
          \E t \in Threads : pc'[t] = "apply" /\ loc'[t].ser = r
    BY DEF Faithful, Queues, Quiet, Calm, Busy
  <2>. QED BY <2>1, <2>2, <2>3, <2>4 DEF Queues
<1>2. Stale'
  <2>1. ASSUME Present', NEW t \in Threads, pc'[t] = "back", loc'[t].ser # set'.rt \/ Elsewhere'
        PROVE loc'[t].delta = Nothing /\ loc'[t].actual = Nothing
    <3>1. pc[t] = "back" /\ loc'[t] = loc[t]
      BY <2>1 DEF Calm, Busy
    <3>. QED BY <2>1, <3>1 DEF Faithful, Stale, Harmless
  <2>. QED BY <2>1 DEF Stale, Harmless
<1>3. Guarded'
  <2>1. ASSUME Present', handle' = set'.rt, NEW t \in Threads, pc'[t] \in {"apply", "back"},
               loc'[t].ser = set'.rt, ~loc'[t].guard
        PROVE ~ChangesRate(loc[t].delta)' 
    <3>1. pc[t] = pc'[t] /\ loc'[t] = loc[t]
      BY <2>1 DEF Calm, Busy
    <3>2. handle = set.rt /\ set'.settings = set.settings /\ Present /\ set'.rt = set.rt
      BY <1>00, <2>1
    <3>3. ~ChangesRate(loc[t].delta)
      BY <2>1, <3>1, <3>2 DEF Faithful, Guarded
    <3>. QED BY <3>1, <3>2, <3>3 DEF ChangesRate
  <2>. QED BY <2>1 DEF Guarded
<1>4. Answers'
  <2>1. ASSUME Present', handle' = set'.rt, ~rts'[set'.rt].sweeping
        PROVE /\ \A t \in Threads : Answering(t)' => /\ loc'[t].actual = hw'
                                                     /\ ~loc'[t].guard => set'.settings["rate"] = hw'["rate"]
              /\ (\A t \in Threads : ~Answering(t)') => Same' /\ rts'[set'.rt].meta = {hw'["rate"]}
    <3>1. /\ handle = set.rt /\ set'.settings = set.settings /\ set'.lanes = set.lanes
          /\ Present /\ set'.rt = set.rt /\ handle' = set.rt /\ set.rt \in Runtimes
      BY <1>00, <2>1
    <3>2. ~rts[set.rt].sweeping /\ rts'[set.rt].meta = rts[set.rt].meta
      BY <2>1, <3>1 DEF Quiet
    <3>3. \A t \in Threads : /\ Answering(t)' => Answering(t) /\ loc'[t] = loc[t]
                             /\ Answering(t) => Answering(t)'
      BY <2>1, <3>1 DEF Answering, Calm, Busy
    <3>4. \A t \in Threads : Answering(t) =>
            loc[t].actual = hw /\ (~loc[t].guard => set.settings["rate"] = hw["rate"])
      BY <3>1, <3>2 DEF Faithful, Answers
    <3>5. (\A t \in Threads : ~Answering(t)) => Same /\ rts[set.rt].meta = {hw["rate"]}
      BY <3>1, <3>2 DEF Faithful, Answers
    <3>6. Same => Same'
      BY <3>1 DEF Same
    <3>. QED BY <3>1, <3>2, <3>3, <3>4, <3>5, <3>6
  <2>. QED BY <2>1 DEF Answers
<1>5. Away'
  <2>1. Present' /\ Agrees => Agrees'
    BY DEF Agrees
  <2>2. Present' /\ handle' = set'.rt /\ rts'[set'.rt].sweeping =>
          Present /\ handle = set.rt /\ rts[set.rt].sweeping
    BY <1>00 DEF Quiet
  <2>3. Present' /\ Elsewhere' => Present /\ Elsewhere
    OBVIOUS
  <2>. QED BY <2>1, <2>2, <2>3 DEF Faithful, Away
<1>6. Carried'
  <2>1. ASSUME Present', NEW t \in Threads \ {"hotplug"}, loc'[t].new # None,
               ~rts'[loc'[t].new].sweeping
        PROVE Same' /\ rts'[loc'[t].new].meta = {hw'["rate"]}
    <3>1. loc'[t].new = loc[t].new /\ handle' = loc[t].new /\ handle' \in Runtimes
      BY <1>0, <2>1, NewAfter
    <3>2. rts'[loc[t].new].sweeping = rts[loc[t].new].sweeping
          /\ rts'[loc[t].new].meta = rts[loc[t].new].meta
      BY <3>1 DEF Quiet
    <3>3. Same /\ rts[loc[t].new].meta = {hw["rate"]}
      BY <2>1, <3>1, <3>2 DEF Faithful, Carried
    <3>4. Same'
      BY <2>1, <3>3 DEF Same
    <3>. QED BY <3>1, <3>2, <3>3, <3>4
  <2>. QED BY <2>1 DEF Carried
<1>7. Reopened'
  <2>1. ASSUME pc'["hotplug"] = "revive"
        PROVE loc'["hotplug"].actual = hw' /\ rts'[loc'["hotplug"].new].meta = {hw'["rate"]}
    <3>0. "hotplug" \in Threads
      BY Names
    <3>1. pc["hotplug"] = "revive" /\ loc'["hotplug"] = loc["hotplug"]
      BY <2>1, <3>0 DEF Calm, Busy
    <3>2. loc'["hotplug"].new # None
      BY <2>1, <3>0, NewAfter
    <3>3. handle' = loc["hotplug"].new /\ handle' \in Runtimes
      BY <3>0, <3>1, <3>2, NewAfter
    <3>4. rts'[handle'].meta = rts[handle'].meta
      BY <3>3 DEF Quiet
    <3>. QED BY <3>1, <3>3, <3>4 DEF Faithful, Reopened
  <2>. QED BY <2>1 DEF Reopened
<1>8. Relaning'
  <2>1. ASSUME Present', NEW t \in Threads, pc'[t] = "relane", handle' = loc'[t].rt
        PROVE loc'[t].rate = hw'["rate"]
    <3>1. pc[t] = "relane" /\ loc'[t] = loc[t]
      BY <2>1 DEF Calm, Busy
    <3>2. loc[t].rt \in Runtimes
      BY <3>1, ShapeOf
    <3>. QED BY <2>1, <3>1, <3>2 DEF Faithful, Relaning
  <2>. QED BY <2>1 DEF Relaning
<1>. QED BY <1>1, <1>2, <1>3, <1>4, <1>5, <1>6, <1>7, <1>8 DEF Faithful

LEMMA PinnedSame ==
  ASSUME Faithful, hw' = hw,
         \A k \in Keepers : Kept(k)' => /\ Kept(k) /\ set'.holds[k] = set.holds[k]
                                        /\ set'.settings = set.settings
  PROVE Pinned'
BY DEF Faithful, Pinned

LEMMA AskTold ==
  ASSUME Shaped, Shaped', Held, Held', Faithful, NEW t \in Clients \cup {"scanner"}, AskEffect(t)
  PROVE Faithful'
<1>00. t \in Threads /\ t # "hotplug" /\ "scanner" \in Threads /\ "hotplug" \in Threads
  BY Names
<1>0. /\ t \in Threads /\ t # "hotplug" /\ "scanner" \in Threads /\ "hotplug" \in Threads
      /\ NewAt(t) /\ NoneAt
  BY <1>00, NewAtStep
<1>1. Present' => /\ Present /\ set'.rt = set.rt
                  /\ set'.settings = set.settings /\ set'.lanes = set.lanes
  BY SetGone DEF Present, AskEffect
<1>2. hw' = hw /\ (handle' \in Runtimes => handle' = handle)
  BY Names DEF AskEffect
<1>3. Present' /\ Elsewhere' => Elsewhere
  BY <1>0, Names DEF NewAt, NoneAt, Elsewhere, Running, Present, Moves, AskEffect
<1>4. \A r \in Runtimes : Quiet(r)
  BY <1>0, Names, ShapedParts DEF Quiet, NoneAt, Moves, Present, AskEffect
<1>5. \A o \in Threads : Calm(o)
  BY <1>0, Names DEF Calm, Busy, NoneAt, Moves, Present, AskEffect
<1>6. Pinned'
  BY <1>2, PinnedSame, SetGone DEF Kept, AskEffect
<1>. QED BY <1>1, <1>2, <1>3, <1>4, <1>5, <1>6, QuietStep

LEMMA AdmitTold ==
  ASSUME Shaped, Shaped', Held, Held', Faithful, NEW t \in Clients \cup {"scanner"}, AdmitEffect(t)
  PROVE Faithful'
<1>00. t \in Threads /\ t # "hotplug" /\ "scanner" \in Threads /\ "hotplug" \in Threads
  BY Names
<1>0. /\ t \in Threads /\ t # "hotplug" /\ "scanner" \in Threads /\ "hotplug" \in Threads
      /\ NewAt(t) /\ NoneAt
  BY <1>00, NewAtStep
<1>1. Present' => /\ Present /\ set'.rt = set.rt
                  /\ set'.settings = set.settings /\ set'.lanes = set.lanes
  BY SetGone DEF Present, AdmitEffect
<1>2. hw' = hw /\ (handle' \in Runtimes => handle' = handle)
  BY Names DEF AdmitEffect
<1>3. Present' /\ Elsewhere' => Elsewhere
  BY <1>0, Names DEF NewAt, NoneAt, Elsewhere, Running, Present, Moves, AdmitEffect
<1>4. \A r \in Runtimes : Quiet(r)
  BY <1>0, Names, ShapedParts DEF Quiet, NoneAt, Moves, Present, AdmitEffect
<1>5. \A o \in Threads : Calm(o)
  BY <1>0, Names DEF Calm, Busy, NoneAt, Moves, Present, AdmitEffect
<1>6. Pinned'
  BY <1>2, PinnedSame, SetGone DEF Kept, AdmitEffect
<1>. QED BY <1>1, <1>2, <1>3, <1>4, <1>5, <1>6, QuietStep

LEMMA PatchFailsTold ==
  ASSUME Shaped, Shaped', Held, Held', Faithful, NEW t \in Clients \cup {"scanner"}, PatchFails(t), pc[t] = "back" => ~Present
  PROVE Faithful'
<1>00. t \in Threads /\ t # "hotplug" /\ "scanner" \in Threads /\ "hotplug" \in Threads
  BY Names
<1>0. /\ t \in Threads /\ t # "hotplug" /\ "scanner" \in Threads /\ "hotplug" \in Threads
      /\ NewAt(t) /\ NoneAt
  BY <1>00, NewAtStep
<1>1. Present' => /\ Present /\ set'.rt = set.rt
                  /\ set'.settings = set.settings /\ set'.lanes = set.lanes
  BY SetGone DEF Present, PatchFails, PatchEnds, OnlyFor, Resumes
<1>2. hw' = hw /\ (handle' \in Runtimes => handle' = handle)
  BY Names DEF PatchFails, PatchEnds, OnlyFor, Resumes
<1>3. Present' /\ Elsewhere' => Elsewhere
  BY <1>0, Names DEF NewAt, NoneAt, Elsewhere, Running, Present, Moves, PatchFails, PatchEnds, OnlyFor, Resumes
<1>4. \A r \in Runtimes : Quiet(r)
  <2>1. pc[t] = "apply" => loc[t].rt = loc[t].ser
    BY <1>0 DEF Faithful, Queues
  <2>2. pc'[t] # "apply" /\ loc[t].ser \in Runtimes
    BY DEF PatchFails, PatchEnds, Moves, Resumes
  <2>3. \A o \in Threads : pc'[o] = "apply" => pc[o] = "apply" /\ loc'[o] = loc[o] /\ o # t
    BY <2>2 DEF PatchFails, PatchEnds, Moves
  <2>4. pc[t] = "apply" => \A o \in Threads : pc'[o] = "apply" => loc'[o].ser # loc[t].ser
    BY <1>0, <2>3, HoldsAt, OneHolder DEF Held
  <2>5. ASSUME NEW r \in Runtimes
        PROVE Quiet(r)
    <3>1. CASE r = loc[t].ser /\ OnlyFor(t, r) /\ ~rts'[r].sweeping /\ rts'[r].waiting = Nothing
      BY <2>3, <3>1 DEF Quiet, OnlyFor, Present, PatchFails, PatchEnds
    <3>2. CASE ~(r = loc[t].ser /\ OnlyFor(t, r) /\ ~rts'[r].sweeping /\ rts'[r].waiting = Nothing)
      <4>1. rts'[r].sweeping = rts[r].sweeping
        BY <3>2 DEF PatchFails, PatchEnds
      <4>2. \/ rts'[r].waiting = rts[r].waiting
            \/ pc[t] = "apply" /\ r = loc[t].rt /\ rts'[r].waiting = Nothing
        BY <3>2 DEF PatchFails, PatchEnds
      <4>3. handle' = r => rts'[r].meta = rts[r].meta
        BY DEF PatchFails, PatchEnds, OnlyFor
      <4>. QED BY <2>1, <2>4, <4>1, <4>2, <4>3 DEF Quiet
    <3>. QED BY <3>1, <3>2
  <2>. QED BY <2>5
<1>5. \A o \in Threads : Calm(o)
  <2>1. pc[t] = "apply" => rts'[loc[t].ser].waiting = Nothing
    BY <1>0 DEF Faithful, Queues, PatchFails, PatchEnds
  <2>2. pc'[t] \notin Busy /\ ~loc'[t].reverting
    BY <1>0 DEF NoneAt, Busy, Moves, PatchFails, PatchEnds, Resumes
  <2>3. Present' => Present
    BY <1>1
  <2>4. Calm(t)
    BY <2>1, <2>2, <2>3 DEF Calm
  <2>5. \A o \in Threads : o # t => pc'[o] = pc[o] /\ loc'[o] = loc[o]
    BY DEF Moves, PatchFails, PatchEnds
  <2>. QED BY <2>4, <2>5 DEF Calm
<1>6. Pinned'
  BY <1>2, PinnedSame, SetGone DEF Kept, PatchFails, PatchEnds, OnlyFor, Resumes
<1>. QED BY <1>1, <1>2, <1>3, <1>4, <1>5, <1>6, QuietStep

LEMMA RestartLanesGoneTold ==
  ASSUME Shaped, Shaped', Held, Held', Faithful, NEW t \in Clients \cup {"scanner"}, RestartLanesGoneEffect(t)
  PROVE Faithful'
<1>00. t \in Threads /\ t # "hotplug" /\ "scanner" \in Threads /\ "hotplug" \in Threads
  BY Names
<1>0. /\ t \in Threads /\ t # "hotplug" /\ "scanner" \in Threads /\ "hotplug" \in Threads
      /\ NewAt(t) /\ NoneAt
  BY <1>00, NewAtStep
<1>1. Present' => /\ Present /\ set'.rt = set.rt
                  /\ set'.settings = set.settings /\ set'.lanes = set.lanes
  BY SetGone DEF Present, RestartLanesGoneEffect
<1>2. hw' = hw /\ (handle' \in Runtimes => handle' = handle)
  BY Names DEF RestartLanesGoneEffect
<1>3. Present' /\ Elsewhere' => Elsewhere
  BY <1>0, Names DEF NewAt, NoneAt, Elsewhere, Running, Present, Moves, RestartLanesGoneEffect
<1>4. \A r \in Runtimes : Quiet(r)
  BY <1>0, Names, ShapedParts DEF Quiet, NoneAt, Moves, Present, RestartLanesGoneEffect
<1>5. \A o \in Threads : Calm(o)
  BY <1>0, Names DEF Calm, Busy, NoneAt, Moves, Present, RestartLanesGoneEffect
<1>6. Pinned'
  BY <1>2, PinnedSame, SetGone DEF Kept, RestartLanesGoneEffect
<1>. QED BY <1>1, <1>2, <1>3, <1>4, <1>5, <1>6, QuietStep

LEMMA SwapLanesGoneTold ==
  ASSUME Shaped, Shaped', Held, Held', Faithful, NEW t \in Clients \cup {"scanner"}, ~Present, SwapLanesGoneEffect(t)
  PROVE Faithful'
<1>00. t \in Threads /\ t # "hotplug" /\ "scanner" \in Threads /\ "hotplug" \in Threads
  BY Names
<1>0. /\ t \in Threads /\ t # "hotplug" /\ "scanner" \in Threads /\ "hotplug" \in Threads
      /\ NewAt(t) /\ NoneAt
  BY <1>00, NewAtStep
<1>1. Present' => /\ Present /\ set'.rt = set.rt
                  /\ set'.settings = set.settings /\ set'.lanes = set.lanes
  BY SetGone DEF Present, SwapLanesGoneEffect, Halts, Stays
<1>2. hw' = hw /\ (handle' \in Runtimes => handle' = handle)
  BY Names DEF SwapLanesGoneEffect, Halts, Stays
<1>3. Present' /\ Elsewhere' => Elsewhere
  BY <1>0, Names DEF NewAt, NoneAt, Elsewhere, Running, Present, Moves, SwapLanesGoneEffect, Halts, Stays
<1>4. \A r \in Runtimes : Quiet(r)
  BY <1>0, Names, ShapedParts DEF Quiet, NoneAt, Moves, Present, SwapLanesGoneEffect, Halts, Stays
<1>5. \A o \in Threads : Calm(o)
  BY <1>0, Names DEF Calm, Busy, NoneAt, Moves, Present, SwapLanesGoneEffect, Halts, Stays
<1>6. Pinned'
  BY <1>2, PinnedSame, SetGone DEF Kept, SwapLanesGoneEffect, Halts, Stays
<1>. QED BY <1>1, <1>2, <1>3, <1>4, <1>5, <1>6, QuietStep

LEMMA FailTold ==
  ASSUME Shaped, Shaped', Held, Held', Faithful, NEW t \in Threads \ {"hotplug"}, FailEffect(t),
         pc[t] = "mark" \/ (t = "drainer" /\ pc[t] = "idle")
  PROVE Faithful'
<1>00. t \in Threads /\ t # "hotplug" /\ "scanner" \in Threads /\ "hotplug" \in Threads
  BY Names
<1>0. /\ t \in Threads /\ t # "hotplug" /\ "scanner" \in Threads /\ "hotplug" \in Threads
      /\ NewAt(t) /\ NoneAt
  BY <1>00, NewAtStep
<1>1. Present' => /\ Present /\ set'.rt = set.rt
                  /\ set'.settings = set.settings /\ set'.lanes = set.lanes
  BY SetGone DEF Present, FailEffect, Stopping
<1>2. hw' = hw /\ (handle' \in Runtimes => handle' = handle)
  BY Names DEF FailEffect, Stopping
<1>3. Present' /\ Elsewhere' => Elsewhere
  BY <1>0, Names DEF NewAt, NoneAt, Elsewhere, Running, Present, Moves, FailEffect, Stopping
<1>4. \A r \in Runtimes : Quiet(r)
  BY <1>0, Names, ShapedParts DEF Quiet, NoneAt, Moves, Present, FailEffect, Stopping
<1>5. \A o \in Threads : Calm(o)
  BY <1>0, Names DEF Calm, Busy, NoneAt, Moves, Present, FailEffect, Stopping
<1>6. Pinned'
  BY <1>2, PinnedSame, SetGone DEF Kept, FailEffect, Stopping
<1>. QED BY <1>1, <1>2, <1>3, <1>4, <1>5, <1>6, QuietStep

LEMMA JoinedTold ==
  ASSUME Shaped, Shaped', Held, Held', Faithful, NEW t \in Threads \ {"hotplug"}, JoinedEffect(t)
  PROVE Faithful'
<1>00. t \in Threads /\ t # "hotplug" /\ "scanner" \in Threads /\ "hotplug" \in Threads
  BY Names
<1>0. /\ t \in Threads /\ t # "hotplug" /\ "scanner" \in Threads /\ "hotplug" \in Threads
      /\ NewAt(t) /\ NoneAt
  BY <1>00, NewAtStep
<1>1. Present' => /\ Present /\ set'.rt = set.rt
                  /\ set'.settings = set.settings /\ set'.lanes = set.lanes
  BY SetGone DEF Present, JoinedEffect
<1>2. hw' = hw /\ (handle' \in Runtimes => handle' = handle)
  BY Names DEF JoinedEffect
<1>3. Present' /\ Elsewhere' => Elsewhere
  BY <1>0, Names DEF NewAt, NoneAt, Elsewhere, Running, Present, Moves, JoinedEffect
<1>4. \A r \in Runtimes : Quiet(r)
  BY <1>0, Names, ShapedParts DEF Quiet, NoneAt, Moves, Present, JoinedEffect
<1>5. \A o \in Threads : Calm(o)
  BY <1>0, Names DEF Calm, Busy, NoneAt, Moves, Present, JoinedEffect
<1>6. Pinned'
  BY <1>2, PinnedSame, SetGone DEF Kept, JoinedEffect
<1>. QED BY <1>1, <1>2, <1>3, <1>4, <1>5, <1>6, QuietStep

LEMMA HaltPatchTold ==
  ASSUME Shaped, Shaped', Held, Held', Faithful, NEW t \in Threads \ {"hotplug"}, HaltPatchEffect(t)
  PROVE Faithful'
<1>00. t \in Threads /\ t # "hotplug" /\ "scanner" \in Threads /\ "hotplug" \in Threads
  BY Names
<1>0. /\ t \in Threads /\ t # "hotplug" /\ "scanner" \in Threads /\ "hotplug" \in Threads
      /\ NewAt(t) /\ NoneAt
  BY <1>00, NewAtStep
<1>1. Present' => /\ Present /\ set'.rt = set.rt
                  /\ set'.settings = set.settings /\ set'.lanes = set.lanes
  BY SetGone DEF Present, HaltPatchEffect, OnlyFor, Released, Resumes
<1>2. hw' = hw /\ (handle' \in Runtimes => handle' = handle)
  BY Names DEF HaltPatchEffect, OnlyFor, Released, Resumes
<1>3. Present' /\ Elsewhere' => Elsewhere
  <2>1. handle = loc[t].rt /\ Present => ~Running
    <3>1. handle = loc[t].rt /\ Present => handle = set.rt /\ handle \in Runtimes
      BY <1>0, InTheTable DEF HaltPatchEffect, OnlyFor, Released, Resumes
    <3>. QED BY <1>0, <3>1, Names DEF Held, Runs, Stopping, HaltPatchEffect, OnlyFor, Released, Resumes
  <2>2. \A o \in Threads : loc'[o].new # None => loc[o].new # None
    BY <1>0 DEF NoneAt, Moves, HaltPatchEffect, OnlyFor, Released, Resumes
  <2>3. (Running' <=> Running) /\ (Present' <=> Present)
    BY DEF Running, Present, HaltPatchEffect, OnlyFor, Released, Resumes
  <2>4. handle' = handle \/ (handle' = Closed /\ handle = loc[t].rt)
    BY DEF HaltPatchEffect, OnlyFor, Released, Resumes
  <2>. QED BY <2>1, <2>2, <2>3, <2>4, Names DEF Elsewhere
<1>4. \A r \in Runtimes : Quiet(r)
  BY <1>0, Names, ShapedParts DEF Quiet, NoneAt, Moves, Present, HaltPatchEffect, OnlyFor, Released, Resumes
<1>5. \A o \in Threads : Calm(o)
  BY <1>0, Names DEF Calm, Busy, NoneAt, Moves, Present, HaltPatchEffect, OnlyFor, Released, Resumes
<1>6. Pinned'
  BY <1>2, PinnedSame, SetGone DEF Kept, HaltPatchEffect, OnlyFor, Released, Resumes
<1>. QED BY <1>1, <1>2, <1>3, <1>4, <1>5, <1>6, QuietStep

LEMMA HaltTold ==
  ASSUME Shaped, Shaped', Held, Held', Faithful, NEW t \in Threads \ {"hotplug"}, HaltEffect(t), loc[t].ser = None
  PROVE Faithful'
<1>00. t \in Threads /\ t # "hotplug" /\ "scanner" \in Threads /\ "hotplug" \in Threads
  BY Names
<1>0. /\ t \in Threads /\ t # "hotplug" /\ "scanner" \in Threads /\ "hotplug" \in Threads
      /\ NewAt(t) /\ NoneAt
  BY <1>00, NewAtStep
<1>1. Present' => /\ Present /\ set'.rt = set.rt
                  /\ set'.settings = set.settings /\ set'.lanes = set.lanes
  BY SetGone DEF Present, HaltEffect, Halts, Stays, Released, Resumes
<1>2. hw' = hw /\ (handle' \in Runtimes => handle' = handle)
  BY Names DEF HaltEffect, Halts, Stays, Released, Resumes
<1>3. Present' /\ Elsewhere' => Elsewhere
  <2>1. handle = loc[t].rt /\ Present => ~Running
    <3>1. handle = loc[t].rt /\ Present => handle = set.rt /\ handle \in Runtimes
      BY <1>0, InTheTable DEF HaltEffect, Halts, Stays, Released, Resumes
    <3>. QED BY <1>0, <3>1, Names DEF Held, Runs, Stopping, HaltEffect, Halts, Stays, Released, Resumes
  <2>2. \A o \in Threads : loc'[o].new # None => loc[o].new # None
    BY <1>0 DEF NoneAt, Moves, HaltEffect, Halts, Stays, Released, Resumes
  <2>3. (Running' <=> Running) /\ (Present' <=> Present)
    BY DEF Running, Present, HaltEffect, Halts, Stays, Released, Resumes
  <2>4. handle' = handle \/ (handle' = Closed /\ handle = loc[t].rt)
    BY DEF HaltEffect, Halts, Stays, Released, Resumes
  <2>. QED BY <2>1, <2>2, <2>3, <2>4, Names DEF Elsewhere
<1>4. \A r \in Runtimes : Quiet(r)
  BY <1>0, Names, ShapedParts DEF Quiet, NoneAt, Moves, Present, HaltEffect, Halts, Stays, Released, Resumes
<1>5. \A o \in Threads : Calm(o)
  BY <1>0, Names DEF Calm, Busy, NoneAt, Moves, Present, HaltEffect, Halts, Stays, Released, Resumes
<1>6. Pinned'
  BY <1>2, PinnedSame, SetGone DEF Kept, HaltEffect, Halts, Stays, Released, Resumes
<1>. QED BY <1>1, <1>2, <1>3, <1>4, <1>5, <1>6, QuietStep

LEMMA ReviveGoneTold ==
  ASSUME Shaped, Shaped', Held, Held', Faithful, set.status # "Error", ReviveGoneEffect
  PROVE Faithful'
<1>00. "scanner" \in Threads /\ "hotplug" \in Threads
  BY Names
<1>0. /\ "scanner" \in Threads /\ "hotplug" \in Threads
      /\ NewAt("scanner") /\ NoneAt
  BY <1>00, NewAtStep
<1>1. Present' => /\ Present /\ set'.rt = set.rt
                  /\ set'.settings = set.settings /\ set'.lanes = set.lanes
  BY SetGone DEF Present, ReviveGoneEffect, Halts, Stays
<1>2. hw' = hw /\ (handle' \in Runtimes => handle' = handle)
  BY Names DEF ReviveGoneEffect, Halts, Stays
<1>3. Present' /\ Elsewhere' => Elsewhere
  <2>1. ~Running
    BY DEF Held, Runs, ReviveGoneEffect, Halts, Stays
  <2>2. set.status \in {"Running", "Error", "Absent"}
    BY ShapedParts DEF SetStates
  <2>. QED BY <2>1, <2>2 DEF Running, Present, ReviveGoneEffect, Halts, Stays
<1>4. \A r \in Runtimes : Quiet(r)
  BY <1>0, Names, ShapedParts DEF Quiet, NoneAt, Moves, Present, ReviveGoneEffect, Halts, Stays
<1>5. \A o \in Threads : Calm(o)
  BY <1>0, Names DEF Calm, Busy, NoneAt, Moves, Present, ReviveGoneEffect, Halts, Stays
<1>6. Pinned'
  BY <1>2, PinnedSame, SetGone DEF Kept, ReviveGoneEffect, Halts, Stays
<1>. QED BY <1>1, <1>2, <1>3, <1>4, <1>5, <1>6, QuietStep

LEMMA RemoveTold ==
  ASSUME Shaped, Shaped', Held, Held', Faithful, NEW c \in Clients, RemoveEffect(c)
  PROVE Faithful'
<1>00. c \in Threads /\ c # "scanner" /\ c # "hotplug" /\ "scanner" \in Threads /\ "hotplug" \in Threads
  BY Names
<1>0. /\ c \in Threads /\ c # "scanner" /\ c # "hotplug" /\ "scanner" \in Threads /\ "hotplug" \in Threads
      /\ NewAt(c) /\ NoneAt
  BY <1>00, NewAtStep
<1>1. Present' => /\ Present /\ set'.rt = set.rt
                  /\ set'.settings = set.settings /\ set'.lanes = set.lanes
  BY SetGone DEF Present, RemoveEffect, Stopping
<1>2. hw' = hw /\ (handle' \in Runtimes => handle' = handle)
  BY Names DEF RemoveEffect, Stopping
<1>3. Present' /\ Elsewhere' => Elsewhere
  BY SetGone DEF Present, RemoveEffect, Stopping
<1>4. \A r \in Runtimes : Quiet(r)
  BY <1>0, Names, ShapedParts DEF Quiet, NoneAt, Moves, Present, RemoveEffect, Stopping
<1>5. \A o \in Threads : Calm(o)
  BY <1>0, Names DEF Calm, Busy, NoneAt, Moves, Present, RemoveEffect, Stopping
<1>6. Pinned'
  BY <1>2, PinnedSame, SetGone DEF Kept, RemoveEffect, Stopping
<1>. QED BY <1>1, <1>2, <1>3, <1>4, <1>5, <1>6, QuietStep

LEMMA StartScanTold ==
  ASSUME Shaped, Shaped', Held, Held', Faithful, NEW c \in Clients, StartScanEffect(c)
  PROVE Faithful'
<1>00. c \in Threads /\ c # "scanner" /\ c # "hotplug" /\ "scanner" \in Threads /\ "hotplug" \in Threads
  BY Names
<1>0. /\ c \in Threads /\ c # "scanner" /\ c # "hotplug" /\ "scanner" \in Threads /\ "hotplug" \in Threads
      /\ NewAt(c) /\ NoneAt
  BY <1>00, NewAtStep
<1>1. Present' => /\ Present /\ set'.rt = set.rt
                  /\ set'.settings = set.settings /\ set'.lanes = set.lanes
  BY SetGone DEF Present, StartScanEffect
<1>2. hw' = hw /\ (handle' \in Runtimes => handle' = handle)
  BY Names DEF StartScanEffect
<1>3. Present' /\ Elsewhere' => Elsewhere
  BY <1>0, Names DEF NewAt, NoneAt, Elsewhere, Running, Present, Moves, StartScanEffect
<1>4. \A r \in Runtimes : Quiet(r)
  BY <1>0, Names, ShapedParts DEF Quiet, NoneAt, Moves, Present, StartScanEffect
<1>5. \A o \in Threads : Calm(o)
  BY <1>0, Names DEF Calm, Busy, NoneAt, Moves, Present, StartScanEffect
<1>6. Pinned'
  BY <1>2, PinnedSame, SetGone DEF Kept, StartScanEffect
<1>. QED BY <1>1, <1>2, <1>3, <1>4, <1>5, <1>6, QuietStep

LEMMA ReachesTold ==
  ASSUME Shaped, Shaped', Held, Held', Faithful, pc["scanner"] \in {"loop", "leave"}, Reaches
  PROVE Faithful'
<1>00. "scanner" \in Threads /\ "hotplug" \in Threads
  BY Names
<1>0. /\ "scanner" \in Threads /\ "hotplug" \in Threads
      /\ NewAt("scanner") /\ NoneAt
  BY <1>00, NewAtStep
<1>1. Present' => /\ Present /\ set'.rt = set.rt
                  /\ set'.settings = set.settings /\ set'.lanes = set.lanes
  BY SetGone DEF Present, Reaches
<1>2. hw' = hw /\ (handle' \in Runtimes => handle' = handle)
  BY Names DEF Reaches
<1>3. Present' /\ Elsewhere' => Elsewhere
  BY <1>0, Names DEF NewAt, NoneAt, Elsewhere, Running, Present, Moves, Reaches
<1>4. \A r \in Runtimes : Quiet(r)
  BY <1>0, Names, ShapedParts DEF Quiet, NoneAt, Moves, Present, Reaches
<1>5. \A o \in Threads : Calm(o)
  BY <1>0, Names DEF Calm, Busy, NoneAt, Moves, Present, Reaches
<1>6. Pinned'
  BY <1>2, PinnedSame, SetGone DEF Kept, Reaches
<1>. QED BY <1>1, <1>2, <1>3, <1>4, <1>5, <1>6, QuietStep

LEMMA FindsSweepTold ==
  ASSUME Shaped, Shaped', Held, Held', Faithful, pc["scanner"] = "take", FindsSweep
  PROVE Faithful'
<1>00. "scanner" \in Threads /\ "hotplug" \in Threads
  BY Names
<1>0. /\ "scanner" \in Threads /\ "hotplug" \in Threads
      /\ NewAt("scanner") /\ NoneAt
  BY <1>00, NewAtStep
<1>1. Present' => /\ Present /\ set'.rt = set.rt
                  /\ set'.settings = set.settings /\ set'.lanes = set.lanes
  BY SetGone DEF Present, FindsSweep
<1>2. hw' = hw /\ (handle' \in Runtimes => handle' = handle)
  BY Names DEF FindsSweep
<1>3. Present' /\ Elsewhere' => Elsewhere
  BY <1>0, Names DEF NewAt, NoneAt, Elsewhere, Running, Present, Moves, FindsSweep
<1>4. \A r \in Runtimes : Quiet(r)
  BY <1>0, Names, ShapedParts DEF Quiet, NoneAt, Moves, Present, FindsSweep
<1>5. \A o \in Threads : Calm(o)
  BY <1>0, Names DEF Calm, Busy, NoneAt, Moves, Present, FindsSweep
<1>6. Pinned'
  BY <1>2, PinnedSame, SetGone DEF Kept, FindsSweep
<1>. QED BY <1>1, <1>2, <1>3, <1>4, <1>5, <1>6, QuietStep

LEMMA FindsNoRadioTold ==
  ASSUME Shaped, Shaped', Held, Held', Faithful, pc["scanner"] = "take", FindsNoRadio
  PROVE Faithful'
<1>00. "scanner" \in Threads /\ "hotplug" \in Threads
  BY Names
<1>0. /\ "scanner" \in Threads /\ "hotplug" \in Threads
      /\ NewAt("scanner") /\ NoneAt
  BY <1>00, NewAtStep
<1>1. Present' => /\ Present /\ set'.rt = set.rt
                  /\ set'.settings = set.settings /\ set'.lanes = set.lanes
  BY SetGone DEF Present, FindsNoRadio, Retreats, Halts, Stays
<1>2. hw' = hw /\ (handle' \in Runtimes => handle' = handle)
  BY Names DEF FindsNoRadio, Retreats, Halts, Stays
<1>3. Present' /\ Elsewhere' => Elsewhere
  BY <1>0, Names DEF NewAt, NoneAt, Elsewhere, Running, Present, Moves, FindsNoRadio, Retreats, Halts, Stays
<1>4. \A r \in Runtimes : Quiet(r)
  BY <1>0, Names, ShapedParts DEF Quiet, NoneAt, Moves, Present, FindsNoRadio, Retreats, Halts, Stays
<1>5. \A o \in Threads : Calm(o)
  BY <1>0, Names DEF Calm, Busy, NoneAt, Moves, Present, FindsNoRadio, Retreats, Halts, Stays
<1>6. Pinned'
  BY <1>2, PinnedSame, SetGone DEF Kept, FindsNoRadio, Retreats, Halts, Stays
<1>. QED BY <1>1, <1>2, <1>3, <1>4, <1>5, <1>6, QuietStep

LEMMA DropsRadioTold ==
  ASSUME Shaped, Shaped', Held, Held', Faithful, DropsRadioEffect
  PROVE Faithful'
<1>00. "scanner" \in Threads /\ "hotplug" \in Threads
  BY Names
<1>0. /\ "scanner" \in Threads /\ "hotplug" \in Threads
      /\ NewAt("scanner") /\ NoneAt
  BY <1>00, NewAtStep
<1>1. Present' => /\ Present /\ set'.rt = set.rt
                  /\ set'.settings = set.settings /\ set'.lanes = set.lanes
  BY SetGone DEF Present, DropsRadioEffect, Retreats
<1>2. hw' = hw /\ (handle' \in Runtimes => handle' = handle)
  BY Names DEF DropsRadioEffect, Retreats
<1>3. Present' /\ Elsewhere' => Elsewhere
  BY DEF Held, Owned, Elsewhere, DropsRadioEffect, Retreats
<1>4. \A r \in Runtimes : Quiet(r)
  BY <1>0, Names, ShapedParts DEF Quiet, NoneAt, Moves, Present, DropsRadioEffect, Retreats
<1>5. \A o \in Threads : Calm(o)
  BY <1>0, Names DEF Calm, Busy, NoneAt, Moves, Present, DropsRadioEffect, Retreats
<1>6. Pinned'
  BY <1>2, PinnedSame, SetGone DEF Kept, DropsRadioEffect, Retreats
<1>. QED BY <1>1, <1>2, <1>3, <1>4, <1>5, <1>6, QuietStep

LEMMA SwapSweepGoneTold ==
  ASSUME Shaped, Shaped', Held, Held', Faithful, ~Present, SwapSweepGoneEffect
  PROVE Faithful'
<1>00. "scanner" \in Threads /\ "hotplug" \in Threads
  BY Names
<1>0. /\ "scanner" \in Threads /\ "hotplug" \in Threads
      /\ NewAt("scanner") /\ NoneAt
  BY <1>00, NewAtStep
<1>1. Present' => /\ Present /\ set'.rt = set.rt
                  /\ set'.settings = set.settings /\ set'.lanes = set.lanes
  BY SetGone DEF Present, SwapSweepGoneEffect, Retreats, Halts, Stays
<1>2. hw' = hw /\ (handle' \in Runtimes => handle' = handle)
  BY Names DEF SwapSweepGoneEffect, Retreats, Halts, Stays
<1>3. Present' /\ Elsewhere' => Elsewhere
  BY <1>0, Names DEF NewAt, NoneAt, Elsewhere, Running, Present, Moves, SwapSweepGoneEffect, Retreats, Halts, Stays
<1>4. \A r \in Runtimes : Quiet(r)
  BY <1>0, Names, ShapedParts DEF Quiet, NoneAt, Moves, Present, SwapSweepGoneEffect, Retreats, Halts, Stays
<1>5. \A o \in Threads : Calm(o)
  BY <1>0, Names DEF Calm, Busy, NoneAt, Moves, Present, SwapSweepGoneEffect, Retreats, Halts, Stays
<1>6. Pinned'
  BY <1>2, PinnedSame, SetGone DEF Kept, SwapSweepGoneEffect, Retreats, Halts, Stays
<1>. QED BY <1>1, <1>2, <1>3, <1>4, <1>5, <1>6, QuietStep

LEMMA CallerTold ==
  ASSUME Shaped, Shaped', Held, Held', Faithful, NEW c \in Clients, NEW p \in {"idle", "joining", "commit"}, CallerKeeps(c, p),
         set'.holds = set.holds, pc[c] \in {"idle", "list scan", "commit"}
  PROVE Faithful'
<1>00. c \in Threads /\ c # "scanner" /\ c # "hotplug" /\ "scanner" \in Threads /\ "hotplug" \in Threads
  BY Names
<1>0. /\ c \in Threads /\ c # "scanner" /\ c # "hotplug" /\ "scanner" \in Threads /\ "hotplug" \in Threads
      /\ NewAt(c) /\ NoneAt
  BY <1>00, NewAtStep
<1>1. Present' => /\ Present /\ set'.rt = set.rt
                  /\ set'.settings = set.settings /\ set'.lanes = set.lanes
  BY SetGone DEF Present, CallerKeeps
<1>2. hw' = hw /\ (handle' \in Runtimes => handle' = handle)
  BY Names DEF CallerKeeps
<1>3. Present' /\ Elsewhere' => Elsewhere
  BY <1>0, Names DEF NewAt, NoneAt, Elsewhere, Running, Present, Moves, CallerKeeps
<1>4. \A r \in Runtimes : Quiet(r)
  BY <1>0, Names, ShapedParts DEF Quiet, NoneAt, Moves, Present, CallerKeeps
<1>5. \A o \in Threads : Calm(o)
  BY <1>0, Names DEF Calm, Busy, NoneAt, Moves, Present, CallerKeeps
<1>6. Pinned'
  BY <1>2, PinnedSame, SetGone DEF Kept, CallerKeeps
<1>. QED BY <1>1, <1>2, <1>3, <1>4, <1>5, <1>6, QuietStep

LEMMA CommitTold ==
  ASSUME Shaped, Shaped', Held, Held', Faithful, NEW c \in Clients, CommitEffect(c)
  PROVE Faithful'
<1>00. c \in Threads /\ c # "scanner" /\ c # "hotplug" /\ "scanner" \in Threads /\ "hotplug" \in Threads
  BY Names
<1>0. /\ c \in Threads /\ c # "scanner" /\ c # "hotplug" /\ "scanner" \in Threads /\ "hotplug" \in Threads
      /\ NewAt(c) /\ NoneAt
  BY <1>00, NewAtStep
<1>1. Present' => /\ Present /\ set'.rt = set.rt
                  /\ set'.settings = set.settings /\ set'.lanes = set.lanes
  BY SetGone DEF Present, CommitEffect, CallerKeeps
<1>2. hw' = hw /\ (handle' \in Runtimes => handle' = handle)
  BY Names DEF CommitEffect, CallerKeeps
<1>3. Present' /\ Elsewhere' => Elsewhere
  BY <1>0, Names DEF NewAt, NoneAt, Elsewhere, Running, Present, Moves, CommitEffect, CallerKeeps
<1>4. \A r \in Runtimes : Quiet(r)
  BY <1>0, Names, ShapedParts DEF Quiet, NoneAt, Moves, Present, CommitEffect, CallerKeeps
<1>5. \A o \in Threads : Calm(o)
  BY <1>0, Names DEF Calm, Busy, NoneAt, Moves, Present, CommitEffect, CallerKeeps
<1>6. Pinned'
  <2>1. CASE ~Commits(c)
    BY <1>2, <2>1, PinnedSame DEF Kept, CommitEffect, CallerKeeps
  <2>2. CASE Commits(c)
    <3>1. Running /\ Present /\ set.ratePatches = 0 /\ set.settings["rate"] = loc[c].rate
      BY <2>2 DEF Commits, Running, Present
    <3>2. IsFiniteSet(Guards) /\ Cardinality(Guards) = 0
      BY <3>1, ShapedParts, GuardsFinite DEF Rated
    <3>3. Guards = {}
      BY <3>2, FS_EmptySet
    <3>4. set.settings["rate"] = hw["rate"]
      BY <3>1, <3>3, RateNow
    <3>. DEFINE h == [rate |-> loc[c].rate, stream |-> loc[c].stream]
    <3>5. h.rate = loc[c].rate /\ loc[c].keeper \in Keepers /\ set.holds \in [Keepers -> [rate: Nat, stream: Nat]]
      BY ShapedParts DEF SetStates, CommitEffect
    <3>6. set'.holds = [set.holds EXCEPT ![loc[c].keeper] = h] /\ set'.settings = set.settings
      BY <2>2 DEF CommitEffect, CallerKeeps
    <3>. HIDE DEF h
    <3>7. \A k \in Keepers : set'.holds[k] = IF k = loc[c].keeper THEN h ELSE set.holds[k]
      BY <3>5, <3>6
    <3>. QED BY <1>2, <3>1, <3>4, <3>5, <3>6, <3>7 DEF Faithful, Pinned, Kept
  <2>. QED BY <2>1, <2>2
<1>. QED BY <1>1, <1>2, <1>3, <1>4, <1>5, <1>6, QuietStep

LEMMA FinishKeeperTold ==
  ASSUME Shaped, Shaped', Held, Held', Faithful, NEW k \in Keepers, FinishKeeperEffect(k)
  PROVE Faithful'
<1>00. "scanner" \in Threads /\ "hotplug" \in Threads
  BY Names
<1>0. /\ "scanner" \in Threads /\ "hotplug" \in Threads
      /\ NewAt("scanner") /\ NoneAt
  BY <1>00, NewAtStep
<1>1. Present' => /\ Present /\ set'.rt = set.rt
                  /\ set'.settings = set.settings /\ set'.lanes = set.lanes
  BY SetGone DEF Present, FinishKeeperEffect
<1>2. hw' = hw /\ (handle' \in Runtimes => handle' = handle)
  BY Names DEF FinishKeeperEffect
<1>3. Present' /\ Elsewhere' => Elsewhere
  BY <1>0, Names DEF NewAt, NoneAt, Elsewhere, Running, Present, Moves, FinishKeeperEffect
<1>4. \A r \in Runtimes : Quiet(r)
  BY <1>0, Names, ShapedParts DEF Quiet, NoneAt, Moves, Present, FinishKeeperEffect
<1>5. \A o \in Threads : Calm(o)
  BY <1>0, Names DEF Calm, Busy, NoneAt, Moves, Present, FinishKeeperEffect
<1>6. Pinned'
  BY <1>2, PinnedSame, SetGone DEF Kept, FinishKeeperEffect
<1>. QED BY <1>1, <1>2, <1>3, <1>4, <1>5, <1>6, QuietStep

LEMMA ScannerMovesTold ==
  ASSUME Shaped, Shaped', Held, Held', Faithful, NEW p \in {"last", "leave", "ended"}, ScannerMoves(p), pc["scanner"] \in {"loop", "last"}
  PROVE Faithful'
<1>00. "scanner" \in Threads /\ "hotplug" \in Threads
  BY Names
<1>0. /\ "scanner" \in Threads /\ "hotplug" \in Threads
      /\ NewAt("scanner") /\ NoneAt
  BY <1>00, NewAtStep
<1>1. Present' => /\ Present /\ set'.rt = set.rt
                  /\ set'.settings = set.settings /\ set'.lanes = set.lanes
  BY SetGone DEF Present, ScannerMoves
<1>2. hw' = hw /\ (handle' \in Runtimes => handle' = handle)
  BY Names DEF ScannerMoves
<1>3. Present' /\ Elsewhere' => Elsewhere
  BY <1>0, Names DEF NewAt, NoneAt, Elsewhere, Running, Present, Moves, ScannerMoves
<1>4. \A r \in Runtimes : Quiet(r)
  BY <1>0, Names, ShapedParts DEF Quiet, NoneAt, Moves, Present, ScannerMoves
<1>5. \A o \in Threads : Calm(o)
  BY <1>0, Names DEF Calm, Busy, NoneAt, Moves, Present, ScannerMoves
<1>6. Pinned'
  BY <1>2, PinnedSame, SetGone DEF Kept, ScannerMoves
<1>. QED BY <1>1, <1>2, <1>3, <1>4, <1>5, <1>6, QuietStep

LEMMA RetreatsTold ==
  ASSUME Shaped, Shaped', Held, Held', Faithful, NEW b \in BOOLEAN, Retreats(b), loc["scanner"] = NoLocals, pc["scanner"] \in {"loop", "leave"},
         UNCHANGED <<set, rts, handle, hw, overtaken, lost>>
  PROVE Faithful'
<1>00. "scanner" \in Threads /\ "hotplug" \in Threads
  BY Names
<1>0. /\ "scanner" \in Threads /\ "hotplug" \in Threads
      /\ NewAt("scanner") /\ NoneAt
  BY <1>00, NewAtStep
<1>1. Present' => /\ Present /\ set'.rt = set.rt
                  /\ set'.settings = set.settings /\ set'.lanes = set.lanes
  BY SetGone DEF Present, Retreats
<1>2. hw' = hw /\ (handle' \in Runtimes => handle' = handle)
  BY Names DEF Retreats
<1>3. Present' /\ Elsewhere' => Elsewhere
  BY <1>0, Names DEF NewAt, NoneAt, Elsewhere, Running, Present, Moves, Retreats
<1>4. \A r \in Runtimes : Quiet(r)
  BY <1>0, Names, ShapedParts DEF Quiet, NoneAt, Moves, Present, Retreats
<1>5. \A o \in Threads : Calm(o)
  BY <1>0, Names DEF Calm, Busy, NoneAt, Moves, Present, Retreats
<1>6. Pinned'
  BY <1>2, PinnedSame, SetGone DEF Kept, Retreats
<1>. QED BY <1>1, <1>2, <1>3, <1>4, <1>5, <1>6, QuietStep

LEMMA StillTold ==
  ASSUME Shaped, Shaped', Held, Held', Faithful, \A q \in Runtimes : Stays(q),
         UNCHANGED <<set, handle, hw, pc, loc, scan, overtaken, lost>>
  PROVE Faithful'
<1>00. "scanner" \in Threads /\ "hotplug" \in Threads
  BY Names
<1>0. /\ "scanner" \in Threads /\ "hotplug" \in Threads
      /\ NewAt("scanner") /\ NoneAt
  BY <1>00, NewAtStep
<1>1. Present' => /\ Present /\ set'.rt = set.rt
                  /\ set'.settings = set.settings /\ set'.lanes = set.lanes
  BY SetGone DEF Present, Stays
<1>2. hw' = hw /\ (handle' \in Runtimes => handle' = handle)
  BY Names DEF Stays
<1>3. Present' /\ Elsewhere' => Elsewhere
  BY <1>0, Names DEF NewAt, NoneAt, Elsewhere, Running, Present, Moves, Stays
<1>4. \A r \in Runtimes : Quiet(r)
  BY <1>0, Names, ShapedParts DEF Quiet, NoneAt, Moves, Present, Stays
<1>5. \A o \in Threads : Calm(o)
  BY <1>0, Names DEF Calm, Busy, NoneAt, Moves, Present, Stays
<1>6. Pinned'
  BY <1>2, PinnedSame, SetGone DEF Kept, Stays
<1>. QED BY <1>1, <1>2, <1>3, <1>4, <1>5, <1>6, QuietStep

----------------------------------------------------------------------------
(* Runtimes that are not in the table yet.                                 *)

LEMMA NewsKept ==
  ASSUME Shaped, Faithful, hw' = hw,
         Present' => Present /\ set'.settings = set.settings /\ set'.lanes = set.lanes,
         pc'["hotplug"] = pc["hotplug"], loc'["hotplug"] = loc["hotplug"],
         \A o \in Threads : loc'[o].new = loc[o].new,
         \A o \in Threads : loc[o].new # None =>
           /\ rts'[loc[o].new].sweeping = rts[loc[o].new].sweeping
           /\ rts'[loc[o].new].meta = rts[loc[o].new].meta
  PROVE Carried' /\ Reopened'
<1>1. ASSUME Present', NEW o \in Threads \ {"hotplug"}, loc'[o].new # None,
             ~rts'[loc'[o].new].sweeping
      PROVE Same' /\ rts'[loc'[o].new].meta = {hw'["rate"]}
  <2>1. loc'[o].new = loc[o].new /\ ~rts[loc[o].new].sweeping
        /\ rts'[loc[o].new].meta = rts[loc[o].new].meta
    BY <1>1
  <2>2. Same /\ rts[loc[o].new].meta = {hw["rate"]}
    BY <1>1, <2>1 DEF Faithful, Carried
  <2>3. Same'
    BY <1>1, <2>2 DEF Same
  <2>. QED BY <2>1, <2>2, <2>3
<1>2. Reopened'
  <2>1. pc["hotplug"] = "revive" => loc["hotplug"].new # None /\ "hotplug" \in Threads
    BY Names, NewAtStep DEF NewAt
  <2>. QED BY <2>1 DEF Faithful, Reopened
<1>. QED BY <1>1, <1>2 DEF Carried

LEMMA NoNews ==
  ASSUME Shaped', Held', \A o \in Threads : loc'[o].new = None
  PROVE Carried' /\ Reopened'
<1>1. pc'["hotplug"] # "revive"
  BY Names, NewAfter
<1>. QED BY <1>1 DEF Carried, Reopened

----------------------------------------------------------------------------
(* A patch joins the queue of the table's runtime, and finds it empty.     *)

LEMMA ValidateTold ==
  ASSUME Shaped, Shaped', Held, Held', Faithful, NEW t \in Clients \cup {"scanner"}, Present,
         ValidateEffect(t), overtaken' = 0
  PROVE Faithful'
<1>0. /\ t \in Threads /\ t # "hotplug" /\ "hotplug" \in Threads
      /\ pc[t] = "validate" /\ pc'[t] = "apply" /\ Present'
  BY Names DEF ValidateEffect, Moves, Present
<1>1. /\ set'.rt = set.rt /\ set'.settings = set.settings /\ set'.lanes = set.lanes
      /\ set'.holds = set.holds /\ set'.status = set.status
      /\ handle' = handle /\ hw' = hw /\ set.rt = loc[t].ser /\ set.rt \in Runtimes
      /\ loc'[t].ser = set.rt /\ loc'[t].rt = set.rt /\ loc'[t].new = None
      /\ loc'[t].delta = loc[t].delta /\ loc[t].delta \in Deltas
      /\ loc'[t].reverting = loc[t].reverting
      /\ loc'[t].guard <=> ChangesRate(loc[t].delta)
  BY DEF ValidateEffect
<1>2. \A o \in Threads : o # t => pc'[o] = pc[o] /\ loc'[o] = loc[o]
  BY DEF ValidateEffect, Moves
<1>3. \A r \in Runtimes : rts'[r].sweeping = rts[r].sweeping /\ rts'[r].meta = rts[r].meta
  BY DEF ValidateEffect
<1>4. \A o \in Threads : o # t /\ loc[o].ser = set.rt => pc[o] \notin {"apply", "back", "relane"}
  BY <1>0, <1>1, HoldsAt, OneHolder DEF Held
<1>5. rts[set.rt].waiting = Nothing
  BY <1>0, <1>1, <1>4 DEF Faithful, Queues
<1>6. /\ rts'[set.rt].waiting = loc[t].delta
      /\ \A r \in Runtimes : r # set.rt => rts'[r].waiting = rts[r].waiting
  BY <1>1, <1>5, MergeNothing DEF ValidateEffect
<1>7. (Elsewhere' <=> Elsewhere) /\ \A o \in Threads : loc'[o].new = loc[o].new
  <2>1. loc[t].new = None
    BY <1>0, NewAtStep DEF NewAt
  <2>2. \A o \in Threads : loc'[o].new = loc[o].new
    BY <1>1, <1>2, <2>1
  <2>. QED BY <1>1, <2>2 DEF Elsewhere, Running
<1>8. Queues'
  <2>1. \A o \in Threads : ~loc'[o].reverting
    BY <1>0, <1>1, <1>2 DEF Faithful, Queues
  <2>2. \A o \in Threads : pc'[o] \in {"apply", "back", "relane"} => loc'[o].rt = loc'[o].ser
    BY <1>1, <1>2 DEF Faithful, Queues
  <2>3. \A o \in Threads : pc'[o] = "apply" => rts'[loc'[o].ser].waiting = loc'[o].delta
    <3>1. ASSUME NEW o \in Threads, o # t, pc'[o] = "apply"
          PROVE rts'[loc'[o].ser].waiting = loc'[o].delta
      <4>1. pc[o] = "apply" /\ loc'[o] = loc[o]
        BY <1>2, <3>1
      <4>2. loc[o].ser \in Runtimes /\ loc[o].ser # set.rt
        BY <1>4, <3>1, <4>1, HoldsAt
      <4>. QED BY <1>6, <4>1, <4>2 DEF Faithful, Queues
    <3>. QED BY <1>1, <1>6, <3>1
  <2>4. \A r \in Runtimes : rts'[r].waiting # Nothing =>
          \E o \in Threads : pc'[o] = "apply" /\ loc'[o].ser = r
    BY <1>0, <1>1, <1>2, <1>6 DEF Faithful, Queues
  <2>. QED BY <2>1, <2>2, <2>3, <2>4 DEF Queues
<1>9. Stale'
  BY <1>0, <1>1, <1>2, <1>7 DEF Faithful, Stale, Harmless
<1>10. Guarded'
  BY <1>0, <1>1, <1>2 DEF Faithful, Guarded, ChangesRate
<1>11. Answers'
  <2>1. \A o \in Threads : Answering(o)' <=> Answering(o)
    BY <1>0, <1>1, <1>2 DEF Answering
  <2>2. \A o \in Threads : Answering(o) => loc'[o] = loc[o]
    BY <1>0, <1>2 DEF Answering
  <2>3. Same' <=> Same
    BY <1>1 DEF Same
  <2>. QED BY <1>0, <1>1, <1>3, <2>1, <2>2, <2>3 DEF Faithful, Answers
<1>12. Away'
  BY <1>0, <1>1, <1>3, <1>7 DEF Faithful, Away, Agrees
<1>13. Carried' /\ Reopened'
  <2>1. pc'["hotplug"] = pc["hotplug"] /\ loc'["hotplug"] = loc["hotplug"]
    BY <1>0, <1>2
  <2>2. \A o \in Threads : loc[o].new # None => loc[o].new \in Runtimes
    BY HeldTypes
  <2>. QED BY <1>0, <1>1, <1>3, <1>7, <2>1, <2>2, NewsKept
<1>15. Relaning'
  BY <1>0, <1>1, <1>2 DEF Faithful, Relaning
<1>16. Pinned'
  BY <1>1, PinnedSame DEF Kept
<1>. QED BY <1>8, <1>9, <1>10, <1>11, <1>12, <1>13, <1>15, <1>16 DEF Faithful


----------------------------------------------------------------------------
(* The radio is programmed, or found to be so.                             *)

LEMMA ApplyTakenTold ==
  ASSUME Shaped, Shaped', Held, Held', Faithful, NEW t \in Clients \cup {"scanner"},
         ApplyTakenEffect(t)
  PROVE Faithful'
<1>. DEFINE s == loc[t].ser
<1>0. t \in Threads /\ pc[t] = "apply" /\ pc'[t] = "back"
  BY Names DEF ApplyTakenEffect, Moves
<1>1. /\ s \in Runtimes /\ loc[t].rt = s /\ handle = s /\ handle' = s /\ set' = set
      /\ rts[s].waiting = loc[t].delta
      /\ loc'[t].ser = s /\ loc'[t].rt = s /\ loc'[t].new = None
      /\ loc'[t].delta = loc[t].delta /\ loc'[t].actual = hw'
      /\ (loc'[t].guard <=> loc[t].guard) /\ ~loc'[t].reverting
  BY <1>0 DEF ApplyTakenEffect, Faithful, Queues
<1>2. /\ rts'[s].waiting = Nothing
      /\ \A r \in Runtimes : r # s => rts'[r].waiting = rts[r].waiting
      /\ \A r \in Runtimes : rts'[r].sweeping = rts[r].sweeping
      /\ hw' = Merge(hw, loc[t].delta) /\ hw \in Settings /\ loc[t].delta \in Deltas
  BY <1>0, <1>1, ShapeOf, ShapedParts DEF ApplyTakenEffect, Locals
<1>. HIDE DEF s
<1>3. \A o \in Threads : o # t => pc'[o] = pc[o] /\ loc'[o] = loc[o]
  BY DEF ApplyTakenEffect, Moves
<1>4. \A o \in Threads : o # t /\ loc[o].ser = s => pc[o] \notin {"apply", "back", "relane"}
  BY <1>0, HoldsAt, OneHolder DEF Held, s
<1>5. \A o \in Threads : loc[o].new = None /\ loc'[o].new = None
  BY <1>0, <1>1, <1>3, OneNew DEF s
<1>6. Present => set.rt = s /\ ~rts[s].sweeping /\ ~Elsewhere
  <2>1. Holding(t)
    BY <1>0, HoldsAt
  <2>. QED BY <1>0, <1>1, <2>1, InTheTable, NotElsewhere DEF Held, Locks, s
<1>7. (Present' <=> Present) /\ (Present' => ~Elsewhere')
  <2>1. Present' <=> Present
    BY <1>1 DEF Present
  <2>2. handle' \in Runtimes
    BY <1>1
  <2>. QED BY <1>5, <2>1, <2>2, Names DEF Elsewhere
<1>8. Present => Same
  <2>1. \A o \in Threads : pc[o] = "back" => loc[o].ser # s
    BY <1>0, <1>4
  <2>2. Present => \A o \in Threads : ~Answering(o)
    BY <1>6, <2>1 DEF Answering
  <2>. QED BY <1>1, <1>6, <2>2 DEF Faithful, Answers
<1>9. Present /\ ~loc[t].guard => set.settings["rate"] = hw'["rate"]
  <2>1. ASSUME Present, ~loc[t].guard
        PROVE set.settings["rate"] = hw'["rate"]
    <3>1. ~ChangesRate(loc[t].delta)
      BY <1>0, <1>1, <1>6, <2>1 DEF Faithful, Guarded, s
    <3>2. set.settings["rate"] = hw["rate"]
      BY <1>8, <2>1 DEF Same
    <3>3. hw'["rate"] = IF "rate" \in DOMAIN loc[t].delta THEN loc[t].delta["rate"] ELSE hw["rate"]
      BY <1>2, MergeSettings DEF Fields
    <3>. QED BY <3>1, <3>2, <3>3 DEF ChangesRate
  <2>. QED BY <2>1
<1>10. Queues'
  <2>1. \A o \in Threads : ~loc'[o].reverting
    BY <1>1, <1>3 DEF Faithful, Queues
  <2>2. \A o \in Threads : pc'[o] \in {"apply", "back", "relane"} => loc'[o].rt = loc'[o].ser
    BY <1>1, <1>3 DEF Faithful, Queues
  <2>3. \A o \in Threads : pc'[o] = "apply" => rts'[loc'[o].ser].waiting = loc'[o].delta
    <3>1. ASSUME NEW o \in Threads, pc'[o] = "apply"
          PROVE rts'[loc'[o].ser].waiting = loc'[o].delta
      <4>1. o # t /\ pc[o] = "apply" /\ loc'[o] = loc[o]
        BY <1>0, <1>3, <3>1
      <4>2. loc[o].ser \in Runtimes /\ loc[o].ser # s
        BY <1>4, <4>1, HoldsAt
      <4>. QED BY <1>2, <4>1, <4>2 DEF Faithful, Queues
    <3>. QED BY <3>1
  <2>4. ASSUME NEW r \in Runtimes, rts'[r].waiting # Nothing
        PROVE \E o \in Threads : pc'[o] = "apply" /\ loc'[o].ser = r
    <3>1. r # s /\ rts[r].waiting # Nothing
      BY <1>2, <2>4
    <3>2. PICK o \in Threads : pc[o] = "apply" /\ loc[o].ser = r
      BY <3>1 DEF Faithful, Queues
    <3>. QED BY <1>3, <3>1, <3>2 DEF s
  <2>. QED BY <2>1, <2>2, <2>3, <2>4 DEF Queues
<1>11. Stale'
  <2>1. ASSUME Present', NEW o \in Threads, pc'[o] = "back", loc'[o].ser # set'.rt \/ Elsewhere'
        PROVE loc'[o].delta = Nothing /\ loc'[o].actual = Nothing
    <3>1. Present /\ loc'[o].ser # s
      BY <1>1, <1>6, <1>7, <2>1
    <3>2. o # t /\ pc[o] = "back" /\ loc'[o] = loc[o]
      BY <1>1, <1>3, <2>1, <3>1
    <3>. QED BY <1>6, <3>1, <3>2 DEF Faithful, Stale, Harmless
  <2>. QED BY <2>1 DEF Stale, Harmless
<1>12. Guarded'
  <2>1. ASSUME Present', NEW o \in Threads, pc'[o] \in {"apply", "back"},
               loc'[o].ser = set'.rt, ~loc'[o].guard
        PROVE ~ChangesRate(loc'[o].delta)
    <3>1. Present /\ pc[o] \in {"apply", "back"} /\ loc[o].ser = set.rt /\ ~loc[o].guard
          /\ loc'[o].delta = loc[o].delta
      BY <1>0, <1>1, <1>3, <1>7, <2>1 DEF s
    <3>. QED BY <1>1, <1>6, <3>1 DEF Faithful, Guarded
  <2>. QED BY <1>1, <2>1 DEF Guarded, ChangesRate
<1>13. Answers'
  <2>1. ASSUME Present', NEW o \in Threads, Answering(o)'
        PROVE loc'[o].actual = hw' /\ (~loc'[o].guard => set'.settings["rate"] = hw'["rate"])
    <3>1. o = t
      BY <1>1, <1>3, <1>4, <1>6, <1>7, <2>1 DEF Answering
    <3>. QED BY <1>1, <1>7, <1>9, <2>1, <3>1
  <2>2. Present' => Answering(t)'
    BY <1>0, <1>1, <1>6, <1>7 DEF Answering
  <2>. QED BY <1>0, <2>1, <2>2 DEF Answers
<1>14. Away'
  BY <1>1, <1>2, <1>6, <1>7 DEF Away
<1>15. Carried' /\ Reopened'
  BY <1>5, NoNews
<1>16. Relaning'
  <2>1. ASSUME NEW o \in Threads, pc'[o] = "relane", handle' = loc'[o].rt
        PROVE FALSE
    <3>1. o # t /\ pc[o] = "relane" /\ loc[o].rt = s
      BY <1>0, <1>1, <1>3, <2>1
    <3>. QED BY <1>4, <3>1 DEF Faithful, Queues
  <2>. QED BY <2>1 DEF Relaning
<1>17. Pinned'
  <2>1. ASSUME NEW k \in Keepers, Kept(k)
        PROVE set.holds[k].rate = set.settings["rate"] /\ set.holds[k].rate = hw'["rate"]
    <3>1. RatePinned
      BY <2>1 DEF RatePinned
    <3>2. Present /\ Guards = {}
      BY <3>1 DEF Held, Unpinned, Running, Present
    <3>3. ~loc[t].guard
      BY <1>0, <3>2 DEF Guards
    <3>. QED BY <1>9, <2>1, <3>2, <3>3 DEF Faithful, Pinned
  <2>. QED BY <1>1, <2>1 DEF Pinned, Kept
<1>. QED BY <1>10, <1>11, <1>12, <1>13, <1>14, <1>15, <1>16, <1>17 DEF Faithful

LEMMA ApplyIdleTold ==
  ASSUME Shaped, Shaped', Held, Held', Faithful, NEW t \in Clients \cup {"scanner"},
         ApplyIdleEffect(t)
  PROVE Faithful'
<1>. DEFINE s == loc[t].ser
<1>0. t \in Threads /\ t # "hotplug" /\ "hotplug" \in Threads /\ pc[t] = "apply" /\ pc'[t] = "back"
  BY Names DEF ApplyIdleEffect, Moves
<1>1. /\ s \in Runtimes /\ loc[t].rt = s /\ handle' = handle /\ set' = set /\ hw' = hw
      /\ rts[s].waiting = Nothing /\ loc[t].delta = Nothing
      /\ loc'[t].ser = s /\ loc'[t].rt = s /\ loc'[t].new = None
      /\ loc'[t].delta = Nothing
      /\ loc'[t].actual = (IF handle = s THEN hw ELSE Nothing)
      /\ (loc'[t].guard <=> loc[t].guard) /\ ~loc'[t].reverting
  BY <1>0 DEF ApplyIdleEffect, Faithful, Queues
<1>2. \A r \in Runtimes : /\ rts'[r].waiting = rts[r].waiting /\ rts'[r].meta = rts[r].meta
                          /\ rts'[r].sweeping = rts[r].sweeping
  BY DEF ApplyIdleEffect
<1>. HIDE DEF s
<1>3. \A o \in Threads : o # t => pc'[o] = pc[o] /\ loc'[o] = loc[o]
  BY DEF ApplyIdleEffect, Moves
<1>4. \A o \in Threads : o # t /\ loc[o].ser = s => pc[o] \notin {"apply", "back", "relane"}
  BY <1>0, HoldsAt, OneHolder DEF Held, s
<1>5. (Elsewhere' <=> Elsewhere) /\ \A o \in Threads : loc'[o].new = loc[o].new
  <2>1. loc[t].new = None
    BY <1>0, NewAtStep DEF NewAt
  <2>2. \A o \in Threads : loc'[o].new = loc[o].new
    BY <1>1, <1>3, <2>1
  <2>. QED BY <1>1, <2>2 DEF Elsewhere, Running
<1>6. Present' <=> Present
  BY <1>1 DEF Present
<1>7. Present /\ handle = s => set.rt = s /\ ~Elsewhere
  BY <1>0, <1>1, InTheTable, NotElsewhere DEF s
<1>10. Queues'
  <2>1. \A o \in Threads : ~loc'[o].reverting
    BY <1>1, <1>3 DEF Faithful, Queues
  <2>2. \A o \in Threads : pc'[o] \in {"apply", "back", "relane"} => loc'[o].rt = loc'[o].ser
    BY <1>1, <1>3 DEF Faithful, Queues
  <2>3. \A o \in Threads : pc'[o] = "apply" => rts'[loc'[o].ser].waiting = loc'[o].delta
    <3>1. ASSUME NEW o \in Threads, pc'[o] = "apply"
          PROVE rts'[loc'[o].ser].waiting = loc'[o].delta
      <4>1. o # t /\ pc[o] = "apply" /\ loc'[o] = loc[o]
        BY <1>0, <1>3, <3>1
      <4>2. loc[o].ser \in Runtimes
        BY <4>1, HoldsAt
      <4>. QED BY <1>2, <4>1, <4>2 DEF Faithful, Queues
    <3>. QED BY <3>1
  <2>4. ASSUME NEW r \in Runtimes, rts'[r].waiting # Nothing
        PROVE \E o \in Threads : pc'[o] = "apply" /\ loc'[o].ser = r
    <3>1. r # s /\ rts[r].waiting # Nothing
      BY <1>1, <1>2, <2>4
    <3>2. PICK o \in Threads : pc[o] = "apply" /\ loc[o].ser = r
      BY <3>1 DEF Faithful, Queues
    <3>. QED BY <1>3, <3>1, <3>2 DEF s
  <2>. QED BY <2>1, <2>2, <2>3, <2>4 DEF Queues
<1>11. Stale'
  <2>1. ASSUME Present', NEW o \in Threads, pc'[o] = "back", loc'[o].ser # set'.rt \/ Elsewhere'
        PROVE loc'[o].delta = Nothing /\ loc'[o].actual = Nothing
    <3>1. CASE o = t
      BY <1>1, <1>5, <1>6, <1>7, <2>1, <3>1
    <3>2. CASE o # t
      BY <1>1, <1>3, <1>5, <1>6, <2>1, <3>2 DEF Faithful, Stale, Harmless
    <3>. QED BY <3>1, <3>2
  <2>. QED BY <2>1 DEF Stale, Harmless
<1>12. Guarded'
  <2>1. ASSUME Present', handle' = set'.rt, NEW o \in Threads, pc'[o] \in {"apply", "back"},
               loc'[o].ser = set'.rt, ~loc'[o].guard
        PROVE ~ChangesRate(loc'[o].delta)
    <3>1. Present /\ pc[o] \in {"apply", "back"} /\ loc[o].ser = set.rt /\ ~loc[o].guard
          /\ loc'[o].delta = loc[o].delta /\ handle = set.rt
      BY <1>0, <1>1, <1>3, <1>6, <2>1 DEF s
    <3>. QED BY <3>1 DEF Faithful, Guarded
  <2>. QED BY <1>1, <2>1 DEF Guarded, ChangesRate
<1>13. Answers'
  <2>1. ASSUME Present, handle = set.rt, ~rts[set.rt].sweeping, set.rt = s
        PROVE Same
    <3>1. \A o \in Threads : ~Answering(o)
      BY <1>0, <1>4, <2>1 DEF Answering
    <3>. QED BY <2>1, <3>1 DEF Faithful, Answers
  <2>2. Present => set.rt \in Runtimes
    BY ShapedParts
  <2>3. ASSUME Present', handle' = set'.rt, ~rts'[set'.rt].sweeping, NEW o \in Threads, Answering(o)'
        PROVE loc'[o].actual = hw' /\ (~loc'[o].guard => set'.settings["rate"] = hw'["rate"])
    <3>0. Present /\ handle = set.rt /\ ~rts[set.rt].sweeping
      BY <1>1, <1>2, <1>6, <2>2, <2>3
    <3>1. CASE o = t
      <4>1. set.rt = s
        BY <1>1, <2>3, <3>1 DEF Answering
      <4>2. set.settings["rate"] = hw["rate"]
        BY <2>1, <3>0, <4>1 DEF Same
      <4>. QED BY <1>1, <3>0, <3>1, <4>1, <4>2
    <3>2. CASE o # t
      <4>1. Answering(o) /\ loc'[o] = loc[o]
        BY <1>1, <1>3, <2>3, <3>2 DEF Answering
      <4>. QED BY <1>1, <3>0, <4>1 DEF Faithful, Answers
    <3>. QED BY <3>1, <3>2
  <2>4. ASSUME Present', handle' = set'.rt, ~rts'[set'.rt].sweeping, \A o \in Threads : ~Answering(o)'
        PROVE Same' /\ rts'[set'.rt].meta = {hw'["rate"]}
    <3>1. \A o \in Threads : ~Answering(o)
      BY <1>0, <1>1, <1>3, <2>4 DEF Answering
    <3>2. Present /\ handle = set.rt /\ ~rts[set.rt].sweeping /\ rts'[set.rt].meta = rts[set.rt].meta
      BY <1>1, <1>2, <1>6, <2>2, <2>4
    <3>3. Same /\ rts[set.rt].meta = {hw["rate"]}
      BY <3>1, <3>2 DEF Faithful, Answers
    <3>. QED BY <1>1, <3>2, <3>3 DEF Same
  <2>. QED BY <2>3, <2>4 DEF Answers
<1>14. Away'
  <2>1. Present => set.rt \in Runtimes
    BY ShapedParts
  <2>. QED BY <1>1, <1>2, <1>5, <1>6, <2>1 DEF Faithful, Away, Agrees
<1>15. Carried' /\ Reopened'
  <2>1. pc'["hotplug"] = pc["hotplug"] /\ loc'["hotplug"] = loc["hotplug"]
    BY <1>0, <1>3
  <2>2. \A o \in Threads : loc[o].new # None => loc[o].new \in Runtimes
    BY HeldTypes
  <2>. QED BY <1>1, <1>2, <1>5, <1>6, <2>1, <2>2, NewsKept
<1>16. Relaning'
  BY <1>0, <1>1, <1>3, <1>6 DEF Faithful, Relaning
<1>17. Pinned'
  BY <1>1 DEF Faithful, Pinned, Kept
<1>. QED BY <1>10, <1>11, <1>12, <1>13, <1>14, <1>15, <1>16, <1>17 DEF Faithful

----------------------------------------------------------------------------
(* The answer goes into the table.                                         *)

\* No patch finds that a keeper came in between.
LEMMA NeverTooLate ==
  ASSUME Shaped, Held, Faithful, NEW t \in Threads, pc[t] = "back"
  PROVE ~TooLate(t)
<1>1. ASSUME TooLate(t)
      PROVE FALSE
  <2>1. Present /\ RatePinned /\ ChangesRate(loc[t].delta)
    BY <1>1 DEF TooLate
  <2>2. Running /\ Guards = {}
    BY <2>1 DEF Held, Unpinned
  <2>3. ~loc[t].guard
    BY <2>2 DEF Guards
  <2>4. loc[t].delta # Nothing
    BY <2>1 DEF ChangesRate, Nothing
  <2>5. loc[t].ser = set.rt /\ ~Elsewhere
    BY <2>1, <2>4 DEF Faithful, Stale, Harmless
  <2>6. handle = set.rt
    BY <2>2, <2>5, RunningWhere
  <2>. QED BY <2>1, <2>3, <2>5, <2>6 DEF Faithful, Guarded
<1>. QED BY <1>1

\* What the two ways to write the answer back have in common.
Writes(t) ==
  /\ pc[t] = "back" /\ Present /\ pc'[t] \notin Busy
  /\ \A o \in Threads : o # t => pc'[o] = pc[o] /\ loc'[o] = loc[o]
  /\ loc'[t].new = None /\ ~loc'[t].reverting
  /\ set'.settings = Answered(t) /\ set'.lanes = NowLanes
  /\ set'.status = set.status /\ set'.rt = set.rt /\ set'.holds = set.holds
  /\ handle' = handle /\ hw' = hw
  /\ \A r \in Runtimes :
       \/ r = loc[t].ser /\ OnlyFor(t, r) /\ rts'[r].waiting = Nothing
       \/ /\ rts'[r].sweeping = rts[r].sweeping /\ rts'[r].waiting = rts[r].waiting
          /\ r # loc[t].rt => rts'[r].meta = rts[r].meta
          /\ r = loc[t].rt => rts[r].meta = {} \/ rts'[r].meta = {Answered(t)["rate"]}

LEMMA WritesTold ==
  ASSUME Shaped, Shaped', Held, Held', Faithful, NEW t \in Clients \cup {"scanner"}, Writes(t)
  PROVE Faithful'
<1>. DEFINE s == loc[t].ser
<1>0. t \in Threads /\ t # "hotplug" /\ "hotplug" \in Threads /\ pc[t] = "back" /\ Present
  BY Names DEF Writes
<1>1. /\ s \in Runtimes /\ loc[t].rt = s /\ set.rt \in Runtimes
      /\ loc[t].delta \in Deltas /\ loc[t].actual \in Deltas
      /\ set.settings \in Settings /\ hw \in Settings
  BY <1>0, HoldsAt, ShapeOf, ShapedParts DEF Faithful, Queues, Locals, SetStates
<1>2. /\ set'.status = set.status /\ set'.rt = set.rt /\ set'.holds = set.holds
      /\ handle' = handle /\ hw' = hw /\ Present'
      /\ set'.settings = Answered(t) /\ set'.lanes = NowLanes
      /\ loc'[t].new = None /\ ~loc'[t].reverting /\ pc'[t] \notin Busy
  BY DEF Writes, Present
<1>3. \A o \in Threads : o # t => pc'[o] = pc[o] /\ loc'[o] = loc[o]
  BY DEF Writes
<1>4. \A o \in Threads : o # t /\ loc[o].ser = s => pc[o] \notin {"apply", "back", "relane"}
  BY <1>0, HoldsAt, OneHolder DEF Held
<1>5. (Elsewhere' <=> Elsewhere) /\ \A o \in Threads : loc'[o].new = loc[o].new
  <2>1. loc[t].new = None
    BY <1>0, NewAtStep DEF NewAt
  <2>2. \A o \in Threads : loc'[o].new = loc[o].new
    BY <1>2, <1>3, <2>1
  <2>. QED BY <1>2, <2>2 DEF Elsewhere, Running
<1>6. /\ rts'[set.rt].sweeping = rts[set.rt].sweeping
      /\ rts'[set.rt].waiting = rts[set.rt].waiting
      /\ s # set.rt => rts'[set.rt].meta = rts[set.rt].meta
      /\ s = set.rt => rts[s].meta = {} \/ rts'[s].meta = {Answered(t)["rate"]}
  BY <1>0, <1>1 DEF Writes, OnlyFor
<1>7. \A r \in Runtimes : r # s =>
        /\ rts'[r].sweeping = rts[r].sweeping /\ rts'[r].meta = rts[r].meta
        /\ rts'[r].waiting = rts[r].waiting
  BY <1>1 DEF Writes
<1>8. rts'[s].waiting = Nothing
  <2>1. rts[s].waiting = Nothing
    BY <1>0, <1>1, <1>4 DEF Faithful, Queues
  <2>. QED BY <1>1, <2>1 DEF Writes
<1>9. ~rts[s].sweeping
  BY <1>0, HoldsAt DEF Held, Locks
\* The answer of the radio, or none.
<1>10. s = set.rt /\ handle = set.rt =>
         /\ set'.settings = hw /\ set'.lanes = hw["lanes"]
         /\ rts'[s].meta = {hw["rate"]}
  <2>1. ASSUME s = set.rt, handle = set.rt
        PROVE Answered(t) = hw /\ NowLanes = hw["lanes"] /\ rts[s].meta # {}
    <3>1. loc[t].actual = hw
      BY <1>0, <1>9, <2>1 DEF Faithful, Answers, Answering
    <3>2. Merge(set.settings, loc[t].delta) \in Settings
      BY <1>1, MergeSettings
    <3>3. Answered(t) = hw
      BY <1>1, <3>1, <3>2, MergeAll DEF Answered
    <3>4. rts[s].meta # {}
      BY <1>1, <2>1 DEF Held, Owned
    <3>. QED BY <2>1, <3>3, <3>4 DEF NowLanes
  <2>. QED BY <1>2, <1>6, <2>1
<1>11. s # set.rt \/ Elsewhere => set'.settings = set.settings
  <2>1. ASSUME s # set.rt \/ Elsewhere
        PROVE Answered(t) = set.settings
    <3>1. loc[t].delta = Nothing /\ loc[t].actual = Nothing
      BY <1>0, <2>1 DEF Faithful, Stale, Harmless
    <3>2. Merge(set.settings, Nothing) = set.settings
      BY <1>1, SettingsAreDeltas, MergeNothing
    <3>. QED BY <3>1, <3>2 DEF Answered
  <2>. QED BY <1>2, <2>1
<1>12. /\ handle = set.rt => set'.lanes = hw["lanes"] /\ ~Elsewhere
       /\ handle # set.rt => set'.lanes = set.lanes
  BY <1>0, <1>2, NotElsewhere DEF NowLanes
<1>20. Queues'
  <2>1. \A o \in Threads : ~loc'[o].reverting
    BY <1>2, <1>3 DEF Faithful, Queues
  <2>2. \A o \in Threads : pc'[o] \in {"apply", "back", "relane"} => loc'[o].rt = loc'[o].ser
    BY <1>2, <1>3 DEF Faithful, Queues, Busy
  <2>3. \A o \in Threads : pc'[o] = "apply" => rts'[loc'[o].ser].waiting = loc'[o].delta
    <3>1. ASSUME NEW o \in Threads, pc'[o] = "apply"
          PROVE rts'[loc'[o].ser].waiting = loc'[o].delta
      <4>1. o # t /\ pc[o] = "apply" /\ loc'[o] = loc[o]
        BY <1>2, <1>3, <3>1 DEF Busy
      <4>2. loc[o].ser \in Runtimes /\ loc[o].ser # s
        BY <1>4, <4>1, HoldsAt
      <4>. QED BY <1>7, <4>1, <4>2 DEF Faithful, Queues
    <3>. QED BY <3>1
  <2>4. ASSUME NEW r \in Runtimes, rts'[r].waiting # Nothing
        PROVE \E o \in Threads : pc'[o] = "apply" /\ loc'[o].ser = r
    <3>1. r # s /\ rts[r].waiting # Nothing
      BY <1>7, <1>8, <2>4
    <3>2. PICK o \in Threads : pc[o] = "apply" /\ loc[o].ser = r
      BY <3>1 DEF Faithful, Queues
    <3>. QED BY <1>0, <1>3, <3>1, <3>2
  <2>. QED BY <2>1, <2>2, <2>3, <2>4 DEF Queues
<1>. HIDE DEF s
<1>21. Stale'
  <2>1. ASSUME NEW o \in Threads, pc'[o] = "back", loc'[o].ser # set'.rt \/ Elsewhere'
        PROVE loc'[o].delta = Nothing /\ loc'[o].actual = Nothing
    <3>1. o # t /\ pc[o] = "back" /\ loc'[o] = loc[o]
      BY <1>2, <1>3, <2>1 DEF Busy
    <3>. QED BY <1>0, <1>2, <1>5, <2>1, <3>1 DEF Faithful, Stale, Harmless
  <2>. QED BY <2>1 DEF Stale, Harmless
<1>22. Guarded'
  <2>1. ASSUME handle' = set'.rt, NEW o \in Threads, pc'[o] \in {"apply", "back"},
               loc'[o].ser = set'.rt, ~loc'[o].guard
        PROVE ~ChangesRate(loc[o].delta) /\ set'.settings = set.settings /\ loc'[o] = loc[o]
    <3>1. o # t /\ pc[o] = pc'[o] /\ loc'[o] = loc[o]
      BY <1>2, <1>3, <2>1 DEF Busy
    <3>2. s # set.rt
      BY <1>2, <1>4, <2>1, <3>1
    <3>. QED BY <1>0, <1>2, <1>11, <2>1, <3>1, <3>2 DEF Faithful, Guarded
  <2>. QED BY <2>1 DEF Guarded, ChangesRate
<1>23. Answers'
  <2>1. ASSUME handle' = set'.rt, ~rts'[set'.rt].sweeping, NEW o \in Threads, Answering(o)'
        PROVE loc'[o].actual = hw' /\ (~loc'[o].guard => set'.settings["rate"] = hw'["rate"])
    <3>1. o # t /\ Answering(o) /\ loc'[o] = loc[o]
      BY <1>2, <1>3, <2>1 DEF Busy, Answering
    <3>2. s # set.rt
      BY <1>4, <3>1 DEF Answering
    <3>3. handle = set.rt /\ ~rts[set.rt].sweeping
      BY <1>2, <1>6, <2>1
    <3>. QED BY <1>0, <1>2, <1>11, <3>1, <3>2, <3>3 DEF Faithful, Answers
  <2>2. ASSUME handle' = set'.rt, ~rts'[set'.rt].sweeping, \A o \in Threads : ~Answering(o)'
        PROVE Same' /\ rts'[set'.rt].meta = {hw'["rate"]}
    <3>1. handle = set.rt /\ ~rts[set.rt].sweeping
      BY <1>2, <1>6, <2>2
    <3>2. CASE s = set.rt
      BY <1>2, <1>10, <3>1, <3>2 DEF Same
    <3>3. CASE s # set.rt
      <4>1. \A o \in Threads : ~Answering(o)
        BY <1>2, <1>3, <2>2, <3>3 DEF Answering, s
      <4>2. Same /\ rts[set.rt].meta = {hw["rate"]}
        BY <1>0, <3>1, <4>1 DEF Faithful, Answers
      <4>. QED BY <1>2, <1>6, <1>11, <1>12, <3>1, <3>3, <4>2 DEF Same
    <3>. QED BY <3>2, <3>3
  <2>. QED BY <2>1, <2>2 DEF Answers
<1>24. Away'
  <2>1. ASSUME Elsewhere'
        PROVE Agrees'
    <3>1. Agrees /\ set'.settings = set.settings /\ set'.lanes = set.lanes
      BY <1>0, <1>5, <1>11, <1>12, <2>1 DEF Faithful, Away
    <3>. QED BY <1>2, <3>1 DEF Agrees
  <2>2. ASSUME handle' = set'.rt, rts'[set'.rt].sweeping
        PROVE Agrees'
    <3>1. handle = set.rt /\ rts[set.rt].sweeping /\ s # set.rt
      BY <1>2, <1>6, <1>9, <2>2
    <3>2. Agrees /\ set'.settings = set.settings /\ set'.lanes = hw["lanes"]
      BY <1>0, <1>11, <1>12, <3>1 DEF Faithful, Away
    <3>. QED BY <1>2, <3>2 DEF Agrees
  <2>. QED BY <2>1, <2>2 DEF Away
<1>25. \A o \in Threads : loc[o].new # None =>
         /\ rts'[loc[o].new].sweeping = rts[loc[o].new].sweeping
         /\ rts'[loc[o].new].meta = rts[loc[o].new].meta
  <2>1. ASSUME NEW o \in Threads, loc[o].new # None
        PROVE loc[o].new \in Runtimes /\ loc[o].new # s
    BY <1>0, <2>1, OneNew DEF s
  <2>. QED BY <1>7, <2>1
<1>26. Carried'
  <2>1. ASSUME NEW o \in Threads \ {"hotplug"}, loc'[o].new # None,
               ~rts'[loc'[o].new].sweeping
        PROVE Same' /\ rts'[loc'[o].new].meta = {hw'["rate"]}
    <3>1. loc'[o].new = loc[o].new /\ ~rts[loc[o].new].sweeping
          /\ rts'[loc[o].new].meta = rts[loc[o].new].meta
      BY <1>5, <1>25, <2>1
    <3>2. Same /\ rts[loc[o].new].meta = {hw["rate"]}
      BY <1>0, <2>1, <3>1 DEF Faithful, Carried
    <3>3. Elsewhere
      BY <2>1, <3>1 DEF Elsewhere
    <3>4. Same'
      BY <1>2, <1>11, <1>12, <3>2, <3>3 DEF Same
    <3>. QED BY <1>2, <3>1, <3>2, <3>4
  <2>. QED BY <2>1 DEF Carried
<1>27. Reopened'
  <2>1. ASSUME pc'["hotplug"] = "revive"
        PROVE loc'["hotplug"].actual = hw' /\ rts'[loc'["hotplug"].new].meta = {hw'["rate"]}
    <3>1. pc["hotplug"] = "revive" /\ loc'["hotplug"] = loc["hotplug"]
      BY <1>0, <1>3, <2>1
    <3>2. loc["hotplug"].new # None
      BY <1>0, <3>1, NewAtStep DEF NewAt
    <3>. QED BY <1>0, <1>2, <1>25, <3>1, <3>2 DEF Faithful, Reopened
  <2>. QED BY <2>1 DEF Reopened
<1>28. Relaning'
  <2>1. ASSUME NEW o \in Threads, pc'[o] = "relane", handle' = loc'[o].rt
        PROVE loc'[o].rate = hw'["rate"]
    <3>1. o # t /\ pc[o] = "relane" /\ loc'[o] = loc[o]
      BY <1>2, <1>3, <2>1 DEF Busy
    <3>. QED BY <1>0, <1>2, <2>1, <3>1 DEF Faithful, Relaning
  <2>. QED BY <2>1 DEF Relaning
<1>29. Pinned'
  <2>1. ASSUME NEW k \in Keepers, Kept(k)
        PROVE set.holds[k].rate = set'.settings["rate"] /\ set.holds[k].rate = hw["rate"]
    <3>1. Running
      BY <2>1 DEF Held, Unpinned, RatePinned
    <3>2. handle = set.rt \/ Elsewhere
      BY <3>1, RunningWhere
    <3>3. set.holds[k].rate = set.settings["rate"] /\ set.holds[k].rate = hw["rate"]
      BY <2>1 DEF Faithful, Pinned
    <3>. QED BY <1>10, <1>11, <3>2, <3>3
  <2>. QED BY <1>2, <2>1 DEF Pinned, Kept
<1>. QED BY <1>20, <1>21, <1>22, <1>23, <1>24, <1>26, <1>27, <1>28, <1>29 DEF Faithful

LEMMA WriteBackEndsTold ==
  ASSUME Shaped, Shaped', Held, Held', Faithful, NEW t \in Clients \cup {"scanner"}, Present,
         WriteBackEndsEffect(t)
  PROVE Faithful'
<1>1. loc'[t] = NoLocals /\ NoneAt /\ pc'[t] \notin Busy
  BY Names, NewAtStep DEF WriteBackEndsEffect, PatchEnds, Moves, Resumes, Busy
<1>2. \A r \in Runtimes :
       \/ r = loc[t].ser /\ OnlyFor(t, r) /\ rts'[r].waiting = Nothing
       \/ /\ rts'[r].sweeping = rts[r].sweeping /\ rts'[r].waiting = rts[r].waiting
          /\ r # loc[t].rt => rts'[r].meta = rts[r].meta
          /\ r = loc[t].rt => rts[r].meta = {} \/ rts'[r].meta = {Answered(t)["rate"]}
  <2>1. ASSUME NEW r \in Runtimes, ~(r = loc[t].ser /\ OnlyFor(t, r))
        PROVE /\ rts'[r].sweeping = rts[r].sweeping /\ rts'[r].waiting = rts[r].waiting
              /\ r # loc[t].rt => rts'[r].meta = rts[r].meta
              /\ r = loc[t].rt => rts[r].meta = {} \/ rts'[r].meta = {Answered(t)["rate"]}
    BY <2>1 DEF WriteBackEndsEffect, PatchEnds
  <2>2. ASSUME NEW r \in Runtimes, r = loc[t].ser, OnlyFor(t, r)
        PROVE rts'[r].waiting = Nothing
    <3>1. t \in Threads /\ pc[t] = "back"
      BY Names DEF WriteBackEndsEffect
    <3>2. \A o \in Threads : pc[o] = "apply" => loc[o].ser # r
      BY <2>2, <3>1 DEF OnlyFor
    <3>3. rts[r].waiting = Nothing
      BY <3>2 DEF Faithful, Queues
    <3>. QED BY <3>1, <3>3 DEF WriteBackEndsEffect, PatchEnds
  <2>. QED BY <2>1, <2>2
<1>3. Writes(t)
  BY <1>1, <1>2 DEF Writes, NoneAt, WriteBackEndsEffect, PatchEnds, Moves
<1>. QED BY <1>3, WritesTold

LEMMA WriteBackRelanesTold ==
  ASSUME Shaped, Shaped', Held, Held', Faithful, NEW t \in Clients \cup {"scanner"}, Present,
         WriteBackRelanesEffect(t)
  PROVE Faithful'
<1>1. t \in Threads /\ pc[t] = "back" /\ ~loc[t].reverting
  BY Names DEF WriteBackRelanesEffect, Faithful, Queues
<1>2. loc[t].new = None
  BY <1>1, NewAtStep DEF NewAt
<1>3. Writes(t)
  BY <1>1, <1>2 DEF Writes, Busy, WriteBackRelanesEffect, Moves
<1>. QED BY <1>3, WritesTold

----------------------------------------------------------------------------
(* The lanes are restarted.                                                *)

LEMMA RestartLanesTold ==
  ASSUME Shaped, Shaped', Held, Held', Faithful, NEW t \in Clients \cup {"scanner"}, Present,
         RestartLanesEffect(t), overtaken' = 0
  PROVE Faithful'
<1>0. t \in Threads /\ t # "hotplug" /\ "hotplug" \in Threads /\ pc[t] = "restart"
      /\ pc'[t] = "relane"
  BY Names DEF RestartLanesEffect, Moves
<1>1. /\ set' = set /\ rts' = rts /\ handle' = handle /\ hw' = hw /\ set.rt = loc[t].ser
      /\ set.rt \in Runtimes
      /\ loc'[t].ser = set.rt /\ loc'[t].rt = set.rt /\ loc'[t].new = None
      /\ ~loc'[t].reverting /\ loc'[t].rate = set.settings["rate"]
  BY <1>0 DEF RestartLanesEffect, Faithful, Queues
<1>2. \A o \in Threads : o # t => pc'[o] = pc[o] /\ loc'[o] = loc[o]
  BY DEF RestartLanesEffect, Moves
<1>3. (Elsewhere' <=> Elsewhere) /\ \A o \in Threads : loc'[o].new = loc[o].new
  <2>1. loc[t].new = None
    BY <1>0, NewAtStep DEF NewAt
  <2>2. \A o \in Threads : loc'[o].new = loc[o].new
    BY <1>1, <1>2, <2>1
  <2>. QED BY <1>1, <2>2 DEF Elsewhere, Running
<1>4. \A o \in Threads : ~Answering(o)
  BY <1>0, <1>1, HoldsAt, OneHolder DEF Held, Answering
<1>5. ~rts[set.rt].sweeping
  BY <1>0, <1>1, HoldsAt DEF Held, Locks
<1>6. Present' <=> Present
  BY <1>1 DEF Present
<1>10. Queues'
  <2>1. \A o \in Threads : ~loc'[o].reverting
    BY <1>1, <1>2 DEF Faithful, Queues
  <2>2. \A o \in Threads : pc'[o] \in {"apply", "back", "relane"} => loc'[o].rt = loc'[o].ser
    BY <1>1, <1>2 DEF Faithful, Queues
  <2>3. \A o \in Threads : pc'[o] = "apply" => rts'[loc'[o].ser].waiting = loc'[o].delta
    BY <1>0, <1>1, <1>2 DEF Faithful, Queues
  <2>4. \A r \in Runtimes : rts'[r].waiting # Nothing =>
          \E o \in Threads : pc'[o] = "apply" /\ loc'[o].ser = r
    BY <1>0, <1>1, <1>2 DEF Faithful, Queues
  <2>. QED BY <2>1, <2>2, <2>3, <2>4 DEF Queues
<1>11. Stale'
  BY <1>0, <1>1, <1>2, <1>3 DEF Faithful, Stale, Harmless
<1>12. Guarded'
  BY <1>0, <1>1, <1>2, <1>6 DEF Faithful, Guarded, ChangesRate
<1>13. Answers'
  <2>1. \A o \in Threads : ~Answering(o)'
    BY <1>0, <1>1, <1>2, <1>4 DEF Answering
  <2>2. handle = set.rt => Same /\ rts[set.rt].meta = {hw["rate"]}
    BY <1>4, <1>5 DEF Faithful, Answers
  <2>3. handle' = set'.rt => Same' /\ rts'[set'.rt].meta = {hw'["rate"]}
    BY <1>1, <2>2 DEF Same
  <2>. QED BY <2>1, <2>3 DEF Answers
<1>14. Away'
  BY <1>1, <1>3, <1>6 DEF Faithful, Away, Agrees
<1>15. Carried' /\ Reopened'
  <2>1. pc'["hotplug"] = pc["hotplug"] /\ loc'["hotplug"] = loc["hotplug"]
    BY <1>0, <1>2
  <2>. QED BY <1>1, <1>3, <1>6, <2>1, NewsKept
<1>16. Relaning'
  <2>1. handle = set.rt => set.settings["rate"] = hw["rate"]
    BY <1>4, <1>5 DEF Faithful, Answers, Same
  <2>2. ASSUME NEW o \in Threads, pc'[o] = "relane", handle' = loc'[o].rt
        PROVE loc'[o].rate = hw'["rate"]
    <3>1. CASE o = t
      BY <1>1, <2>1, <2>2, <3>1
    <3>2. CASE o # t
      BY <1>1, <1>2, <2>2, <3>2 DEF Faithful, Relaning
    <3>. QED BY <3>1, <3>2
  <2>. QED BY <2>2 DEF Relaning
<1>17. Pinned'
  BY <1>1 DEF Faithful, Pinned, Kept
<1>. QED BY <1>10, <1>11, <1>12, <1>13, <1>14, <1>15, <1>16, <1>17 DEF Faithful

\* A thread that takes the radio out of the runtime it works with, in the table or
\* not, and leaves it nowhere, in hand or in a runtime that is not in the table.
Removes(t) ==
  /\ loc[t].rt = handle /\ handle \in Runtimes
  /\ \A o \in Threads : o # t => pc'[o] = pc[o] /\ loc'[o] = loc[o]
  /\ pc'[t] \notin {"apply", "back", "relane", "revive"} /\ pc[t] # "apply"
  /\ ~loc'[t].reverting
  /\ set' = set /\ hw'["rate"] = hw["rate"] /\ hw'["lanes"] = hw["lanes"]
  /\ handle' \in Runtimes => Fresh(handle')
  /\ \A q \in Runtimes : rts'[q].waiting = rts[q].waiting
                         \/ (q = handle' /\ rts'[q].waiting = Nothing)
  /\ Present => \A o \in Threads : pc[o] = "back" => loc[o].ser # handle

LEMMA RemovesTold ==
  ASSUME Shaped, Shaped', Held, Held', Faithful, NEW t \in Threads \ {"hotplug"}, Removes(t),
         handle' # handle, Carried'
  PROVE Faithful'
<1>0. t \in Threads /\ t # "hotplug" /\ "hotplug" \in Threads
  BY Names
<1>1. /\ handle \in Runtimes /\ set' = set /\ hw'["rate"] = hw["rate"]
      /\ hw'["lanes"] = hw["lanes"] /\ ~loc'[t].reverting
      /\ pc'[t] \notin {"apply", "back", "relane", "revive"} /\ pc[t] # "apply"
      /\ handle' \in Runtimes => Fresh(handle')
  BY DEF Removes
<1>2. \A o \in Threads : o # t => pc'[o] = pc[o] /\ loc'[o] = loc[o]
  BY DEF Removes
<1>3. /\ Present' <=> Present
      /\ Present => handle = set.rt /\ handle' # set'.rt
  <2>1. Present => handle = set.rt
    BY <1>0, <1>1, InTheTable DEF Removes
  <2>. QED BY <1>1, <2>1 DEF Present
<1>4. \A o \in Threads : loc[o].new = None
  BY <1>0, OneNew DEF Removes
<1>5. Present => \A o \in Threads : ~Answering(o)
  BY <1>3 DEF Removes, Answering
<1>6. \A o \in Threads : handle' \in Runtimes => loc[o].ser # handle' /\ loc[o].rt # handle'
  BY <1>1 DEF Fresh, Referenced
<1>10. Queues'
  <2>1. \A o \in Threads : ~loc'[o].reverting
    BY <1>1, <1>2 DEF Faithful, Queues
  <2>2. \A o \in Threads : pc'[o] \in {"apply", "back", "relane"} => loc'[o].rt = loc'[o].ser
    BY <1>1, <1>2 DEF Faithful, Queues
  <2>3. \A o \in Threads : pc'[o] = "apply" => rts'[loc'[o].ser].waiting = loc'[o].delta
    <3>1. ASSUME NEW o \in Threads, pc'[o] = "apply"
          PROVE rts'[loc'[o].ser].waiting = loc'[o].delta
      <4>1. pc[o] = "apply" /\ loc'[o] = loc[o]
        BY <1>1, <1>2, <3>1
      <4>2. loc[o].ser \in Runtimes
        BY <4>1, HoldsAt
      <4>3. rts'[loc[o].ser].waiting = rts[loc[o].ser].waiting
        BY <1>6, <4>2 DEF Removes
      <4>. QED BY <4>1, <4>3 DEF Faithful, Queues
    <3>. QED BY <3>1
  <2>4. ASSUME NEW r \in Runtimes, rts'[r].waiting # Nothing
        PROVE \E o \in Threads : pc'[o] = "apply" /\ loc'[o].ser = r
    <3>1. rts[r].waiting # Nothing
      BY <2>4 DEF Removes
    <3>2. PICK o \in Threads : pc[o] = "apply" /\ loc[o].ser = r
      BY <3>1 DEF Faithful, Queues
    <3>. QED BY <1>1, <1>2, <3>2
  <2>. QED BY <2>1, <2>2, <2>3, <2>4 DEF Queues
<1>11. Stale'
  <2>1. ASSUME Present', NEW o \in Threads, pc'[o] = "back"
        PROVE loc'[o].delta = Nothing /\ loc'[o].actual = Nothing
    <3>1. pc[o] = "back" /\ loc'[o] = loc[o] /\ Present
      BY <1>1, <1>2, <1>3, <2>1
    <3>2. loc[o].ser # set.rt
      BY <1>5, <3>1 DEF Answering
    <3>. QED BY <3>1, <3>2 DEF Faithful, Stale, Harmless
  <2>. QED BY <2>1 DEF Stale, Harmless
<1>12. Guarded' /\ Answers'
  BY <1>3 DEF Guarded, Answers
<1>14. Away'
  <2>1. Present => Agrees
    BY <1>3, <1>5, AgreesNow
  <2>2. Present' => Agrees'
    BY <1>1, <1>3, <2>1 DEF Agrees
  <2>. QED BY <2>2 DEF Away
<1>15. Reopened'
  <2>1. pc["hotplug"] # "revive"
    BY <1>0, <1>4, NewAtStep DEF NewAt
  <2>. QED BY <1>0, <1>2, <2>1 DEF Reopened
<1>16. Relaning'
  <2>1. ASSUME NEW o \in Threads, pc'[o] = "relane", handle' = loc'[o].rt
        PROVE FALSE
    <3>1. pc[o] = "relane" /\ loc'[o] = loc[o]
      BY <1>1, <1>2, <2>1
    <3>2. loc[o].rt \in Runtimes
      BY <3>1, ShapeOf
    <3>. QED BY <1>6, <2>1, <3>1, <3>2
  <2>. QED BY <2>1 DEF Relaning
<1>17. Pinned'
  BY <1>1 DEF Faithful, Pinned, Kept
<1>. QED BY <1>10, <1>11, <1>12, <1>14, <1>15, <1>16, <1>17 DEF Faithful

LEMMA StartLanesTold ==
  ASSUME Shaped, Shaped', Held, Held', Faithful, NEW t \in Clients \cup {"scanner"},
         NEW r \in Runtimes, StartLanesEffect(t, r)
  PROVE Faithful'
<1>. DEFINE s == loc[t].ser
<1>0. t \in Threads \ {"hotplug"} /\ t \in Threads /\ pc[t] = "relane" /\ pc'[t] = "swap"
  BY Names DEF StartLanesEffect, Moves
<1>1. /\ s \in Runtimes /\ loc[t].rt = s /\ handle = s /\ handle' = r /\ r # s /\ set' = set
      /\ hw' = hw /\ loc'[t].new = r /\ ~loc'[t].reverting /\ Fresh(r)
      /\ ~rts'[r].sweeping /\ rts'[r].meta = {loc[t].rate} /\ rts'[r].waiting = Nothing
  BY <1>0 DEF StartLanesEffect, Starts, Faithful, Queues
<1>2. \A q \in Runtimes : q # r => rts'[q].waiting = rts[q].waiting
  BY <1>1 DEF StartLanesEffect, Stays, Halts
<1>3. \A o \in Threads : pc[o] = "back" => loc[o].ser # s
  BY <1>0, HoldsAt, OneHolder DEF Held
<1>4. \A o \in Threads : o # t => pc'[o] = pc[o] /\ loc'[o] = loc[o]
  BY DEF StartLanesEffect, Moves
<1>. HIDE DEF s
<1>5. Removes(t)
  BY <1>0, <1>1, <1>2, <1>3, <1>4 DEF Removes
<1>6. Carried'
  <2>1. ASSUME Present', NEW o \in Threads \ {"hotplug"}, loc'[o].new # None
        PROVE Same' /\ rts'[loc'[o].new].meta = {hw'["rate"]}
    <3>1. o = t
      BY <1>0, <1>1, <1>4, <2>1, OneNew DEF s
    <3>2. Present /\ set.rt = s
      BY <1>0, <1>1, <2>1, InTheTable DEF Present, s
    <3>3. ~rts[s].sweeping
      BY <1>0, HoldsAt DEF Held, Locks, s
    <3>4. \A u \in Threads : ~Answering(u)
      BY <1>3, <3>2 DEF Answering
    <3>5. Same
      BY <1>1, <3>2, <3>3, <3>4 DEF Faithful, Answers
    <3>6. loc[t].rate = hw["rate"]
      BY <1>0, <1>1, <3>2 DEF Faithful, Relaning
    <3>. QED BY <1>1, <3>1, <3>5, <3>6 DEF Same
  <2>. QED BY <2>1 DEF Carried
<1>. QED BY <1>0, <1>1, <1>5, <1>6, RemovesTold

LEMMA StartLanesFailsTold ==
  ASSUME Shaped, Shaped', Held, Held', Faithful, NEW t \in Clients \cup {"scanner"},
         StartLanesFailsEffect(t)
  PROVE Faithful'
<1>. DEFINE s == loc[t].ser
<1>0. t \in Threads \ {"hotplug"} /\ t \in Threads /\ pc[t] = "relane" /\ pc'[t] = "mark"
  BY Names DEF StartLanesFailsEffect, Moves
<1>1. /\ s \in Runtimes /\ loc[t].rt = s /\ handle' = (IF handle = s THEN Closed ELSE handle)
      /\ set' = set /\ hw' = hw /\ loc'[t] = loc[t] /\ loc[t].new = None /\ ~loc'[t].reverting
  BY <1>0 DEF StartLanesFailsEffect, Faithful, Queues
<1>2. \A q \in Runtimes : /\ rts'[q].waiting = rts[q].waiting
                          /\ rts'[q].sweeping = rts[q].sweeping
                          /\ q # s => rts'[q].meta = rts[q].meta
  BY <1>1 DEF StartLanesFailsEffect, Stays, Halts
<1>3. \A o \in Threads : pc[o] = "back" => loc[o].ser # s
  BY <1>0, HoldsAt, OneHolder DEF Held
<1>4. \A o \in Threads : o # t => pc'[o] = pc[o] /\ loc'[o] = loc[o]
  BY DEF StartLanesFailsEffect, Moves
<1>. HIDE DEF s
<1>5. CASE handle = s
  <2>1. handle' = Closed /\ handle' \notin Runtimes /\ handle' # handle
    BY <1>1, <1>5, Names
  <2>2. Removes(t)
    BY <1>0, <1>1, <1>2, <1>3, <1>4, <1>5, <2>1 DEF Removes
  <2>3. \A o \in Threads : loc'[o].new = None
    BY <1>0, <1>1, <1>4, <1>5, OneNew DEF s
  <2>4. Carried'
    BY <2>3 DEF Carried
  <2>. QED BY <1>0, <2>1, <2>2, <2>4, RemovesTold
<1>6. CASE handle # s
  <2>1. Present' => /\ Present /\ set'.rt = set.rt
                    /\ set'.settings = set.settings /\ set'.lanes = set.lanes
    BY <1>1 DEF Present
  <2>2. hw' = hw /\ (handle' \in Runtimes => handle' = handle) /\ handle' = handle
    BY <1>1, <1>6
  <2>3. Elsewhere' => Elsewhere
    BY <1>0, <1>1, <1>4, <2>2 DEF Elsewhere, Running
  <2>4. \A q \in Runtimes : Quiet(q)
    BY <1>2, <1>6, <2>2 DEF Quiet
  <2>5. \A o \in Threads : Calm(o)
    BY <1>0, <1>1, <1>4 DEF Calm, Busy
  <2>6. Pinned'
    BY <1>1 DEF Faithful, Pinned, Kept
  <2>. QED BY <2>1, <2>2, <2>3, <2>4, <2>5, <2>6, QuietStep
<1>. QED BY <1>5, <1>6

----------------------------------------------------------------------------
(* Runtimes go into the table, and radios come out of one or into one.     *)

\* Thread u puts the runtime it started into the table.
Puts(u) ==
  /\ Present /\ loc[u].new # None /\ loc'[u] = NoLocals /\ pc'[u] \notin Busy
  /\ \A o \in Threads : o # u => pc'[o] = pc[o] /\ loc'[o] = loc[o]
  /\ set'.rt = loc[u].new /\ set'.holds = set.holds /\ set'.settings = set.settings
  /\ set'.lanes = set.lanes /\ handle' = handle /\ hw' = hw
  /\ \A q \in Runtimes : rts'[q].waiting = rts[q].waiting
                         \/ (rts'[q].waiting = Nothing /\ Unused(u, q))
  /\ rts'[loc[u].new].sweeping = rts[loc[u].new].sweeping
  /\ rts'[loc[u].new].meta = rts[loc[u].new].meta

\* What is said of the queues, once one is emptied that nobody waits in.
LEMMA PutsQueues ==
  ASSUME Shaped, Faithful, NEW u \in Threads, pc[u] # "apply", loc'[u] = NoLocals, NoneAt,
         pc'[u] \notin Busy,
         \A o \in Threads : o # u => pc'[o] = pc[o] /\ loc'[o] = loc[o],
         \A q \in Runtimes : rts'[q].waiting = rts[q].waiting
                             \/ (rts'[q].waiting = Nothing /\ Unused(u, q))
  PROVE Queues'
<1>1. \A o \in Threads : ~loc'[o].reverting
  BY DEF Faithful, Queues, NoneAt
<1>2. \A o \in Threads : pc'[o] \in {"apply", "back", "relane"} => loc'[o].rt = loc'[o].ser
  BY DEF Faithful, Queues, Busy
<1>3. \A o \in Threads : pc'[o] = "apply" => rts'[loc'[o].ser].waiting = loc'[o].delta
  <2>1. ASSUME NEW o \in Threads, pc'[o] = "apply"
        PROVE rts'[loc'[o].ser].waiting = loc'[o].delta
    <3>1. o # u /\ pc[o] = "apply" /\ loc'[o] = loc[o]
      BY <2>1 DEF Busy
    <3>2. loc[o].ser \in Runtimes
      BY <3>1, HoldsAt
    <3>3. ~Unused(u, loc[o].ser)
      BY <3>1 DEF Unused
    <3>. QED BY <3>1, <3>2, <3>3 DEF Faithful, Queues
  <2>. QED BY <2>1
<1>4. ASSUME NEW r \in Runtimes, rts'[r].waiting # Nothing
      PROVE \E o \in Threads : pc'[o] = "apply" /\ loc'[o].ser = r
  <2>1. PICK o \in Threads : pc[o] = "apply" /\ loc[o].ser = r
    BY <1>4 DEF Faithful, Queues
  <2>. QED BY <2>1
<1>. QED BY <1>1, <1>2, <1>3, <1>4 DEF Queues

LEMMA PutsTold ==
  ASSUME Shaped, Shaped', Held, Held', Faithful, NEW u \in Threads \ {"hotplug"}, Puts(u)
  PROVE Faithful'
<1>. DEFINE new == loc[u].new
<1>0. u \in Threads /\ Present /\ new # None /\ loc'[u] = NoLocals /\ NoneAt /\ pc'[u] \notin Busy
      /\ pc[u] \in {"swap", "revive"}
  BY NewAtStep DEF Puts, NewAt
<1>1. /\ handle = new /\ handle' = new /\ new \in Runtimes /\ set'.rt = new
      /\ set'.settings = set.settings /\ set'.lanes = set.lanes /\ set'.holds = set.holds
      /\ hw' = hw /\ rts'[new].sweeping = rts[new].sweeping /\ rts'[new].meta = rts[new].meta
  BY <1>0, OneNew DEF Puts
<1>2. \A o \in Threads : o # u => pc'[o] = pc[o] /\ loc'[o] = loc[o]
  BY DEF Puts
<1>. HIDE DEF new
<1>3. \A o \in Threads : loc[o].ser # new /\ loc[o].rt # new /\ loc'[o].new = None
  BY <1>0, <1>1, <1>2, OneNew DEF new, NoneAt
<1>4. ~Elsewhere'
  BY <1>1, <1>3, Names DEF Elsewhere
<1>5. Elsewhere
  BY <1>0 DEF Elsewhere, new
<1>6. \A o \in Threads : pc'[o] = "back" => pc[o] = "back" /\ loc'[o] = loc[o]
  BY <1>0, <1>2 DEF Busy
<1>10. Queues'
  BY <1>0, <1>2, PutsQueues DEF Puts
<1>11. Stale'
  BY <1>0, <1>5, <1>6 DEF Faithful, Stale, Harmless
<1>12. Guarded'
  <2>1. \A o \in Threads : pc'[o] \in {"apply", "back"} => loc'[o].ser # set'.rt
    BY <1>0, <1>1, <1>2, <1>3 DEF Busy
  <2>. QED BY <2>1 DEF Guarded
<1>13. Answers'
  <2>1. \A o \in Threads : ~Answering(o)'
    BY <1>1, <1>3, <1>6 DEF Answering
  <2>2. ~rts[new].sweeping => Same /\ rts[new].meta = {hw["rate"]}
    BY <1>0 DEF Faithful, Carried, new
  <2>3. ~rts'[set'.rt].sweeping => Same' /\ rts'[set'.rt].meta = {hw'["rate"]}
    BY <1>1, <2>2 DEF Same
  <2>. QED BY <2>1, <2>3 DEF Answers
<1>14. Away'
  <2>1. Agrees
    BY <1>0, <1>5 DEF Faithful, Away
  <2>2. Agrees'
    BY <1>1, <2>1 DEF Agrees
  <2>. QED BY <2>2 DEF Away
<1>15. Carried' /\ Reopened'
  BY <1>3, NoNews
<1>16. Relaning'
  <2>1. \A o \in Threads : pc'[o] = "relane" => loc'[o].rt # handle'
    BY <1>0, <1>1, <1>2, <1>3 DEF Busy
  <2>. QED BY <2>1 DEF Relaning
<1>17. Pinned'
  BY <1>1 DEF Faithful, Pinned, Kept
<1>. QED BY <1>10, <1>11, <1>12, <1>13, <1>14, <1>15, <1>16, <1>17 DEF Faithful

LEMMA SwapLanesTold ==
  ASSUME Shaped, Shaped', Held, Held', Faithful, NEW t \in Clients \cup {"scanner"}, Present,
         SwapLanesEffect(t)
  PROVE Faithful'
<1>1. t \in Threads \ {"hotplug"} /\ t \in Threads /\ pc[t] = "swap" /\ loc[t].new \in Runtimes
  BY Names DEF SwapLanesEffect
<1>2. loc[t].new # None /\ loc[t].new # loc[t].ser /\ loc[t].new # set.rt
  BY <1>1, Names, OneNew
<1>3. Stays(loc[t].new)
  BY <1>1, <1>2 DEF SwapLanesEffect
<1>4. pc'[t] \notin Busy
  BY DEF SwapLanesEffect, Moves, Resumes, Busy
<1>5. \A q \in Runtimes : rts'[q].waiting = rts[q].waiting
                          \/ (rts'[q].waiting = Nothing /\ Unused(t, q))
  BY DEF SwapLanesEffect
<1>6. Puts(t)
  BY <1>2, <1>3, <1>4, <1>5 DEF Puts, Stays, SwapLanesEffect, Moves
<1>. QED BY <1>1, <1>6, PutsTold

LEMMA SweepSwapsTold ==
  ASSUME Shaped, Shaped', Held, Held', Faithful, pc["scanner"] = "swap", SweepSwaps
  PROVE Faithful'
<1>1. "scanner" \in Threads \ {"hotplug"} /\ "scanner" \in Threads
  BY Names
<1>2. loc["scanner"].new # None /\ loc["scanner"].new # set.rt /\ loc["scanner"].new \in Runtimes
  BY <1>1, NewAtStep, OneNew DEF NewAt
<1>3. Stays(loc["scanner"].new)
  BY <1>1, <1>2 DEF SweepSwaps
<1>4. pc'["scanner"] \notin Busy
  BY DEF SweepSwaps, Moves, Busy
<1>5. \A q \in Runtimes : rts'[q].waiting = rts[q].waiting
                          \/ (rts'[q].waiting = Nothing /\ Unused("scanner", q))
  BY DEF SweepSwaps, Stays, Halts, Forgets
<1>6. Puts("scanner")
  BY <1>2, <1>3, <1>4, <1>5 DEF Puts, Stays, SweepSwaps, Moves
<1>. QED BY <1>1, <1>6, PutsTold

LEMMA ReviveTold ==
  ASSUME Shaped, Shaped', Held, Held', Faithful, ReviveEffect, overtaken' = 0
  PROVE Faithful'
<1>. DEFINE u == "hotplug"
            new == loc[u].new
<1>0. u \in Threads /\ Present /\ loc'[u] = NoLocals /\ NoneAt /\ pc'[u] = "idle"
      /\ pc[u] = "revive" /\ set.rt \in Runtimes /\ new # None
  BY Names, NewAtStep DEF ReviveEffect, NewAt, Moves
<1>1. /\ handle = new /\ handle' = new /\ new \in Runtimes /\ set'.rt = new /\ new # set.rt
      /\ set'.settings = hw /\ set'.lanes = hw["lanes"] /\ set'.holds = set.holds
      /\ hw' = hw /\ rts[new].meta = {hw["rate"]}
  BY <1>0, OneNew DEF ReviveEffect, Faithful, Reopened
<1>2. \A o \in Threads : o # u => pc'[o] = pc[o] /\ loc'[o] = loc[o]
  BY DEF ReviveEffect, Moves
<1>3. rts'[new].meta = {hw["rate"]}
  BY <1>1 DEF ReviveEffect, Stays
<1>30. \A q \in Runtimes : rts'[q].waiting = rts[q].waiting
                           \/ (rts'[q].waiting = Nothing /\ Unused(u, q))
  BY DEF ReviveEffect, Stays, Halts, Forgets
<1>31. rts[set.rt].patching = "free"
  BY DEF ReviveEffect
<1>. HIDE DEF new, u
<1>4. \A o \in Threads : loc[o].ser # new /\ loc[o].rt # new /\ loc'[o].new = None
  BY <1>0, <1>1, <1>2, OneNew DEF new, NoneAt
<1>5. ~Elsewhere'
  BY <1>1, <1>4, Names DEF Elsewhere
<1>6. \A o \in Threads : pc'[o] = "back" => pc[o] = "back" /\ loc'[o] = loc[o]
  BY <1>0, <1>2
<1>7. \A o \in Threads : pc[o] = "back" => Harmless(o)
  <2>1. ASSUME NEW o \in Threads, pc[o] = "back"
        PROVE loc[o].ser # set.rt
    <3>1. Holding(o)
      BY <2>1, HoldsAt
    <3>2. rts[loc[o].ser].patching = o /\ "free" \notin Threads
      BY <3>1, Names DEF Held, Locks
    <3>. QED BY <1>31, <3>2
  <2>. QED BY <1>0, <2>1 DEF Faithful, Stale
<1>10. Queues'
  <2>1. pc[u] # "apply" /\ pc'[u] \notin Busy
    BY <1>0 DEF Busy
  <2>. QED BY <1>0, <1>2, <1>30, <2>1, PutsQueues
<1>11. Stale'
  BY <1>6, <1>7 DEF Stale, Harmless
<1>12. Guarded'
  <2>1. \A o \in Threads : pc'[o] \in {"apply", "back"} => loc'[o].ser # set'.rt
    BY <1>0, <1>1, <1>2, <1>4
  <2>. QED BY <2>1 DEF Guarded
<1>13. Answers'
  <2>1. \A o \in Threads : ~Answering(o)'
    BY <1>1, <1>4, <1>6 DEF Answering
  <2>2. Same' /\ rts'[set'.rt].meta = {hw'["rate"]}
    BY <1>1, <1>3 DEF Same
  <2>. QED BY <2>1, <2>2 DEF Answers
<1>14. Away'
  BY <1>1 DEF Away, Agrees
<1>15. Carried' /\ Reopened'
  BY <1>4, NoNews
<1>16. Relaning'
  <2>1. \A o \in Threads : pc'[o] = "relane" => loc'[o].rt # handle'
    BY <1>0, <1>1, <1>2, <1>4
  <2>. QED BY <2>1 DEF Relaning
<1>17. Pinned'
  <2>1. ~Running
    BY <1>0 DEF Held, Runs, u
  <2>2. \A k \in Keepers : ~Kept(k)
    BY <2>1 DEF Held, Unpinned, RatePinned
  <2>. QED BY <1>1, <2>2 DEF Pinned, Kept
<1>. QED BY <1>10, <1>11, <1>12, <1>13, <1>14, <1>15, <1>16, <1>17 DEF Faithful

\* Thread u opens the radio in a runtime of its own.
LEMMA FreshQueues ==
  ASSUME Shaped, Faithful, NEW u \in Threads, NEW r \in Runtimes, Fresh(r),
         pc[u] # "apply", ~loc'[u].reverting, pc'[u] \notin {"apply", "back", "relane"},
         \A o \in Threads : o # u => pc'[o] = pc[o] /\ loc'[o] = loc[o],
         rts'[r].waiting = Nothing,
         \A q \in Runtimes : q # r => rts'[q].waiting = rts[q].waiting
  PROVE Queues'
<1>1. \A o \in Threads : ~loc'[o].reverting
  BY DEF Faithful, Queues
<1>2. \A o \in Threads : pc'[o] \in {"apply", "back", "relane"} => loc'[o].rt = loc'[o].ser
  BY DEF Faithful, Queues
<1>3. \A o \in Threads : pc'[o] = "apply" => rts'[loc'[o].ser].waiting = loc'[o].delta
  <2>1. ASSUME NEW o \in Threads, pc'[o] = "apply"
        PROVE rts'[loc'[o].ser].waiting = loc'[o].delta
    <3>1. o # u /\ pc[o] = "apply" /\ loc'[o] = loc[o]
      BY <2>1
    <3>2. loc[o].ser \in Runtimes /\ loc[o].ser # r
      BY <3>1, HoldsAt DEF Fresh, Referenced
    <3>. QED BY <3>1, <3>2 DEF Faithful, Queues
  <2>. QED BY <2>1
<1>4. ASSUME NEW q \in Runtimes, rts'[q].waiting # Nothing
      PROVE \E o \in Threads : pc'[o] = "apply" /\ loc'[o].ser = q
  <2>1. PICK o \in Threads : pc[o] = "apply" /\ loc[o].ser = q
    BY <1>4 DEF Faithful, Queues
  <2>. QED BY <2>1
<1>. QED BY <1>1, <1>2, <1>3, <1>4 DEF Queues

LEMMA ReconnectTold ==
  ASSUME Shaped, Shaped', Held, Held', Faithful, NEW r \in Runtimes, ReconnectEffect(r)
  PROVE Faithful'
<1>. DEFINE u == "hotplug"
<1>0. u \in Threads /\ pc'[u] = "revive" /\ pc[u] = "idle" /\ handle = Closed /\ Fresh(r)
      /\ set' = set /\ set.status = "Error" /\ handle' = r /\ hw' = set.settings
      /\ loc'[u].new = r /\ loc'[u].actual = hw' /\ ~loc'[u].reverting
      /\ rts'[r].meta = {hw'["rate"]} /\ rts'[r].waiting = Nothing
  BY Names DEF ReconnectEffect, Moves, Starts
<1>1. \A o \in Threads : o # u => pc'[o] = pc[o] /\ loc'[o] = loc[o]
  BY DEF ReconnectEffect, Moves
<1>2. \A q \in Runtimes : q # r => rts'[q].waiting = rts[q].waiting
  BY DEF ReconnectEffect, Stays
<1>. HIDE DEF u
<1>3. \A o \in Threads : loc[o].new = None
  BY <1>0, Names, OneNew
<1>4. (Present' <=> Present) /\ (Present' => handle' # set'.rt)
  BY <1>0 DEF Present, Fresh, Referenced
<1>5. ~Elsewhere'
  BY <1>0, <1>1, <1>3, Names DEF Elsewhere, u
<1>6. \A o \in Threads : pc'[o] \in {"apply", "back", "relane"} => pc[o] = pc'[o] /\ loc'[o] = loc[o]
  BY <1>0, <1>1
<1>10. Queues'
  <2>1. pc[u] # "apply" /\ pc'[u] \notin {"apply", "back", "relane"}
    BY <1>0
  <2>. QED BY <1>0, <1>1, <1>2, <2>1, FreshQueues
<1>11. Stale'
  BY <1>0, <1>4, <1>5, <1>6 DEF Faithful, Stale, Harmless
<1>12. Guarded' /\ Answers'
  BY <1>4 DEF Guarded, Answers
<1>13. Away'
  BY <1>4, <1>5 DEF Away
<1>14. Carried'
  BY <1>1, <1>3 DEF Carried, u
<1>15. Reopened'
  BY <1>0 DEF Reopened, u
<1>16. Relaning'
  <2>1. \A o \in Threads : pc'[o] = "relane" => loc'[o].rt # handle'
    BY <1>0, <1>6 DEF Fresh, Referenced
  <2>. QED BY <2>1 DEF Relaning
<1>17. Pinned'
  <2>1. ~Running
    BY <1>0 DEF Running
  <2>2. \A k \in Keepers : ~Kept(k)
    BY <2>1 DEF Held, Unpinned, RatePinned
  <2>. QED BY <1>0, <2>2 DEF Pinned, Kept
<1>. QED BY <1>10, <1>11, <1>12, <1>13, <1>14, <1>15, <1>16, <1>17 DEF Faithful

LEMMA ReceivesTold ==
  ASSUME Shaped, Shaped', Held, Held', Faithful, NEW r \in Runtimes, ReceivesEffect(r)
  PROVE Faithful'
<1>. DEFINE u == "scanner"
<1>0. u \in Threads /\ pc'[u] = "swap" /\ pc[u] = "restore" /\ Fresh(r) /\ Present
      /\ set' = set /\ handle' = r /\ hw' = set.settings
      /\ loc'[u].new = r
      /\ rts'[r].meta = {set.settings["rate"]} /\ rts'[r].waiting = Nothing
  BY Names DEF ReceivesEffect, Moves, Starts
<1>00. handle = InHand /\ Elsewhere /\ ~loc'[u].reverting
  BY <1>0 DEF Held, Owned, Elsewhere, ReceivesEffect, Faithful, Queues
<1>1. \A o \in Threads : o # u => pc'[o] = pc[o] /\ loc'[o] = loc[o]
  BY DEF ReceivesEffect, Moves
<1>2. \A q \in Runtimes : q # r => rts'[q].waiting = rts[q].waiting
  BY DEF ReceivesEffect, Stays
<1>. HIDE DEF u
<1>3. \A o \in Threads : loc[o].new = None
  BY <1>00, Names, OneNew
<1>4. Present' /\ handle' # set'.rt
  BY <1>0 DEF Present, Fresh, Referenced
<1>6. \A o \in Threads : pc'[o] \in {"apply", "back", "relane"} => pc[o] = pc'[o] /\ loc'[o] = loc[o]
  BY <1>0, <1>1
<1>7. Agrees
  BY <1>0, <1>00 DEF Faithful, Away
<1>8. Agrees' /\ Same'
  BY <1>0, <1>7 DEF Agrees, Same
<1>10. Queues'
  <2>1. pc[u] # "apply" /\ pc'[u] \notin {"apply", "back", "relane"}
    BY <1>0
  <2>. QED BY <1>0, <1>00, <1>1, <1>2, <2>1, FreshQueues
<1>11. Stale'
  BY <1>0, <1>00, <1>6 DEF Faithful, Stale, Harmless
<1>12. Guarded' /\ Answers'
  BY <1>4 DEF Guarded, Answers
<1>13. Away'
  BY <1>8 DEF Away
<1>14. Carried'
  <2>1. ASSUME NEW o \in Threads \ {"hotplug"}, loc'[o].new # None
        PROVE Same' /\ rts'[loc'[o].new].meta = {hw'["rate"]}
    <3>1. o = u
      BY <1>1, <1>3, <2>1
    <3>. QED BY <1>0, <1>8, <3>1
  <2>. QED BY <2>1 DEF Carried
<1>15. Reopened'
  <2>1. "hotplug" \in Threads /\ "hotplug" # u /\ pc["hotplug"] # "revive"
    BY <1>3, Names, NewAtStep DEF NewAt, u
  <2>. QED BY <1>1, <2>1 DEF Reopened
<1>16. Relaning'
  <2>1. \A o \in Threads : pc'[o] = "relane" => loc'[o].rt # handle'
    BY <1>0, <1>6 DEF Fresh, Referenced
  <2>. QED BY <2>1 DEF Relaning
<1>17. Pinned'
  BY <1>0 DEF Faithful, Pinned, Kept
<1>. QED BY <1>10, <1>11, <1>12, <1>13, <1>14, <1>15, <1>16, <1>17 DEF Faithful

\* The scanner takes the radio out of the table's runtime, and nobody patches that.
LEMMA NobodyPatches ==
  ASSUME Shaped, Held, NEW q \in Runtimes, rts[q].patching = "free", NEW o \in Threads,
         pc[o] = "back"
  PROVE loc[o].ser # q
<1>1. Holding(o)
  BY HoldsAt
<1>2. rts[loc[o].ser].patching = o /\ "free" \notin Threads
  BY <1>1, Names DEF Held, Locks
<1>. QED BY <1>2

LEMMA InHandsTold ==
  ASSUME Shaped, Shaped', Held, Held', Faithful, InHands, overtaken' = 0
  PROVE Faithful'
<1>1. "scanner" \in Threads \ {"hotplug"} /\ "scanner" \in Threads
  BY Names
<1>2. /\ loc["scanner"].rt = handle /\ handle \in Runtimes /\ rts[handle].patching = "free"
      /\ set' = set /\ hw' = hw /\ handle' = InHand /\ InHand \notin Runtimes
      /\ pc["scanner"] = "take" /\ pc'["scanner"] = "restore" /\ loc'["scanner"] = loc["scanner"]
  BY Names DEF InHands, Takes, Moves
<1>3. \A o \in Threads : o # "scanner" => pc'[o] = pc[o] /\ loc'[o] = loc[o]
  BY DEF InHands, Moves
<1>4. \A q \in Runtimes : rts'[q].waiting = rts[q].waiting
  BY <1>2 DEF InHands, Takes, Halts, Stays
<1>5. \A o \in Threads : pc[o] = "back" => loc[o].ser # handle
  BY <1>2, NobodyPatches
<1>6. ~loc'["scanner"].reverting
  BY <1>1, <1>2 DEF Faithful, Queues
<1>7. Removes("scanner")
  BY <1>2, <1>3, <1>4, <1>5, <1>6 DEF Removes
<1>8. \A o \in Threads : loc'[o].new = None
  BY <1>1, <1>2, <1>3, OneNew
<1>9. Carried'
  BY <1>8 DEF Carried
<1>10. handle' # handle
  BY <1>2
<1>. QED BY <1>1, <1>7, <1>9, <1>10, RemovesTold

LEMMA SweepStartsTold ==
  ASSUME Shaped, Shaped', Held, Held', Faithful, NEW r \in Runtimes, SweepStartsEffect(r),
         overtaken' = 0
  PROVE Faithful'
<1>1. "scanner" \in Threads \ {"hotplug"} /\ "scanner" \in Threads
  BY Names
<1>2. /\ loc["scanner"].rt = handle /\ handle \in Runtimes /\ rts[handle].patching = "free"
      /\ set' = set /\ hw'["rate"] = hw["rate"] /\ hw'["lanes"] = hw["lanes"]
      /\ handle' = r /\ Fresh(r) /\ r # handle
      /\ pc["scanner"] = "take" /\ pc'["scanner"] = "swap"
      /\ loc'["scanner"].new = r /\ rts'[r].sweeping /\ rts'[r].waiting = Nothing
  BY DEF SweepStartsEffect, Takes, Moves, Starts
<1>3. \A o \in Threads : o # "scanner" => pc'[o] = pc[o] /\ loc'[o] = loc[o]
  BY DEF SweepStartsEffect, Moves
<1>4. \A q \in Runtimes : q # r => rts'[q].waiting = rts[q].waiting
  BY <1>2 DEF SweepStartsEffect, Takes, Halts, Stays
<1>5. \A o \in Threads : pc[o] = "back" => loc[o].ser # handle
  BY <1>2, NobodyPatches
<1>6. ~loc'["scanner"].reverting
  BY <1>1 DEF SweepStartsEffect, Faithful, Queues
<1>7. Removes("scanner")
  BY <1>2, <1>3, <1>4, <1>5, <1>6 DEF Removes
<1>8. \A o \in Threads : o # "scanner" => loc'[o].new = None
  BY <1>1, <1>2, <1>3, OneNew
<1>9. Carried'
  BY <1>2, <1>8 DEF Carried
<1>10. handle' # handle
  BY <1>2
<1>. QED BY <1>1, <1>7, <1>9, <1>10, RemovesTold

----------------------------------------------------------------------------
(* Every step keeps the table faithful, as long as it overtakes no patch.  *)

\* What was overtaken once stays so.
LEMMA OvertakenStays ==
  ASSUME Shaped, [Next]_vars, overtaken' = 0
  PROVE overtaken = 0
<1>0. overtaken \in Nat
  BY RadioAssumption, ShapedParts
<1>00. ASSUME NEW so \in BOOLEAN, Overtaking(so)
       PROVE overtaken = 0
  BY <1>0, <1>00 DEF Overtaking
<1>1. ASSUME NEW t \in Clients \cup {"scanner"}, Patching(t)
      PROVE overtaken = 0
  <2>1. CASE \E d \in Patches \cup Centers : Ask(t, d)
    BY <2>1 DEF Ask, history
  <2>2. CASE Admit(t)
    BY <2>2 DEF Admit, ghosts, history
  <2>3. CASE Validate(t)
    <3>1. overtaken' = overtaken \/ Overtaking(set.rt # loc[t].ser)
      BY <2>3 DEF Validate
    <3>. QED BY <1>00, <3>1
  <2>4. CASE Apply(t)
    BY <2>4 DEF Apply, ghosts, history
  <2>5. CASE WriteBack(t)
    BY <2>5 DEF WriteBack, ghosts, history
  <2>6. CASE RestartLanes(t)
    <3>1. overtaken' = overtaken \/ Overtaking(set.rt # loc[t].ser)
      BY <2>6 DEF RestartLanes
    <3>. QED BY <1>00, <3>1
  <2>7. CASE StartLanes(t)
    BY <2>7 DEF StartLanes, ghosts, history
  <2>8. CASE SwapLanes(t)
    BY <2>8 DEF SwapLanes, ghosts, history
  <2>. QED BY <1>1, <2>1, <2>2, <2>3, <2>4, <2>5, <2>6, <2>7, <2>8 DEF Patching
<1>2. ASSUME NEW t \in Threads, Marking(t)
      PROVE overtaken = 0
  BY <1>2 DEF Marking, MarkLanes, Joined, Halt, ghosts, history
<1>3. ASSUME NEW c \in Clients, Caller(c)
      PROVE overtaken = 0
  BY <1>3 DEF Caller, StartScan, ListScan, StopScan, Commit, Remove, Finish, Begin, ghosts, history
<1>4. CASE Scanner
  <2>1. CASE StartSweep \/ StopSweep
    <3>1. Overtaking(rts[loc["scanner"].rt].patching # "free")
      BY <2>1 DEF StartSweep, StopSweep, TakeRadio
    <3>. QED BY <1>00, <3>1
  <2>2. CASE EndScan \/ LastFollow \/ Enter \/ Hit \/ Leave
    BY <2>2 DEF EndScan, LastFollow, Enter, Hit, Leave, ghosts, history
  <2>3. CASE NothingToTake \/ Restore \/ SwapSweep
    BY <2>3 DEF NothingToTake, Restore, SwapSweep, ghosts, history
  <2>. QED BY <1>4, <2>1, <2>2, <2>3 DEF Scanner
<1>5. ASSUME NEW r \in Runtimes, Die(r)
      PROVE overtaken = 0
  BY <1>5 DEF Die, ghosts, history
<1>6. CASE Drain \/ Reconnect
  BY <1>6 DEF Drain, Reconnect, ghosts, history
<1>7. CASE Revive
  <2>1. overtaken' = overtaken \/ Overtaking(rts[set.rt].patching # "free")
    BY <1>7 DEF Revive
  <2>. QED BY <1>00, <2>1
<1>8. CASE UNCHANGED vars
  BY <1>8 DEF vars, ghosts, history
<1>. QED BY <1>1, <1>2, <1>3, <1>4, <1>5, <1>6, <1>7, <1>8 DEF Next

LEMMA PatchingTold ==
  ASSUME Shaped, Shaped', Held, Held', Faithful, overtaken' = 0,
         NEW t \in Clients \cup {"scanner"}, Patching(t)
  PROVE Faithful'
<1>0. t \in Threads
  BY Names
<1>1. CASE \E d \in Patches \cup Centers : Ask(t, d)
  BY <1>1, AskStep, AskTold
<1>2. CASE Admit(t)
  <2>0. pc[t] = "wait"
    BY <1>2 DEF Admit
  <2>1. CASE rts[loc[t].ser].sweeping
    <3>1. PatchFails(t)
      BY <1>2, <2>1, AdmitRefusedStep
    <3>. QED BY <2>0, <3>1, PatchFailsTold
  <2>2. CASE ~rts[loc[t].ser].sweeping
    BY <1>2, <2>2, AdmitStep, AdmitTold
  <2>. QED BY <2>1, <2>2
<1>3. CASE Validate(t)
  <2>0. pc[t] = "validate"
    BY <1>3 DEF Validate
  <2>1. CASE ~Present \/ Refused(loc[t].delta)
    <3>1. PatchFails(t)
      BY <1>3, <2>1, ValidateFailsStep
    <3>. QED BY <2>0, <3>1, PatchFailsTold
  <2>2. CASE Present /\ ~Refused(loc[t].delta)
    BY <1>3, <2>2, ValidateStep, ValidateTold
  <2>. QED BY <2>1, <2>2
<1>4. CASE Apply(t)
  <2>1. CASE Programs(t)
    BY <2>1, ApplyTakenStep, ApplyTakenTold
  <2>2. CASE FindsItDone(t)
    BY <2>2, ApplyIdleStep, ApplyIdleTold
  <2>3. ASSUME NEW b \in BOOLEAN, RefusesIt(t, b, b)
        PROVE Faithful'
    <3>1. PatchFails(t)
      BY <2>3, ApplyFailsStep
    <3>2. pc[t] = "apply"
      BY <2>3 DEF RefusesIt
    <3>. QED BY <3>1, <3>2, PatchFailsTold
  <2>. QED BY <1>4, <2>1, <2>2, <2>3, ApplyCases
<1>5. CASE WriteBack(t)
  <2>0. pc[t] = "back"
    BY <1>5 DEF WriteBack
  <2>1. ~loc[t].reverting /\ ~TooLate(t)
    BY <1>0, <2>0, NeverTooLate DEF Faithful, Queues
  <2>2. CASE ~Present
    <3>1. PatchFails(t)
      BY <1>5, <2>2, WriteBackGivesUpStep
    <3>. QED BY <2>2, <3>1, PatchFailsTold
  <2>3. CASE Present /\ ~Relaned(t)
    BY <1>5, <2>1, <2>3, WriteBackEndsStep, WriteBackEndsTold
  <2>4. CASE Present /\ Relaned(t)
    BY <1>5, <2>1, <2>4, WriteBackRelanesStep, WriteBackRelanesTold
  <2>. QED BY <2>2, <2>3, <2>4
<1>6. CASE RestartLanes(t)
  <2>1. CASE Present
    BY <1>6, <2>1, RestartLanesStep, RestartLanesTold
  <2>2. CASE ~Present
    BY <1>6, <2>2, RestartLanesGoneStep, RestartLanesGoneTold
  <2>. QED BY <2>1, <2>2
<1>7. CASE StartLanes(t)
  <2>1. CASE LanesFail(t)
    BY <2>1, StartLanesFailsStep, StartLanesFailsTold
  <2>2. ASSUME NEW r \in Runtimes, LanesStart(t, r)
        PROVE Faithful'
    BY <2>2, StartLanesStep, StartLanesTold
  <2>. QED BY <1>7, <2>1, <2>2, StartLanesCases
<1>8. CASE SwapLanes(t)
  <2>1. CASE Present
    BY <1>8, <2>1, SwapLanesStep, SwapLanesTold
  <2>2. CASE ~Present
    BY <1>8, <2>2, SwapLanesGoneStep, SwapLanesGoneTold
  <2>. QED BY <2>1, <2>2
<1>. QED BY <1>1, <1>2, <1>3, <1>4, <1>5, <1>6, <1>7, <1>8 DEF Patching

LEMMA MarkingTold ==
  ASSUME Shaped, Shaped', Held, Held', Faithful, NEW t \in Threads \ {"hotplug"}, Marking(t)
  PROVE Faithful'
<1>1. CASE MarkLanes(t)
  <2>1. CASE Present
    <3>1. FailEffect(t) /\ pc[t] = "mark"
      BY <1>1, <2>1, MarkLanesFailStep, FailStep
    <3>. QED BY <3>1, FailTold
  <2>2. CASE ~Present
    <3>0. t \in Clients \cup {"scanner"}
      <4>1. pc[t] = "mark" /\ Fits(t, pc[t], loc[t])
        BY <1>1, ShapeOf DEF MarkLanes
      <4>. QED BY <4>1, Names DEF Fits
    <3>1. PatchFails(t)
      BY <1>1, <2>2, <3>0, MarkLanesStep
    <3>. QED BY <2>2, <3>0, <3>1, PatchFailsTold
  <2>. QED BY <2>1, <2>2
<1>2. CASE Joined(t)
  BY <1>2, JoinedStep, JoinedTold
<1>3. CASE Halt(t)
  <2>1. CASE loc[t].ser = None
    BY <1>3, <2>1, HaltStep, HaltTold
  <2>2. CASE loc[t].ser # None
    BY <1>3, <2>2, HaltPatchStep, HaltPatchTold
  <2>. QED BY <2>1, <2>2
<1>. QED BY <1>1, <1>2, <1>3 DEF Marking

LEMMA CallersTold ==
  ASSUME Shaped, Shaped', Held, Held', Faithful, NEW c \in Clients, Caller(c)
  PROVE Faithful'
<1>1. CASE StartScan(c)
  BY <1>1, StartScanStep, StartScanTold
<1>2. CASE ListScan(c)
  <2>1. CallerKeeps(c, pc'[c]) /\ pc[c] = "list scan" /\ set'.holds = set.holds
        /\ pc'[c] \in {"idle", "joining"}
    BY <1>2, ListScanStep
  <2>2. pc'[c] \in {"idle", "joining", "commit"} /\ pc[c] \in {"idle", "list scan", "commit"}
    BY <2>1
  <2>. QED BY <2>1, <2>2, CallerTold
<1>3. CASE StopScan(c)
  BY <1>3, StopScanStep, CallerTold
<1>4. CASE Commit(c)
  BY <1>4, CommitStep, CommitTold
<1>5. CASE Remove(c)
  BY <1>5, RemoveStep, RemoveTold
<1>6. ASSUME NEW k \in Keepers, Finish(c, k)
      PROVE Faithful'
  BY <1>6, FinishKeeperStep, FinishKeeperTold
<1>7. ASSUME NEW k \in Keepers, NEW stream \in Streams, Begin(c, k, stream)
      PROVE Faithful'
  BY <1>7, BeginStep, CallerTold
<1>. QED BY <1>1, <1>2, <1>3, <1>4, <1>5, <1>6, <1>7 DEF Caller

LEMMA ScannerTold ==
  ASSUME Shaped, Shaped', Held, Held', Faithful, overtaken' = 0, Scanner
  PROVE Faithful'
<1>1. CASE EndScan
  <2>1. ScannerMoves(WindsUp) /\ pc["scanner"] = "loop"
    BY <1>1, EndScanStep
  <2>2. WindsUp \in {"last", "leave", "ended"}
    BY DEF WindsUp
  <2>. HIDE DEF WindsUp
  <2>. QED BY <2>1, <2>2, ScannerMovesTold
<1>2. CASE LastFollow
  BY <1>2, LastFollowStep, ScannerMovesTold
<1>3. CASE Hit
  BY <1>3, HitStep, ScannerMovesTold
<1>4. CASE Enter
  <2>1. CASE Reaches
    BY <1>4, <2>1, EnterStep, ReachesTold
  <2>2. CASE ~Reaches
    BY <1>4, <2>2, EnterStep, RetreatsTold
  <2>. QED BY <2>1, <2>2
<1>5. CASE Leave
  <2>1. CASE Reaches
    BY <1>5, <2>1, LeaveStep, ReachesTold
  <2>2. CASE ~Reaches
    BY <1>5, <2>2, LeaveStep, RetreatsTold
  <2>. QED BY <2>1, <2>2
<1>6. CASE NothingToTake
  BY <1>6, NothingToTakeStep, FindsSweepTold, FindsNoRadioTold
<1>7. CASE StartSweep
  <2>1. CASE SweepRefused
    BY <2>1, SweepRefusedStep, InHandsTold
  <2>2. ASSUME NEW r \in Runtimes, NEW d \in Centers, SweepStarts(r, d)
        PROVE Faithful'
    BY <2>2, SweepStartsStep, SweepStartsTold
  <2>. QED BY <1>7, <2>1, <2>2, StartSweepCases
<1>8. CASE StopSweep
  BY <1>8, StopSweepStep, InHandsTold
<1>9. CASE Restore
  <2>1. CASE DropsRadio
    BY <2>1, DropsRadioStep, DropsRadioTold
  <2>2. ASSUME NEW r \in Runtimes, Receives(r)
        PROVE Faithful'
    BY <2>2, ReceivesStep, ReceivesTold
  <2>. QED BY <1>9, <2>1, <2>2, RestoreCases
<1>10. CASE SwapSweep
  <2>1. pc["scanner"] = "swap" /\ loc["scanner"].ser = None
    BY <1>10 DEF SwapSweep
  <2>2. scan.inSweep \/ ~scan.ending
    BY <2>1 DEF Held, Sweeps
  <2>3. CASE Present
    BY <1>10, <2>1, <2>2, <2>3, SwapSweepStep, SweepSwapsTold
  <2>4. CASE ~Present
    BY <1>10, <2>4, SwapSweepGoneStep, SwapSweepGoneTold
  <2>. QED BY <2>3, <2>4
<1>. QED BY <1>1, <1>2, <1>3, <1>4, <1>5, <1>6, <1>7, <1>8, <1>9, <1>10 DEF Scanner

LEMMA NextKeepsTold ==
  ASSUME Shaped, Held, Told, [Next]_vars
  PROVE Told'
<1>. SUFFICES ASSUME overtaken' = 0
     PROVE Faithful'
  BY DEF Told
<1>0. Shaped' /\ Held' /\ Faithful
  BY NextKeepsHeld, OvertakenStays DEF Told
<1>1. ASSUME NEW t \in Clients \cup {"scanner"}, Patching(t)
      PROVE Faithful'
  BY <1>0, <1>1, PatchingTold
<1>2. ASSUME NEW t \in Threads \ {"hotplug"}, Marking(t)
      PROVE Faithful'
  BY <1>0, <1>2, MarkingTold
<1>3. ASSUME NEW c \in Clients, Caller(c)
      PROVE Faithful'
  BY <1>0, <1>3, CallersTold
<1>4. CASE Scanner
  BY <1>0, <1>4, ScannerTold
<1>5. ASSUME NEW r \in Runtimes, Die(r)
      PROVE Faithful'
  BY <1>0, <1>5, DieStep, StillTold
<1>6. CASE Drain
  <2>1. CASE Present
    <3>1. FailEffect("drainer") /\ pc["drainer"] = "idle" /\ "drainer" \in Threads \ {"hotplug"}
      BY <1>6, <2>1, DrainStep, FailStep
    <3>. QED BY <1>0, <3>1, FailTold
  <2>2. CASE ~Present
    <3>1. UNCHANGED <<set, rts, handle, hw, pc, loc, scan, overtaken, lost>>
      BY <1>6, <2>2, DrainNothingStep
    <3>2. \A q \in Runtimes : Stays(q)
      BY <3>1 DEF Stays
    <3>. QED BY <1>0, <3>1, <3>2, StillTold
  <2>. QED BY <2>1, <2>2
<1>7. CASE Reconnect
  BY <1>0, <1>7, ReconnectCases, ReconnectStep, ReconnectTold
<1>8. CASE Revive
  <2>1. CASE set.status = "Error"
    BY <1>0, <1>8, <2>1, ReviveStep, ReviveTold
  <2>2. CASE set.status # "Error"
    BY <1>0, <1>8, <2>2, ReviveGoneStep, ReviveGoneTold
  <2>. QED BY <2>1, <2>2
<1>9. CASE UNCHANGED vars
  <2>1. UNCHANGED <<set, rts, handle, hw, pc, loc, scan, overtaken, lost>>
    BY <1>9 DEF vars, radio, ghosts, history
  <2>3. \A q \in Runtimes : Stays(q)
    BY <2>1 DEF Stays
  <2>. QED BY <1>0, <2>1, <2>3, StillTold
<1>. QED BY <1>1, <1>2, <1>3, <1>4, <1>5, <1>6, <1>7, <1>8, <1>9 DEF Next

LEMMA InitTold ==
  ASSUME Init
  PROVE Told
<1>1. PICK r \in Runtimes :
        /\ set = [status |-> "Running", settings |-> First, lanes |-> First["lanes"],
                  rt |-> r, holds |-> Unheld, ratePatches |-> 0, scanner |-> FALSE]
        /\ rts = [q \in Runtimes |-> IF q = r THEN Started(FALSE, First["rate"]) ELSE Fallow]
        /\ handle = r
  BY DEF Init
<1>2. /\ hw = First
      /\ pc = [t \in Threads |-> IF t = "scanner" THEN "off" ELSE "idle"]
      /\ loc = [t \in Threads |-> NoLocals]
  BY DEF Init
<1>3. First \in Settings /\ First["rate"] \in Nat
  BY RadioAssumption DEF Settings, Fields
<1>4. /\ set.status = "Running" /\ set.rt = r /\ set.holds = Unheld
      /\ set.settings = First /\ set.lanes = First["lanes"]
  BY <1>1
<1>5. rts[r].meta = {First["rate"]} /\ \A q \in Runtimes : ~rts[q].sweeping /\ rts[q].waiting = Nothing
  <2>. DEFINE a == Started(FALSE, First["rate"])
              b == Fallow
  <2>1. a.sweeping = FALSE /\ a.meta = {First["rate"]} /\ a.waiting = Nothing
    BY <1>3, StartedFits
  <2>2. b.sweeping = FALSE /\ b.waiting = Nothing
    BY RtFallow
  <2>3. rts = [q \in Runtimes |-> IF q = r THEN a ELSE b]
    BY <1>1
  <2>. HIDE DEF a, b
  <2>. QED BY <2>1, <2>2, <2>3
<1>6. \A t \in Threads : /\ pc[t] \in {"idle", "off"} /\ ~loc[t].reverting /\ loc[t].new = None
  BY <1>2, LocNone
<1>7. ~Elsewhere /\ pc["hotplug"] # "revive"
  BY <1>1, <1>6, Names DEF Elsewhere
<1>8. Same
  BY <1>2, <1>4 DEF Same
<1>9. \A k \in Keepers : ~Kept(k)
  BY <1>4 DEF Kept, Unheld
<1>10. Queues /\ Stale /\ Guarded
  BY <1>5, <1>6 DEF Queues, Stale, Guarded
<1>11. Answers /\ Away /\ Carried /\ Reopened /\ Relaning /\ Pinned
  BY <1>1, <1>2, <1>4, <1>5, <1>6, <1>7, <1>8, <1>9
     DEF Answers, Answering, Away, Carried, Reopened, Relaning, Pinned
<1>. QED BY <1>10, <1>11 DEF Told, Faithful

\* What is said of the table once everything is through.
LEMMA ToldTable ==
  ASSUME Shaped, Told
  PROVE TableTellsTheRadio
<1>. SUFFICES ASSUME overtaken = 0, Settled, Present, handle = set.rt, ~rts[set.rt].sweeping
     PROVE set.settings = hw /\ rts[set.rt].meta = {hw["rate"]} /\ set.lanes = hw["lanes"]
  BY DEF TableTellsTheRadio, TableIsTrue
<1>1. \A t \in Threads : ~Answering(t)
  BY DEF Settled, Answering
<1>. QED BY <1>1 DEF Told, Faithful, Answers, Same

LEMMA ToldRate ==
  ASSUME Shaped, Told
  PROVE RateStaysPinned
BY DEF Shaped, Rated, Guards, Told, Faithful, Pinned, RateStaysPinned

----------------------------------------------------------------------------
(* The theorems.                                                           *)

\* Every thread has what its place in the code needs and no more; a runtime's
\* patching lock is held by the one thread that took it; whoever takes the
\* driver out of a runtime (restart_lanes, sweep::enter and sweep::leave,
\* reconnect) is the only one who has it, and it is in the table's runtime, in
\* the hands of that thread, on its way to be stopped, or closed.
THEOREM InvariantRadio == Spec => [](Shaped /\ Held)
<1>1. Init => Shaped /\ Held
  BY InitHeld
<1>2. (Shaped /\ Held) /\ [Next]_vars => (Shaped /\ Held)'
  BY NextKeepsHeld
<1>. QED BY <1>1, <1>2, PTL DEF Spec

\* Every variable keeps its type, whatever patches, sweeps, faults, reconnects
\* and removals do, and no queue of a runtime promises a batch beyond the bound.
THEOREM TypesOfRadio == Spec => []TypeOK
<1>1. Shaped /\ Held => TypeOK
  BY DEF Shaped
<1>. QED BY <1>1, InvariantRadio, PTL

\* Once every operation is through, the driver is closed or owned by the
\* runtime in the table; a set shown as running has it, unless
\* restore_receiving lost it; and a radio that sweeps has a scanner thread that
\* knows of it, on every way through sweep::enter, sweep::leave and Scan::run.
THEOREM OwnerOfRadio == Spec => []RadioHasAnOwner
<1>1. Shaped /\ Held => RadioHasAnOwner
  BY HeldOwner
<1>. QED BY <1>1, InvariantRadio, PTL

\* As long as no patch had its runtime replaced under it, what the table says
\* of the radio is true or is about to be made true by the one patch that has
\* the answer of DeviceRuntime::apply and holds the lock; a runtime that is
\* about to go into the table was told the radio's rate; one patch at a time is
\* in the queue of a runtime.
THEOREM FaithfulTable == Spec => []Told
<1>1. Init => Told
  BY InitTold
<1>2. Shaped /\ Held /\ Told /\ [Next]_vars => Told'
  BY NextKeepsTold
<1>. QED BY <1>1, <1>2, InvariantRadio, PTL DEF Spec

\* Once every patch, sweep, lane restart, fault and reconnect is through, the
\* settings and the lanes in the table and the rate the lanes were told with
\* set_meta are those of the radio, if no patch of patch_device_quietly was
\* overtaken: however many clients patch it, in whatever order.
THEOREM TrueTable == Spec => []TableTellsTheRadio
<1>1. Shaped /\ Told => TableTellsTheRadio
  BY ToldTable
<1>2. Shaped /\ Held => Shaped
  OBVIOUS
<1>. QED BY <1>1, <1>2, InvariantRadio, FaithfulTable, PTL

\* rate_patches is the number of patches that hold a RatePatchGuard, on every
\* way out of patch_device_quietly; and, if no patch was overtaken, a recording,
\* an export or an armed time machine has the rate that the table says and that
\* the radio runs at, from its commit to its end.
THEOREM PinnedRate == Spec => []RateStaysPinned
<1>1. Shaped /\ Told => RateStaysPinned
  BY ToldRate
<1>2. Shaped /\ Held => Shaped
  OBVIOUS
<1>. QED BY <1>1, <1>2, InvariantRadio, FaithfulTable, PTL
=============================================================================
