----------------------------- MODULE DeviceSets ------------------------------
(***************************************************************************)
(* The engine's table of device sets (crates/engine/src/lib.rs and         *)
(* device_ops.rs) and the threads that work on it: clients that create and *)
(* remove sets, the fault drainer, the hotplug prober, and the drivers     *)
(* that report a dead stream.  The table lies under one mutex, but a radio *)
(* is opened, started and stopped outside it, so every operation is cut    *)
(* where the code lets go of the lock.                                     *)
(*                                                                         *)
(* A capture runtime stands for the open radio it owns: the radio is held  *)
(* from the moment it is opened until the runtime is stopped or dropped.   *)
(***************************************************************************)
EXTENDS Naturals, Sequences, FiniteSets

CONSTANTS
  Devices,      \* radios
  Exclusive,    \* the radios that only one program, and one handle, can open
  Clients,      \* threads that serve API calls
  MaxSets,      \* bound: device set ids handed out
  MaxRuntimes,  \* bound: runtimes alive or referenced at one time
  MaxFaults,    \* bound: faults waiting for the drainer
  Glitches,     \* TRUE: a stream may die although its radio is attached
  Refusals,     \* TRUE: a driver may refuse to open or to start
  Hiccups       \* TRUE: a probe may miss a radio that is attached

ASSUME SetsAssumption ==
  /\ Exclusive \subseteq Devices /\ IsFiniteSet(Clients)
  /\ MaxSets \in Nat /\ MaxRuntimes \in Nat /\ MaxFaults \in Nat
  /\ Glitches \in BOOLEAN /\ Refusals \in BOOLEAN /\ Hiccups \in BOOLEAN
  /\ "drainer" \notin Clients /\ "hotplug" \notin Clients

Threads == Clients \cup {"drainer", "hotplug"}
SetIds == 1..MaxSets
Runtimes == 1..MaxRuntimes
NoDevice == "no device"
None == 0   \* no set, no runtime

VARIABLES
  \* Inner, behind the engine's mutex
  sets,      \* device_sets
  creating,  \* ids reserved by a create that is not finished
  pending,   \* pending_faults
  nextId,    \* next_ds_id
  \* the runtimes, and the channel their fault handlers send into
  rts, faultq,
  \* the bus: what is attached, and whether it changed since the last probe
  attached, changed,
  \* the threads' program counters and locals
  pc, arg, loc, want, todo,
  \* the prober's locals
  found, missing, toMark, returned,
  \* history
  dirty,     \* sets changed since clients were last told about them
  misses     \* successive probes a running set's radio was missing from

table == <<sets, creating, pending, nextId>>
world == <<rts, faultq, attached, changed>>
locals == <<pc, arg, loc, want, todo>>
prober == <<found, missing, toMark, returned>>
vars == <<table, world, locals, prober, dirty, misses>>

NoSet == [dev |-> NoDevice, status |-> "Absent", error |-> "none",
          fault |-> FALSE, rt |-> None]
Stopped == [phase |-> "stopped", ds |-> None, dev |-> NoDevice, gate |-> "none"]

Live(s) == sets[s].status # "Absent"
Running(s) == sets[s].status = "Running"
Failed(s) == sets[s].status = "Error"

\* Some set has this radio already: refuse_reopen finds it.
Taken(d) == \E s \in SetIds : Live(s) /\ sets[s].dev = d

Held(d) == \E r \in Runtimes : rts[r].phase # "stopped" /\ rts[r].dev = d

\* registry.open can succeed: the radio is there, and nobody has claimed it.
Openable(d) == d \in attached /\ ~(d \in Exclusive /\ Held(d))

Referenced(r) == \/ \E s \in SetIds : sets[s].rt = r
                 \/ \E t \in Threads : loc[t] = r \/ r \in todo[t]
Unused(r) == rts[r].phase = "stopped" /\ ~Referenced(r)

\* The least of the unused runtimes, so that identities carry no information.
Fresh(r) == Unused(r) /\ \A q \in Runtimes : Unused(q) => r <= q

Stop(r) == rts' = [rts EXCEPT ![r] = Stopped]
Goto(t, label) == pc' = [pc EXCEPT ![t] = label]

\* A thread leaves its operation, and its locals with it.
Return(t) == /\ pc' = [pc EXCEPT ![t] = "idle"]
             /\ arg' = [arg EXCEPT ![t] = None]
             /\ loc' = [loc EXCEPT ![t] = None]
             /\ want' = [want EXCEPT ![t] = NoDevice]

----------------------------------------------------------------------------

Init ==
  /\ sets = [s \in SetIds |-> NoSet] /\ creating = {} /\ pending = {} /\ nextId = 1
  /\ rts = [r \in Runtimes |-> Stopped] /\ faultq = <<>>
  /\ attached = Devices /\ changed = TRUE
  /\ pc = [t \in Threads |-> "idle"] /\ arg = [t \in Threads |-> None]
  /\ loc = [t \in Threads |-> None] /\ want = [t \in Threads |-> NoDevice]
  /\ todo = [t \in Threads |-> {}]
  /\ found = {} /\ missing = {} /\ toMark = {} /\ returned = {}
  /\ dirty = {} /\ misses = [s \in SetIds |-> 0]

----------------------------------------------------------------------------
(* The bus and the drivers.                                                *)

Plug(d) ==
  /\ d \notin attached
  /\ attached' = attached \cup {d} /\ changed' = TRUE
  /\ UNCHANGED <<table, rts, faultq, locals, prober, dirty, misses>>

Unplug(d) ==
  /\ d \in attached
  /\ attached' = attached \ {d} /\ changed' = TRUE
  /\ UNCHANGED <<table, rts, faultq, locals, prober, dirty, misses>>

\* The driver gives up on its stream and calls the fatal handler, once.  The
\* handler of a set that is being created and of an armed gate sends to the
\* drainer; the gate of a reconnect under way keeps the fault.
Die(r) ==
  /\ rts[r].phase = "streaming"
  /\ Glitches \/ rts[r].dev \notin attached
  /\ Len(faultq) < MaxFaults
  /\ rts' = [rts EXCEPT ![r] =
               [phase |-> "dead", ds |-> rts[r].ds, dev |-> rts[r].dev,
                gate |-> IF rts[r].gate = "pending" THEN "caught" ELSE rts[r].gate]]
  /\ faultq' = IF rts[r].gate = "pending" THEN faultq ELSE Append(faultq, rts[r].ds)
  /\ UNCHANGED <<table, attached, changed, locals, prober, dirty, misses>>

----------------------------------------------------------------------------
(* create_device_set, create_opened_set.                                   *)

Create(c, d) ==
  /\ pc[c] = "idle"
  /\ ~Taken(d)
  /\ nextId + Cardinality({o \in Clients : pc[o] \in {"open", "recheck", "reserve"}})
       <= MaxSets
  /\ want' = [want EXCEPT ![c] = d]
  /\ Goto(c, "open")
  /\ UNCHANGED <<table, world, arg, loc, todo, prober, dirty, misses>>

OpenRadio(c) ==
  /\ pc[c] = "open"
  /\ \/ /\ Openable(want[c])
        /\ \E r \in Runtimes :
             /\ Fresh(r)
             /\ rts' = [rts EXCEPT ![r] = [phase |-> "open", ds |-> None,
                                           dev |-> want[c], gate |-> "none"]]
             /\ loc' = [loc EXCEPT ![c] = r]
        /\ Goto(c, "recheck")
        /\ UNCHANGED <<arg, want>>
     \/ /\ Refusals \/ ~Openable(want[c])
        /\ Return(c)
        /\ UNCHANGED rts
  /\ UNCHANGED <<table, faultq, attached, changed, todo, prober, dirty, misses>>

RefusedNever(d) == FALSE

\* refuse_reopen again, now that this thread has the radio.
RefusedAgain(d) == Taken(d)

Recheck(c) ==
  /\ pc[c] = "recheck"
  /\ IF RefusedAgain(want[c])
     THEN Stop(loc[c]) /\ Return(c)
     ELSE Goto(c, "reserve") /\ UNCHANGED <<rts, arg, loc, want>>
  /\ UNCHANGED <<table, faultq, attached, changed, todo, prober, dirty, misses>>

Reserve(c) ==
  /\ pc[c] = "reserve"
  /\ arg' = [arg EXCEPT ![c] = nextId]
  /\ nextId' = nextId + 1
  /\ creating' = creating \cup {nextId}
  /\ Goto(c, "start")
  /\ UNCHANGED <<sets, pending, world, loc, want, todo, prober, dirty, misses>>

\* CaptureRuntime::start, which drops the radio when it fails.
Start(c) ==
  /\ pc[c] = "start"
  /\ \/ /\ rts' = [rts EXCEPT ![loc[c]] = [phase |-> "streaming", ds |-> arg[c],
                                           dev |-> want[c], gate |-> "direct"]]
        /\ Goto(c, "insert")
        /\ UNCHANGED <<creating, pending, arg, loc, want>>
     \/ /\ Refusals \/ want[c] \notin attached
        /\ Stop(loc[c])
        /\ creating' = creating \ {arg[c]}
        /\ pending' = pending \ {arg[c]}
        /\ Return(c)
  /\ UNCHANGED <<sets, nextId, faultq, attached, changed, todo, prober, dirty, misses>>

\* The set enters the table; a fault that came first makes it start out failed.
Insert(c) ==
  LET failed == arg[c] \in pending
  IN /\ pc[c] = "insert"
     /\ sets' = [sets EXCEPT ![arg[c]] =
                   [dev |-> want[c],
                    status |-> IF failed THEN "Error" ELSE "Running",
                    error |-> IF failed THEN "fault" ELSE "none",
                    fault |-> failed,
                    rt |-> loc[c]]]
     /\ creating' = creating \ {arg[c]}
     /\ pending' = pending \ {arg[c]}
     /\ loc' = [loc EXCEPT ![c] = None]
     /\ dirty' = dirty \cup {arg[c]}
     /\ Goto(c, "announce")
     /\ UNCHANGED <<nextId, world, arg, want, todo, prober, misses>>

ToldNobody(t) == dirty

\* What clients still have to hear of once a thread told them: the clients'
\* threads announce StateScope::All, the others StateScope::DeviceSet.
Told(t) == IF t \in Clients THEN {} ELSE dirty \ {arg[t]}

Announce(t) ==
  /\ pc[t] = "announce"
  /\ dirty' = Told(t)
  /\ IF t \in Clients THEN Return(t) ELSE Goto(t, "work") /\ UNCHANGED <<arg, loc, want>>
  /\ UNCHANGED <<table, world, todo, prober, misses>>

----------------------------------------------------------------------------
(* remove_device_set, shutdown, teardown_set.                              *)

RuntimesThatRun(ids) == {sets[s].rt : s \in {o \in ids : Running(o)}}

RuntimesOf(ids) == {sets[s].rt : s \in ids}

TakeOut(c, ids) ==
  /\ pc[c] = "idle"
  /\ ids # {} /\ \A s \in ids : Live(s)
  /\ sets' = [s \in SetIds |-> IF s \in ids THEN NoSet ELSE sets[s]]
  /\ todo' = [todo EXCEPT ![c] = RuntimesOf(ids)]
  /\ dirty' = dirty \cup ids
  /\ Goto(c, "teardown")
  /\ UNCHANGED <<creating, pending, nextId, world, arg, loc, want, prober, misses>>

Remove(c, s) == TakeOut(c, {s})

Shutdown(c) == TakeOut(c, {s \in SetIds : Live(s)})

\* The runtimes of the removed sets are stopped one by one, then clients hear.
Teardown(c) ==
  /\ pc[c] = "teardown"
  /\ \E r \in todo[c] :
       /\ Stop(r)
       /\ todo' = [todo EXCEPT ![c] = @ \ {r}]
  /\ IF todo'[c] = {}
     THEN Goto(c, "idle") /\ dirty' = Told(c)
     ELSE UNCHANGED <<pc, dirty>>
  /\ UNCHANGED <<table, faultq, attached, changed, arg, loc, want, prober, misses>>

----------------------------------------------------------------------------
(* mark_device_fault: under the lock the set fails, or the fault is kept   *)
(* for the create that is under way, or it is for a set that is gone; then *)
(* the runtime is stopped outside the lock and clients are told.           *)

KeptNever(s) == pending
KeptAlways(s) == pending \cup {s}

\* pending_faults after a fault for a set that is not in the table.
Kept(s) == IF s \in creating THEN pending \cup {s} ELSE pending

MarkDeviceFault(t, s, back) ==
  IF Live(s)
  THEN /\ sets' = [sets EXCEPT ![s] = [dev |-> sets[s].dev, status |-> "Error",
                                       error |-> "fault", fault |-> TRUE,
                                       rt |-> sets[s].rt]]
       /\ loc' = [loc EXCEPT ![t] = sets[s].rt]
       /\ arg' = [arg EXCEPT ![t] = s]
       /\ dirty' = dirty \cup {s}
       /\ Goto(t, "release")
       /\ UNCHANGED pending
  ELSE /\ pending' = Kept(s)
       /\ Goto(t, back)
       /\ UNCHANGED <<sets, loc, arg, dirty>>

Release(t) ==
  /\ pc[t] = "release"
  /\ Stop(loc[t])
  /\ dirty' = Told(t)
  /\ IF t = "drainer"
     THEN Return(t)
     ELSE /\ loc' = [loc EXCEPT ![t] = None]
          /\ Goto(t, "work")
          /\ UNCHANGED <<arg, want>>
  /\ UNCHANGED <<table, faultq, attached, changed, todo, prober, misses>>

\* spawn_fault_drainer's loop.
Drain ==
  /\ pc["drainer"] = "idle"
  /\ faultq # <<>>
  /\ faultq' = Tail(faultq)
  /\ MarkDeviceFault("drainer", Head(faultq), "idle")
  /\ UNCHANGED <<creating, nextId, rts, attached, changed, want, todo, prober, misses>>

----------------------------------------------------------------------------
(* The hotplug prober: probe_bus and reconnect.                            *)

\* ProbeGate::should_probe: the first tick and every tick after the bus changed.
ShouldProbe ==
  /\ pc["hotplug"] = "idle"
  /\ changed
  /\ changed' = FALSE
  /\ Goto("hotplug", "probe")
  /\ UNCHANGED <<table, rts, faultq, attached, arg, loc, want, todo, prober, dirty, misses>>

Probe ==
  /\ pc["hotplug"] = "probe"
  /\ \E ids \in SUBSET attached : (Hiccups \/ ids = attached) /\ found' = ids
  /\ Goto("hotplug", "decide")
  /\ UNCHANGED <<table, world, arg, loc, want, todo, missing, toMark, returned, dirty, misses>>

Absent == {s \in SetIds : Running(s) /\ sets[s].dev \notin found}

\* missing_once, for the next probe.
MissingOnce == Absent

\* Who is gone for the second time in a row, and who is back.
Decide ==
  /\ pc["hotplug"] = "decide"
  /\ toMark' = Absent \cap missing
  /\ missing' = MissingOnce
  /\ returned' = {s \in SetIds : Failed(s) /\ sets[s].dev \in found}
  /\ misses' = [s \in SetIds |->
                  IF s \in Absent THEN IF misses[s] < 2 THEN misses[s] + 1 ELSE 2 ELSE 0]
  /\ Goto("hotplug", "work")
  /\ UNCHANGED <<table, world, arg, loc, want, todo, found, dirty>>

MarkAbsent(s) ==
  /\ pc["hotplug"] = "work"
  /\ s \in toMark
  /\ toMark' = toMark \ {s}
  /\ MarkDeviceFault("hotplug", s, "work")
  /\ UNCHANGED <<creating, nextId, world, want, todo, found, missing, returned, misses>>

\* The sets that are back are reopened in the order of their ids.
Reconnect(s) ==
  /\ pc["hotplug"] = "work"
  /\ toMark = {}
  /\ s \in returned /\ \A o \in returned : s <= o
  /\ returned' = returned \ {s}
  /\ IF Failed(s)
     THEN /\ arg' = [arg EXCEPT !["hotplug"] = s]
          /\ want' = [want EXCEPT !["hotplug"] = sets[s].dev]
          /\ Goto("hotplug", "reopen")
     ELSE UNCHANGED <<arg, want, pc>>
  /\ UNCHANGED <<table, world, loc, todo, found, missing, toMark, dirty, misses>>

Reopen ==
  /\ pc["hotplug"] = "reopen"
  /\ \/ /\ Openable(want["hotplug"])
        /\ \E r \in Runtimes :
             /\ Fresh(r)
             /\ rts' = [rts EXCEPT ![r] = [phase |-> "open", ds |-> arg["hotplug"],
                                           dev |-> want["hotplug"], gate |-> "none"]]
             /\ loc' = [loc EXCEPT !["hotplug"] = r]
        /\ Goto("hotplug", "restart")
     \/ /\ Refusals \/ ~Openable(want["hotplug"])
        /\ Goto("hotplug", "failed")
        /\ UNCHANGED <<rts, loc>>
  /\ UNCHANGED <<table, faultq, attached, changed, arg, want, todo, prober, dirty, misses>>

Restart ==
  /\ pc["hotplug"] = "restart"
  /\ \/ /\ rts' = [rts EXCEPT ![loc["hotplug"]] =
                     [phase |-> "streaming", ds |-> arg["hotplug"],
                      dev |-> want["hotplug"], gate |-> "pending"]]
        /\ Goto("hotplug", "swap")
        /\ UNCHANGED loc
     \/ /\ Refusals \/ want["hotplug"] \notin attached
        /\ Stop(loc["hotplug"])
        /\ loc' = [loc EXCEPT !["hotplug"] = None]
        /\ Goto("hotplug", "failed")
  /\ UNCHANGED <<table, faultq, attached, changed, arg, want, todo, prober, dirty, misses>>

NoteReconnectFailure ==
  LET s == arg["hotplug"]
  IN /\ pc["hotplug"] = "failed"
     /\ IF Failed(s) /\ sets[s].error # "reopen"
        THEN /\ sets' = [sets EXCEPT ![s] = [dev |-> sets[s].dev, status |-> "Error",
                                             error |-> "reopen", fault |-> sets[s].fault,
                                             rt |-> sets[s].rt]]
             /\ dirty' = dirty \cup {s}
             /\ Goto("hotplug", "announce")
        ELSE Goto("hotplug", "work") /\ UNCHANGED <<sets, dirty>>
     /\ UNCHANGED <<creating, pending, nextId, world, arg, loc, want, todo, prober, misses>>

SwapsAlways(s) == TRUE

\* The set is still there and still failed, seen under the lock.
Swaps(s) == Failed(s)

NeverCaught(r) == FALSE

\* The gate kept a fault while the runtime was being swapped in.
Caught(r) == rts[r].gate = "caught"

\* The new runtime goes into the table and its gate is armed, unless the set
\* was removed or revived meanwhile.  The fault field is left as it was.
Swap ==
  LET s == arg["hotplug"]
      new == loc["hotplug"]
  IN /\ pc["hotplug"] = "swap"
     /\ IF Swaps(s)
        THEN /\ rts' = [rts EXCEPT ![new] =
                          [phase |-> rts[new].phase, ds |-> s, dev |-> rts[new].dev,
                           gate |-> "armed"]]
             /\ sets' = [sets EXCEPT ![s] =
                           [dev |-> want["hotplug"], status |-> "Running",
                            error |-> "none", fault |-> sets[s].fault, rt |-> new]]
             /\ loc' = [loc EXCEPT !["hotplug"] = sets[s].rt]
             /\ dirty' = dirty \cup {s}
             /\ Goto("hotplug", IF Caught(new) THEN "retireDead" ELSE "retire")
        ELSE /\ Goto("hotplug", "discard")
             /\ UNCHANGED <<rts, sets, loc, dirty>>
     /\ UNCHANGED <<creating, pending, nextId, faultq, attached, changed, arg, want, todo,
                    prober, misses>>

\* The runtime that is no longer (or never was) in the table is stopped.
Retire ==
  /\ Stop(loc["hotplug"])
  /\ loc' = [loc EXCEPT !["hotplug"] = None]
  /\ \/ pc["hotplug"] = "retire" /\ Goto("hotplug", "announce")
     \/ pc["hotplug"] = "retireDead" /\ Goto("hotplug", "early")
     \/ pc["hotplug"] = "discard" /\ Goto("hotplug", "work")
  /\ UNCHANGED <<table, faultq, attached, changed, arg, want, todo, prober, dirty, misses>>

\* The reconnected stream died before its gate was armed.
EarlyFault ==
  /\ pc["hotplug"] = "early"
  /\ MarkDeviceFault("hotplug", arg["hotplug"], "work")
  /\ UNCHANGED <<creating, nextId, world, want, todo, prober, misses>>

ProbeDone ==
  /\ pc["hotplug"] = "work"
  /\ toMark = {} /\ returned = {}
  /\ Return("hotplug")
  /\ found' = {}
  /\ UNCHANGED <<table, world, todo, missing, toMark, returned,
                 dirty, misses>>

----------------------------------------------------------------------------

ClientStep(c) == \/ OpenRadio(c) \/ Recheck(c) \/ Reserve(c) \/ Start(c) \/ Insert(c)
                 \/ Announce(c) \/ Teardown(c)

Drainer == Drain \/ Release("drainer")

Hotplug == \/ ShouldProbe \/ Probe \/ Decide \/ ProbeDone
           \/ \E s \in SetIds : MarkAbsent(s) \/ Reconnect(s)
           \/ Reopen \/ Restart \/ NoteReconnectFailure \/ Swap \/ Retire \/ EarlyFault
           \/ Release("hotplug") \/ Announce("hotplug")

Request(c) == \/ \E d \in Devices : Create(c, d)
              \/ \E s \in SetIds : Remove(c, s)
              \/ Shutdown(c)

Bus == \E d \in Devices : Plug(d) \/ Unplug(d)

Next == \/ Bus
        \/ \E r \in Runtimes : Die(r)
        \/ \E c \in Clients : Request(c) \/ ClientStep(c)
        \/ Drainer
        \/ Hotplug

\* Every thread goes on with what it began, the drainer takes the next fault
\* and the prober ticks; nothing makes a client ask, a radio move or a stream
\* die.
Fairness == /\ \A c \in Clients : WF_vars(ClientStep(c))
            /\ WF_vars(Drainer)
            /\ WF_vars(Hotplug)

Spec == Init /\ [][Next]_vars /\ Fairness
----------------------------------------------------------------------------
(* Properties.                                                             *)

ClientSteps == {"idle", "open", "recheck", "reserve", "start", "insert",
                "announce", "teardown"}
DrainerSteps == {"idle", "release"}
HotplugSteps == {"idle", "probe", "decide", "work", "reopen", "restart", "failed",
                 "swap", "retire", "retireDead", "discard", "early", "release",
                 "announce"}

SetRecords == [dev : Devices \cup {NoDevice}, status : {"Absent", "Running", "Error"},
               error : {"none", "fault", "reopen"}, fault : BOOLEAN,
               rt : Runtimes \cup {None}]
RuntimeRecords == [phase : {"stopped", "open", "streaming", "dead"},
                   ds : SetIds \cup {None}, dev : Devices \cup {NoDevice},
                   gate : {"none", "direct", "pending", "caught", "armed"}]

TableOK ==
  /\ sets \in [SetIds -> SetRecords]
  /\ creating \subseteq SetIds /\ pending \subseteq creating
  /\ nextId \in 1..(MaxSets + 1)
  /\ dirty \subseteq SetIds /\ misses \in [SetIds -> 0..2]

WorldOK ==
  /\ rts \in [Runtimes -> RuntimeRecords]
  /\ faultq \in Seq(SetIds)
  /\ attached \subseteq Devices /\ changed \in BOOLEAN

ThreadsOK ==
  /\ pc \in [Threads -> ClientSteps \cup HotplugSteps]
  /\ \A c \in Clients : pc[c] \in ClientSteps
  /\ pc["drainer"] \in DrainerSteps /\ pc["hotplug"] \in HotplugSteps
  /\ arg \in [Threads -> SetIds \cup {None}]
  /\ loc \in [Threads -> Runtimes \cup {None}]
  /\ want \in [Threads -> Devices \cup {NoDevice}]
  /\ todo \in [Threads -> SUBSET Runtimes]
  /\ found \subseteq Devices
  /\ missing \subseteq SetIds /\ toMark \subseteq SetIds /\ returned \subseteq SetIds

\* Types; a fault is kept in pending_faults only while its set is being
\* created, so a late fault of a removed set leaves nothing behind.
TypeOK == TableOK /\ WorldOK /\ ThreadsOK

\* A radio that is open always belongs to a set of the table or to the thread
\* that is about to insert it or to stop it: no interleaving of create,
\* remove, reconnect and a fault leaves a stream running that nobody can stop.
NoRadioLeftOpen ==
  \A r \in Runtimes : rts[r].phase # "stopped" => Referenced(r)

\* Two sets never share a radio that can be opened only once, although the
\* check and the insertion lie under different holds of the lock.
OneSetPerRadio ==
  \A s, o \in SetIds :
    Live(s) /\ Live(o) /\ sets[s].dev = sets[o].dev /\ sets[s].dev \in Exclusive
      => s = o

\* A set shown as running whose stream is dead has its fault on the way: in
\* the drainer's queue, or in the hands of the reconnect that caught it.
DeadStreamIsKnown ==
  \A s \in SetIds :
    Running(s) /\ rts[sets[s].rt].phase \in {"dead", "stopped"} =>
      \/ \E i \in 1..Len(faultq) : faultq[i] = s
      \/ pc["hotplug"] \in {"retireDead", "early"} /\ arg["hotplug"] = s

\* A set that was removed never comes back: a reconnect that was under way
\* gives up its new runtime instead.
RemovedStaysRemoved ==
  [][\A s \in SetIds : ~Live(s) /\ Live(s)' => s \in creating]_vars

\* Once every thread is done, clients were told of each set after the last
\* change to it.
ChangesAnnounced == (\A t \in Threads : pc[t] = "idle") => dirty = {}

\* A dead stream is eventually shown as an error, or its set is gone.
FaultSurfaces ==
  \A s \in SetIds :
    Running(s) /\ rts[sets[s].rt].phase = "dead"
      ~> ~(Running(s) /\ rts[sets[s].rt].phase = "dead")

\* What tests/device_patch.rs names "a faulted set releases its device so the
\* replug can reopen it": once no thread is about to stop it, a failed set's
\* runtime has been stopped.
FaultedSetReleasesDevice ==
  \A s \in SetIds :
    Failed(s) => \/ rts[sets[s].rt].phase = "stopped"
                 \/ \E t \in Threads : pc[t] = "release" /\ loc[t] = sets[s].rt

\* What docs/src/getting-started/workspace.md says: plug the same radio back in
\* and it reconnects.  Once its old runtime has been stopped, a failed set whose
\* radio is attached (and, in the run that checks this, works whenever it is
\* attached) runs again.
ReplugReconnects ==
  \A s \in SetIds :
    Failed(s) /\ sets[s].dev \in attached /\ rts[sets[s].rt].phase = "stopped"
      ~> (~Failed(s) \/ sets[s].dev \notin attached)

=============================================================================
