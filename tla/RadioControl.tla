---------------------------- MODULE RadioControl -----------------------------
(***************************************************************************)
(* What happens to one running radio (crates/engine/src/device_ops.rs,     *)
(* runtime/patches.rs, lanes.rs, scanner.rs, scanner/, capture_ops.rs and  *)
(* history.rs): its settings are patched, its lanes are restarted, its     *)
(* scanner hands it to a firmware sweep and takes it back, recordings pin  *)
(* its sample rate, its stream dies and it is reopened, its set is         *)
(* removed.  All of that works on the entry of the set in the engine's     *)
(* table, under the engine's mutex, and on the runtime that owns the       *)
(* radio, under locks of its own; every operation is cut where the code    *)
(* lets go of the engine's mutex.                                          *)
(*                                                                         *)
(* Module DeviceSets has the table as a whole; here there is one set, and  *)
(* the radio's driver handle is in one place at a time: in a runtime, in   *)
(* the hands of a thread that took it out, or closed.                      *)
(***************************************************************************)
EXTENDS Naturals, FiniteSets

CONSTANTS
  Clients,      \* threads that serve the calls of clients
  Patches,      \* the settings a client may ask for
  Centers,      \* the settings the scanner asks for
  Keepers,      \* what pins the sample rate: "recording", "export", "history"
  Streams,      \* the lanes a keeper may listen to
  First,        \* the settings the set was created with
  Runtimes,     \* bound: runtimes referenced at one time
  MaxCalls,     \* bound: calls of clients
  MaxBatches,   \* bound: batches taken while one thread waits with its own
  MaxOvertakes, \* bound: patches whose runtime is replaced under them
  MaxTroubles   \* bound: streams that die, and calls that a driver refuses

Threads == Clients \cup {"scanner", "drainer", "hotplug"}
Fields == {"center", "rate", "lanes"}
Settings == [Fields -> Nat]

\* A DeviceSettings with some of its fields, and the one with every field None.
Deltas == [{} -> Nat] \cup [{"center"} -> Nat] \cup [{"rate"} -> Nat] \cup [{"lanes"} -> Nat]
  \cup [{"center", "rate"} -> Nat] \cup [{"center", "lanes"} -> Nat]
  \cup [{"rate", "lanes"} -> Nat] \cup Settings
Nothing == [f \in {} |-> 0]
None == "none"

\* Where the radio's driver is when no runtime has it: nowhere, or with the
\* thread that took it out of one.
Closed == "closed"
InHand == "in hand"

ASSUME RadioAssumption ==
  /\ IsFiniteSet(Clients)
  /\ {"scanner", "drainer", "hotplug", "free"} \cap Clients = {}
  /\ Patches \subseteq Deltas /\ Centers \subseteq [{"center"} -> Nat]
  /\ First \in Settings
  /\ Streams \subseteq Nat
  /\ {None, Closed, InHand} \cap Runtimes = {}
  /\ MaxOvertakes \in Nat /\ MaxTroubles \in Nat /\ MaxCalls \in Nat
  /\ MaxBatches \in Nat \ {0}

VARIABLES
  set,     \* the entry in device_sets
  rts,     \* the runtimes
  handle,  \* who has the driver: a runtime, Closed or InHand
  hw,      \* what the radio is set to
  faults,  \* messages in the fault channel
  troubles,  \* what has gone wrong at the radio so far
  pc, loc, \* the threads
  scan,    \* the scanner thread's own fields
  calls,   \* calls of clients so far
  \* history
  overtaken,  \* how often a patch had its runtime replaced under it
  lost        \* a driver refused to come back from a sweep

radio == <<handle, hw, faults, troubles>>
history == <<overtaken, lost>>
ghosts == <<calls, history>>
vars == <<set, rts, radio, pc, loc, scan, ghosts>>

Present == set.status # "Absent"
Running == set.status = "Running"

\* DeviceSettings::merge_from.
Merge(s, d) ==
  [f \in DOMAIN s \cup DOMAIN d |-> IF f \in DOMAIN d THEN d[f] ELSE s[f]]

NoHold == [rate |-> 0, stream |-> 0]
Unheld == [k \in Keepers |-> NoHold]
Gone == [status |-> "Absent", settings |-> First, lanes |-> 0, rt |-> None,
         holds |-> Unheld, ratePatches |-> 0, scanner |-> FALSE]

Kept(k) == set.holds[k] # NoHold

\* A thread outside any operation.
NoLocals == [ser |-> None, rt |-> None, new |-> None, delta |-> Nothing, batch |-> 0,
             actual |-> Nothing, lanes |-> 0, guard |-> FALSE, joins |-> FALSE,
             reverting |-> FALSE, keeper |-> "none", rate |-> 0, stream |-> 0]

\* `meta` has the rate the lanes of a runtime were told, if there are lanes.
Fallow == [live |-> FALSE, sweeping |-> FALSE, meta |-> {}, waiting |-> Nothing,
           batch |-> 0, refused |-> {}, patching |-> "free"]

Idle == [hardware |-> TRUE, inSweep |-> FALSE, ending |-> FALSE]

Referenced(r) == \/ Present /\ set.rt = r
                 \/ handle = r
                 \/ \E t \in Threads : r \in {loc[t].ser, loc[t].rt, loc[t].new}

Fresh(r) == ~Referenced(r)

\* Nothing but t refers to r any more.
OnlyFor(t, r) == /\ ~(Present /\ set.rt = r) /\ handle # r
                 /\ \A o \in Threads \ {t} : r \notin {loc[o].ser, loc[o].rt, loc[o].new}

\* A runtime that has just been started on the radio.
Started(sweeping, rate) ==
  [Fallow EXCEPT !.live = TRUE, !.sweeping = sweeping, !.meta = {rate}]

\* The driver refuses: on its own account, or because it must.
Refuses(must) ==
  IF must THEN UNCHANGED troubles
  ELSE troubles < MaxTroubles /\ troubles' = troubles + 1

\* A runtime is replaced, or robbed of its radio, while its patching lock is
\* held, or a patch goes on with another runtime than the one it locked.
Overtaking(so) ==
  IF so THEN overtaken < MaxOvertakes /\ overtaken' = overtaken + 1
  ELSE UNCHANGED overtaken

\* A client's call begins.
Called(c) == c \in Clients /\ pc[c] = "idle" /\ calls < MaxCalls /\ calls' = calls + 1

Goto(t, label) == pc' = [pc EXCEPT ![t] = label]

----------------------------------------------------------------------------

Init ==
  /\ \E r \in Runtimes :
       /\ set = [status |-> "Running", settings |-> First, lanes |-> First["lanes"],
                 rt |-> r, holds |-> Unheld, ratePatches |-> 0, scanner |-> FALSE]
       /\ rts = [q \in Runtimes |-> IF q = r THEN Started(FALSE, First["rate"]) ELSE Fallow]
       /\ handle = r
  /\ hw = First /\ faults = 0 /\ troubles = 0
  /\ pc = [t \in Threads |-> IF t = "scanner" THEN "off" ELSE "idle"]
  /\ loc = [t \in Threads |-> NoLocals]
  /\ scan = Idle
  /\ calls = 0 /\ overtaken = 0 /\ lost = FALSE

----------------------------------------------------------------------------
(* patch_device_quietly.  The runtime whose patching lock is taken is read *)
(* before the lock is waited for; the runtime that is patched is read      *)
(* after it.                                                               *)

\* Where a thread goes on once its patch is answered.
Resumes(t) == IF t # "scanner" THEN "idle" ELSE IF scan.ending THEN "ended" ELSE "loop"

\* A patch returns: the rate guard is dropped first, then the patching lock.
EndPatch(t) ==
  /\ Goto(t, Resumes(t))
  /\ loc' = [loc EXCEPT ![t] = NoLocals]

\* RatePatchGuard::drop.
RatePatchesWithout(t) ==
  IF Present /\ loc[t].guard THEN set.ratePatches - 1 ELSE set.ratePatches

\* The runtimes once t has let go of the one it locked.
Unlocked(t, f) ==
  [f EXCEPT ![loc[t].ser] = IF OnlyFor(t, loc[t].ser) THEN Fallow
                            ELSE [f[loc[t].ser] EXCEPT !.patching = "free"]]

\* DeviceSetState::tunes_freely.
TunesFreely == Present /\ ~Kept("recording") /\ ~rts[set.rt].sweeping

\* patch_device by a client; settle_tuning by the scanner, in park and follow.
Ask(t, d) ==
  /\ \/ Called(t) /\ d \in Patches /\ Present
     \/ t = "scanner" /\ pc[t] \in {"loop", "last"} /\ d \in Centers /\ TunesFreely
        /\ UNCHANGED calls
  /\ loc' = [loc EXCEPT ![t] = [NoLocals EXCEPT !.ser = set.rt, !.delta = d]]
  /\ Goto(t, "wait")
  /\ UNCHANGED <<set, rts, radio, scan, history>>

\* What patch_device_quietly says of a radio in the middle of a sweep.
RefusesSweeping(r) == rts[r].sweeping

Admit(t) ==
  LET r == loc[t].ser
  IN /\ pc[t] = "wait"
     /\ rts[r].patching = "free"
     /\ IF RefusesSweeping(r)
        THEN EndPatch(t) /\ rts' = Unlocked(t, rts)
        ELSE /\ rts' = [rts EXCEPT ![r] = [rts[r] EXCEPT !.patching = t]]
             /\ loc' = [loc EXCEPT ![t] =
                          [loc[t] EXCEPT !.lanes = IF Present THEN set.lanes ELSE 0]]
             /\ Goto(t, "validate")
     /\ UNCHANGED <<set, radio, scan, ghosts>>

ChangesRate(d) == "rate" \in DOMAIN d /\ d["rate"] # set.settings["rate"]
ChangesLanes(d) == "lanes" \in DOMAIN d /\ d["lanes"] # set.lanes

\* validate_rate_change.
RatePinned == \E k \in Keepers : Kept(k)

\* validate_lane_change.
LaneBusy(lanes) == \E k \in Keepers : Kept(k) /\ set.holds[k].stream >= lanes

\* validate_patch.
Refused(d) == \/ ChangesLanes(d) /\ LaneBusy(d["lanes"])
              \/ ChangesRate(d) /\ RatePinned

----------------------------------------------------------------------------
(* DeviceRuntime::apply.  A batch is what has been merged since the last   *)
(* one was taken; its number only matters to the threads waiting with it,  *)
(* so it starts over when none waits.                                      *)

\* What the radio is owed once a patch has joined.
Owed(r, d) == Merge(rts[r].waiting, d)

\* The guard of the table and the queue of the runtime, one after the other:
\* joining commutes with whatever the other threads do in between.
Validate(t) ==
  LET d == loc[t].delta
      r == set.rt
  IN /\ pc[t] = "validate"
     /\ Present => rts[r].batch < MaxBatches
     /\ IF ~Present \/ Refused(d)
        THEN /\ EndPatch(t) /\ rts' = Unlocked(t, rts)
             /\ UNCHANGED <<set, overtaken>>
        ELSE /\ set' = [set EXCEPT !.ratePatches = IF ChangesRate(d) THEN @ + 1 ELSE @]
             /\ rts' = [rts EXCEPT ![r] = [rts[r] EXCEPT !.waiting = Owed(r, d)]]
             /\ loc' = [loc EXCEPT ![t] = [loc[t] EXCEPT !.rt = r, !.guard = ChangesRate(d),
                                                         !.batch = rts[r].batch]]
             /\ Overtaking(r # loc[t].ser)
             /\ Goto(t, "apply")
     /\ UNCHANGED <<radio, scan, calls, lost>>

OthersWait(t, r) == \E o \in Threads \ {t} : pc[o] = "apply" /\ loc[o].rt = r

\* The runtime once t is through with it: `taken`, whether it took a batch,
\* `failed`, whether the radio refused it.
After(t, r, taken, failed) ==
  IF OthersWait(t, r)
  THEN [rts[r] EXCEPT !.waiting = IF taken THEN Nothing ELSE @,
                      !.batch = IF taken THEN @ + 1 ELSE @,
                      !.refused = IF failed THEN {loc[t].batch} ELSE @]
  ELSE [rts[r] EXCEPT !.waiting = IF taken THEN Nothing ELSE @,
                      !.batch = 0, !.refused = {}]

\* An error ends the patch: note_refusal, then the guards go.
FailPatch(t, r, after) ==
  /\ EndPatch(t)
  /\ set' = [set EXCEPT !.ratePatches = RatePatchesWithout(t)]
  /\ rts' = Unlocked(t, [rts EXCEPT ![r] = after])

\* Under the runtime's lock: take what is owed and program the radio, or find
\* that another patch carried it there.
Apply(t) ==
  LET r == loc[t].rt
      owed == rts[r].waiting
      taken == owed # Nothing
  IN /\ pc[t] = "apply"
     /\ \/ /\ taken /\ handle = r
           /\ hw' = Merge(hw, owed)
           /\ rts' = [rts EXCEPT ![r] = After(t, r, TRUE, FALSE)]
           /\ loc' = [loc EXCEPT ![t] = [loc[t] EXCEPT !.actual = hw']]
           /\ Goto(t, "back")
           /\ UNCHANGED <<set, troubles>>
        \/ /\ taken /\ Refuses(handle # r)
           /\ FailPatch(t, r, After(t, r, TRUE, TRUE))
           /\ UNCHANGED hw
        \/ /\ ~taken /\ loc[t].batch \in rts[r].refused
           /\ FailPatch(t, r, After(t, r, FALSE, FALSE))
           /\ UNCHANGED <<hw, troubles>>
        \/ /\ ~taken /\ loc[t].batch \notin rts[r].refused
           /\ rts' = [rts EXCEPT ![r] = After(t, r, FALSE, FALSE)]
           /\ loc' = [loc EXCEPT ![t] =
                        [loc[t] EXCEPT !.actual = IF handle = r THEN hw ELSE Nothing]]
           /\ Goto(t, "back")
           /\ UNCHANGED <<set, hw, troubles>>
     /\ UNCHANGED <<handle, faults, scan, ghosts>>

----------------------------------------------------------------------------
(* The rest of patch_device_quietly: the answer goes into the table, the   *)
(* lanes are told, and restarted if the radio now has another number.      *)

FinishPatch(t) ==
  /\ EndPatch(t)
  /\ set' = [set EXCEPT !.ratePatches = RatePatchesWithout(t)]
  /\ rts' = Unlocked(t, rts)

AnsweredByTheRadio(t) == loc[t].actual

\* What the table says once a patch is answered.
Answered(t) == Merge(Merge(set.settings, loc[t].delta), loc[t].actual)

\* A keeper came in between: the radio goes back to the rate the table has.
TooLate(t) == /\ Present /\ ~loc[t].reverting
              /\ RatePinned /\ ChangesRate(loc[t].delta)

\* The patch's lanes differ from those it found: restart_lanes is next.
Relaned(t) == (IF handle = set.rt THEN hw["lanes"] ELSE set.lanes) # loc[t].lanes

\* The answer goes into the table and set_meta tells the runtime.  (set_meta
\* comes after the table's lock is let go, with the patching lock still held:
\* nothing but a step that overtakes the patch touches the runtime in between.)
WriteBack(t) ==
  LET r == loc[t].rt
      told == [rts EXCEPT ![r] =
                 [rts[r] EXCEPT !.meta = IF @ = {} THEN {} ELSE {Answered(t)["rate"]}]]
      table == [set EXCEPT !.settings = Answered(t),
                           !.lanes = IF handle = set.rt THEN hw["lanes"] ELSE @]
  IN /\ pc[t] = "back"
     /\ \/ /\ ~Present \/ loc[t].reverting
           /\ FinishPatch(t)
        \/ /\ TooLate(t) /\ rts[r].batch < MaxBatches
           /\ loc' = [loc EXCEPT ![t] = [loc[t] EXCEPT !.reverting = TRUE,
                                                       !.batch = rts[r].batch]]
           /\ rts' = [rts EXCEPT ![r] = [rts[r] EXCEPT !.waiting =
                         Owed(r, [f \in {"rate"} |-> set.settings["rate"]])]]
           /\ Goto(t, "apply")
           /\ UNCHANGED set
        \/ /\ Present /\ ~loc[t].reverting /\ ~TooLate(t) /\ ~Relaned(t)
           /\ set' = [table EXCEPT !.ratePatches = RatePatchesWithout(t)]
           /\ rts' = Unlocked(t, told)
           /\ EndPatch(t)
        \/ /\ Present /\ ~loc[t].reverting /\ ~TooLate(t) /\ Relaned(t)
           /\ set' = table
           /\ rts' = told
           /\ Goto(t, "restart")
           /\ UNCHANGED loc
     /\ UNCHANGED <<radio, scan, ghosts>>

\* A runtime's halt: its lanes end, and the driver is in the caller's hands.
Halted(r) == [rts EXCEPT ![r] = [rts[r] EXCEPT !.live = FALSE, !.meta = {}]]

\* restart_lanes reads the runtime and the settings,
RestartLanes(t) ==
  /\ pc[t] = "restart"
  /\ IF Present
     THEN /\ loc' = [loc EXCEPT ![t] = [loc[t] EXCEPT !.rt = set.rt,
                                                      !.rate = set.settings["rate"]]]
          /\ Overtaking(set.rt # loc[t].ser)
          /\ Goto(t, "relane")
     ELSE Goto(t, "mark") /\ UNCHANGED <<loc, overtaken>>
  /\ UNCHANGED <<set, rts, radio, scan, calls, lost>>

\* takes the radio out of that runtime and starts it again: start_with_taps
\* drops the radio when it fails.
StartLanes(t) ==
  LET old == loc[t].rt
  IN /\ pc[t] = "relane"
     /\ \/ \E r \in Runtimes :
             /\ handle = old /\ Fresh(r)
             /\ rts' = [Halted(old) EXCEPT ![r] = Started(FALSE, loc[t].rate)]
             /\ handle' = r
             /\ loc' = [loc EXCEPT ![t] = [loc[t] EXCEPT !.new = r]]
             /\ Goto(t, "swap")
             /\ UNCHANGED troubles
        \/ /\ Refuses(handle # old)
           /\ rts' = Halted(old)
           /\ handle' = IF handle = old THEN Closed ELSE handle
           /\ Goto(t, "mark")
           /\ UNCHANGED loc
     /\ UNCHANGED <<set, hw, faults, scan, ghosts>>

\* The runtimes once t has put another into the table: the replaced one, which
\* has no radio any more, is stopped.
Replaced(t) ==
  LET old == set.rt
  IN [rts EXCEPT ![old] =
        IF \E o \in Threads \ {t} : old \in {loc[o].ser, loc[o].rt}
        THEN Halted(old)[old] ELSE Fallow]

\* swap_runtime.
SwapLanes(t) ==
  /\ pc[t] = "swap" /\ loc[t].ser # None
  /\ IF Present
     THEN /\ set' = [set EXCEPT !.rt = loc[t].new, !.ratePatches = RatePatchesWithout(t)]
          /\ rts' = Unlocked(t, Replaced(t))
          /\ EndPatch(t)
          /\ UNCHANGED handle
     ELSE /\ handle' = Closed
          /\ rts' = Halted(loc[t].new)
          /\ loc' = [loc EXCEPT ![t] = [loc[t] EXCEPT !.new = None]]
          /\ Goto(t, "mark")
          /\ UNCHANGED set
  /\ UNCHANGED <<hw, faults, troubles, scan, ghosts>>

----------------------------------------------------------------------------
(* mark_device_fault, by the drainer and by a patch whose lanes did not    *)
(* come back: the set fails, the scanner is joined, the runtime stopped.   *)

Fail(t) ==
  /\ Present
  /\ set' = [set EXCEPT !.status = "Error", !.holds = Unheld, !.scanner = FALSE]
  /\ loc' = [loc EXCEPT ![t] = [loc[t] EXCEPT !.rt = set.rt, !.joins = set.scanner]]
  /\ Goto(t, IF set.scanner THEN "joining" ELSE "halt")
  /\ UNCHANGED rts

\* A patch whose lanes did not come back marks the set itself.
MarkLanes(t) ==
  /\ pc[t] = "mark"
  /\ Fail(t) \/ (~Present /\ FinishPatch(t))
  /\ UNCHANGED <<radio, scan, ghosts>>

\* ScannerState::stop_and_join: the thread is gone.  Whoever waited for it
\* goes on to stop the runtime; the client that stops a scan, or that found
\* the set gone, is done.
Joined(t) ==
  /\ pc[t] = "joining" /\ pc["scanner"] = "ended"
  /\ LET next == IF loc[t].rt = None THEN "idle" ELSE "halt"
     IN pc' = [pc EXCEPT ![t] = next, !["scanner"] = "off"]
  /\ scan' = Idle
  /\ loc' = [loc EXCEPT ![t] = IF loc[t].rt = None THEN NoLocals
                               ELSE [loc[t] EXCEPT !.joins = FALSE]]
  /\ UNCHANGED <<set, rts, radio, ghosts>>

\* Stopping a runtime closes the driver it owns.
Released(r) == IF handle = r THEN Closed ELSE handle

\* CaptureRuntime::stop of the runtime that was in the table when the set
\* failed or was removed.
Halt(t) ==
  LET r == loc[t].rt
      stopped == Halted(r)
  IN /\ pc[t] = "halt"
     /\ handle' = Released(r)
     /\ EndPatch(t)
     /\ IF loc[t].ser # None
        THEN /\ set' = [set EXCEPT !.ratePatches = RatePatchesWithout(t)]
             /\ rts' = Unlocked(t, stopped)
        ELSE rts' = stopped /\ UNCHANGED set
     /\ UNCHANGED <<hw, faults, troubles, scan, ghosts>>

\* The driver gives up on its stream and calls the fatal handler, once.
Die(r) ==
  /\ rts[r].live /\ troubles < MaxTroubles
  /\ r # loc["hotplug"].new
  /\ rts' = [rts EXCEPT ![r] = [rts[r] EXCEPT !.live = FALSE]]
  /\ faults' = faults + 1 /\ troubles' = troubles + 1
  /\ UNCHANGED <<set, handle, hw, pc, loc, scan, ghosts>>

\* spawn_fault_drainer's loop.
Drain ==
  /\ pc["drainer"] = "idle" /\ faults > 0
  /\ faults' = faults - 1
  /\ Fail("drainer") \/ (~Present /\ UNCHANGED <<set, rts, pc, loc>>)
  /\ UNCHANGED <<handle, hw, troubles, scan, ghosts>>

----------------------------------------------------------------------------
(* reconnect, by the hotplug prober: the radio is reopened with the        *)
(* settings read at the start, and the new runtime goes in if the set is   *)
(* still failed.  (A death between the start and the swap is kept by the   *)
(* fault gate and raised after it, which a death after the swap covers.)   *)

\* open, apply and start.  On an error the radio is dropped, and all that
\* changes is the text the set shows.
Reconnect ==
  /\ pc["hotplug"] = "idle" /\ set.status = "Error" /\ handle = Closed
  /\ \E r \in Runtimes :
       /\ Fresh(r)
       /\ hw' = Merge(hw, set.settings)
       /\ rts' = [rts EXCEPT ![r] = Started(FALSE, hw'["rate"])]
       /\ handle' = r
       /\ loc' = [loc EXCEPT !["hotplug"] = [loc["hotplug"] EXCEPT !.new = r,
                                                                  !.actual = hw']]
       /\ Goto("hotplug", "revive")
  /\ UNCHANGED <<set, faults, troubles, scan, ghosts>>

Revive ==
  LET new == loc["hotplug"].new
  IN /\ pc["hotplug"] = "revive"
     /\ IF set.status = "Error"
        THEN /\ set' = [set EXCEPT !.status = "Running", !.rt = new,
                                   !.settings = loc["hotplug"].actual,
                                   !.lanes = hw["lanes"]]
             /\ rts' = Replaced("hotplug")
             /\ Overtaking(rts[set.rt].patching # "free")
             /\ UNCHANGED handle
        ELSE /\ rts' = Halted(new)
             /\ handle' = Closed
             /\ UNCHANGED <<set, overtaken>>
     /\ loc' = [loc EXCEPT !["hotplug"] = NoLocals]
     /\ Goto("hotplug", "idle")
     /\ UNCHANGED <<hw, faults, troubles, scan, calls, lost>>

\* remove_device_set takes the set out and tears it down.
Remove(c) ==
  /\ Called(c) /\ Present
  /\ set' = Gone
  /\ loc' = [loc EXCEPT ![c] = [loc[c] EXCEPT !.rt = set.rt, !.joins = set.scanner]]
  /\ Goto(c, IF set.scanner THEN "joining" ELSE "halt")
  /\ UNCHANGED <<rts, radio, scan, history>>

----------------------------------------------------------------------------
(* The scanner: scanner/session.rs, Scan::run, sweep::enter and            *)
(* sweep::leave.  Only its dealings with the radio are here.               *)

\* session::start admits the scan and spawns the thread (bound: one thread).
StartScan(c) ==
  /\ Called(c) /\ pc["scanner"] = "off"
  /\ Running /\ ~set.scanner
  /\ pc' = [pc EXCEPT ![c] = "list scan", !["scanner"] = "loop"]
  /\ UNCHANGED <<set, rts, radio, loc, scan, history>>

\* The thread is listed in the set, or stopped again if the set is gone.
ListScan(c) ==
  /\ pc[c] = "list scan"
  /\ IF Present
     THEN set' = [set EXCEPT !.scanner = TRUE] /\ Goto(c, "idle") /\ UNCHANGED loc
     ELSE /\ loc' = [loc EXCEPT ![c] = [loc[c] EXCEPT !.joins = TRUE]]
          /\ Goto(c, "joining")
          /\ UNCHANGED set
  /\ UNCHANGED <<rts, radio, scan, ghosts>>

\* session::stop.  (The settle_tuning that ends it, and that ends patch_device,
\* is another Ask.)
StopScan(c) ==
  /\ Called(c) /\ Present /\ set.scanner
  /\ set' = [set EXCEPT !.scanner = FALSE]
  /\ loc' = [loc EXCEPT ![c] = [loc[c] EXCEPT !.joins = TRUE]]
  /\ Goto(c, "joining")
  /\ UNCHANGED <<rts, radio, scan, history>>

WindsUpAtOnce == "last"

\* A scan that ends in the middle of a sweep leaves it first.
WindsUp == IF scan.inSweep THEN "leave" ELSE "last"

\* Scan::run ends: on the flag, because the set is not running any more, or
\* because the radio went quiet.
EndScan ==
  /\ pc["scanner"] = "loop"
  /\ scan' = [scan EXCEPT !.ending = TRUE]
  /\ Goto("scanner", WindsUp)
  /\ UNCHANGED <<set, rts, radio, loc, ghosts>>

\* The last follow finds nothing to tune.
LastFollow ==
  /\ pc["scanner"] = "last"
  /\ Goto("scanner", "ended")
  /\ UNCHANGED <<set, rts, radio, loc, scan, ghosts>>

\* sweep::enter failed: the scan goes on by retuning.
NoSweep == /\ scan' = [scan EXCEPT !.hardware = FALSE]
           /\ loc' = [loc EXCEPT !["scanner"] = NoLocals]
           /\ Goto("scanner", "loop")

\* sweep::leave failed: hit gives up, and run tries once more.
NotBack == /\ scan' = [scan EXCEPT !.ending = TRUE]
           /\ loc' = [loc EXCEPT !["scanner"] = NoLocals]
           /\ Goto("scanner", IF scan.ending THEN "last" ELSE "leave")

Enter ==
  /\ pc["scanner"] = "loop" /\ scan.hardware /\ ~scan.inSweep
  /\ IF Running
     THEN /\ loc' = [loc EXCEPT !["scanner"] = [loc["scanner"] EXCEPT !.rt = set.rt]]
          /\ Goto("scanner", "take")
          /\ UNCHANGED scan
     ELSE NoSweep
  /\ UNCHANGED <<set, rts, radio, ghosts>>

\* A hit, or the end of the scan, brings the receive stream back.
Hit ==
  /\ pc["scanner"] = "loop" /\ scan.inSweep
  /\ Goto("scanner", "leave")
  /\ UNCHANGED <<set, rts, radio, loc, scan, ghosts>>

Leave ==
  /\ pc["scanner"] = "leave"
  /\ IF Present
     THEN /\ loc' = [loc EXCEPT !["scanner"] = [loc["scanner"] EXCEPT !.rt = set.rt]]
          /\ Goto("scanner", "take")
          /\ UNCHANGED scan
     ELSE NotBack
  /\ UNCHANGED <<set, rts, radio, ghosts>>

\* Under the runtime's lock: a runtime that sweeps already, or no longer, is
\* left alone; from one that has no radio there is nothing to take.
NothingToTake ==
  LET r == loc["scanner"].rt
  IN /\ pc["scanner"] = "take"
     /\ \/ /\ rts[r].sweeping # scan.inSweep
           /\ scan' = [scan EXCEPT !.inSweep = ~@]
           /\ loc' = [loc EXCEPT !["scanner"] = NoLocals]
           /\ Goto("scanner", IF scan.ending THEN "last" ELSE "loop")
           /\ UNCHANGED rts
        \/ /\ rts[r].sweeping = scan.inSweep /\ handle # r
           /\ rts' = Halted(r)
           /\ IF scan.inSweep THEN NotBack ELSE NoSweep
     /\ UNCHANGED <<set, radio, ghosts>>

\* The radio is taken out of its runtime,
TakeRadio ==
  LET r == loc["scanner"].rt
  IN /\ pc["scanner"] = "take" /\ rts[r].sweeping = scan.inSweep /\ handle = r
     /\ Overtaking(rts[r].patching # "free")

\* to sweep: start_sweep gives a radio that refuses back.  The firmware takes
\* the tuner where it likes.
StartSweep ==
  LET old == loc["scanner"].rt
  IN /\ TakeRadio /\ ~scan.inSweep
     /\ \/ \E r \in Runtimes, d \in Centers :
             /\ Fresh(r)
             /\ rts' = [Halted(old) EXCEPT ![r] = Started(TRUE, hw["rate"])]
             /\ hw' = Merge(hw, d)
             /\ handle' = r
             /\ loc' = [loc EXCEPT !["scanner"] = [loc["scanner"] EXCEPT !.new = r]]
             /\ Goto("scanner", "swap")
             /\ UNCHANGED troubles
        \/ /\ Refuses(FALSE)
           /\ rts' = Halted(old)
           /\ handle' = InHand
           /\ Goto("scanner", "restore")
           /\ UNCHANGED <<hw, loc>>
     /\ UNCHANGED <<set, faults, scan, calls, lost>>

\* or to receive again.
StopSweep ==
  /\ TakeRadio /\ scan.inSweep
  /\ rts' = Halted(loc["scanner"].rt)
  /\ handle' = InHand
  /\ Goto("scanner", "restore")
  /\ UNCHANGED <<set, hw, faults, troubles, loc, scan, calls, lost>>

NotReapplied(s) == hw

\* The radio once restore_receiving has applied the settings.
Reapplied(s) == Merge(hw, s)

\* restore_receiving: the settings are read, applied and the stream started;
\* any error drops the radio.
Restore ==
  /\ pc["scanner"] = "restore"
  /\ \/ \E r \in Runtimes :
          /\ Present /\ Fresh(r)
          /\ hw' = Reapplied(set.settings)
          /\ rts' = [rts EXCEPT ![r] = Started(FALSE, set.settings["rate"])]
          /\ handle' = r
          /\ loc' = [loc EXCEPT !["scanner"] = [loc["scanner"] EXCEPT !.new = r]]
          /\ Goto("scanner", "swap")
          /\ UNCHANGED <<troubles, scan, lost>>
     \/ /\ Refuses(~Present)
        /\ handle' = Closed
        /\ lost' = (lost \/ Present)
        /\ IF scan.inSweep THEN NotBack ELSE NoSweep
        /\ UNCHANGED <<rts, hw>>
  /\ UNCHANGED <<set, faults, calls, overtaken>>

\* swap_runtime for the scanner.
SwapSweep ==
  LET new == loc["scanner"].new
  IN /\ pc["scanner"] = "swap" /\ loc["scanner"].ser = None
     /\ IF Present
        THEN /\ set' = [set EXCEPT !.rt = new]
             /\ rts' = Replaced("scanner")
             /\ IF ~scan.inSweep /\ ~rts[new].sweeping
                THEN NoSweep
                ELSE /\ scan' = [scan EXCEPT !.inSweep = rts[new].sweeping]
                     /\ loc' = [loc EXCEPT !["scanner"] = NoLocals]
                     /\ Goto("scanner", IF scan.ending THEN "last" ELSE "loop")
             /\ UNCHANGED handle
        ELSE /\ rts' = Halted(new)
             /\ handle' = Closed
             /\ IF scan.inSweep THEN NotBack ELSE NoSweep
             /\ UNCHANGED set
     /\ UNCHANGED <<hw, faults, troubles, ghosts>>

----------------------------------------------------------------------------
(* start_recording, start_network_export and arm_time_machine: the rate is *)
(* read, the writer is made outside the lock, and the keeper goes in only  *)
(* if the rate is still what its header says.                              *)

Begin(c, k, stream) ==
  /\ Called(c)
  /\ Running /\ ~Kept(k) /\ stream < set.lanes
  /\ loc' = [loc EXCEPT ![c] = [loc[c] EXCEPT !.keeper = k, !.stream = stream,
                                             !.rate = set.settings["rate"]]]
  /\ Goto(c, "commit")
  /\ UNCHANGED <<set, rts, radio, scan, history>>

CommitsDuringPatch(c) ==
  /\ Running /\ ~Kept(loc[c].keeper)
  /\ loc[c].stream < set.lanes
  /\ set.settings["rate"] = loc[c].rate

Commits(c) ==
  /\ Running /\ ~Kept(loc[c].keeper) /\ set.ratePatches = 0
  /\ loc[c].stream < set.lanes
  /\ set.settings["rate"] = loc[c].rate

\* Recordings and exports start over when only the rate moved or the stream
\* is gone; the time machine gives up.
Commit(c) ==
  /\ pc[c] = "commit"
  /\ set' = IF Commits(c)
            THEN [set EXCEPT !.holds = [set.holds EXCEPT ![loc[c].keeper] =
                                [rate |-> loc[c].rate, stream |-> loc[c].stream]]]
            ELSE set
  /\ LET k == loc[c].keeper
         again == /\ ~Commits(c) /\ set.ratePatches = 0 /\ k # "history"
                  /\ Running /\ ~Kept(k) /\ loc[c].stream < set.lanes
     IN IF again
        THEN /\ loc' = [loc EXCEPT ![c] = [loc[c] EXCEPT !.rate = set.settings["rate"]]]
             /\ UNCHANGED pc
        ELSE loc' = [loc EXCEPT ![c] = NoLocals] /\ Goto(c, "idle")
  /\ UNCHANGED <<rts, radio, scan, ghosts>>

\* stop_recording, stop_network_export, disarming the time machine.
Finish(c, k) ==
  /\ Called(c) /\ Present /\ Kept(k)
  /\ set' = [set EXCEPT !.holds = [set.holds EXCEPT ![k] = NoHold]]
  /\ UNCHANGED <<rts, radio, pc, loc, scan, history>>

----------------------------------------------------------------------------

Patching(t) ==
  \/ \E d \in Patches \cup Centers : Ask(t, d)
  \/ Admit(t) \/ Validate(t) \/ Apply(t) \/ WriteBack(t)
  \/ RestartLanes(t) \/ StartLanes(t) \/ SwapLanes(t)

Marking(t) == MarkLanes(t) \/ Joined(t) \/ Halt(t)

Caller(c) ==
  \/ StartScan(c) \/ ListScan(c) \/ StopScan(c) \/ Commit(c) \/ Remove(c)
  \/ \E k \in Keepers : Finish(c, k) \/ \E stream \in Streams : Begin(c, k, stream)

Scanner ==
  \/ EndScan \/ LastFollow \/ Enter \/ Hit \/ Leave \/ NothingToTake
  \/ StartSweep \/ StopSweep \/ Restore \/ SwapSweep

Next ==
  \/ \E t \in Clients \cup {"scanner"} : Patching(t)
  \/ \E t \in Threads \ {"hotplug"} : Marking(t)
  \/ \E c \in Clients : Caller(c)
  \/ Scanner
  \/ \E r \in Runtimes : Die(r)
  \/ Drain \/ Reconnect \/ Revive

Spec == Init /\ [][Next]_vars

----------------------------------------------------------------------------
(* Properties                                                              *)

Labels == {"idle", "off", "wait", "validate", "apply", "back", "restart", "relane", "swap",
           "mark", "joining", "halt", "list scan", "commit", "loop", "last", "leave", "take",
           "restore", "ended", "revive"}

SetStates ==
  [status: {"Running", "Error", "Absent"}, settings: Settings, lanes: Nat,
   rt: Runtimes \cup {None}, holds: [Keepers -> [rate: Nat, stream: Nat]],
   ratePatches: Nat, scanner: BOOLEAN]

RuntimeStates ==
  [live: BOOLEAN, sweeping: BOOLEAN, meta: SUBSET Nat, waiting: Deltas,
   batch: 0..MaxBatches, refused: SUBSET (0..MaxBatches), patching: Threads \cup {"free"}]

Locals ==
  [ser: Runtimes \cup {None}, rt: Runtimes \cup {None}, new: Runtimes \cup {None},
   delta: Deltas, batch: 0..MaxBatches, actual: Deltas, lanes: Nat, guard: BOOLEAN,
   joins: BOOLEAN, reverting: BOOLEAN, keeper: Keepers \cup {"none"}, rate: Nat, stream: Nat]

\* Every variable has its type, and the queue of a runtime never promises a
\* batch beyond the bound.
TypeOK ==
  /\ set \in SetStates
  /\ rts \in [Runtimes -> RuntimeStates]
  /\ handle \in Runtimes \cup {Closed, InHand}
  /\ hw \in Settings
  /\ faults \in 0..MaxTroubles /\ troubles \in 0..MaxTroubles
  /\ pc \in [Threads -> Labels]
  /\ loc \in [Threads -> Locals]
  /\ scan \in [hardware: BOOLEAN, inSweep: BOOLEAN, ending: BOOLEAN]
  /\ calls \in 0..MaxCalls /\ overtaken \in 0..MaxOvertakes /\ lost \in BOOLEAN

\* Nobody is in the middle of anything: the scanner may be scanning.
Settled ==
  /\ \A t \in Threads \ {"scanner"} : pc[t] = "idle"
  /\ pc["scanner"] \in {"off", "loop", "ended"}
  /\ faults = 0

\* The set's table entry and the lanes are about the radio as it is.
TableIsTrue ==
  Settled /\ Present /\ handle = set.rt /\ ~rts[set.rt].sweeping
    => set.settings = hw /\ rts[set.rt].meta = {hw["rate"]} /\ set.lanes = hw["lanes"]

\* Whatever patches, sweeps, lane restarts, faults and reconnects were under
\* way, once they are through the settings in the table, the rate the lanes
\* were told with set_meta and the number of lanes are those of the radio: no
\* answer of patch_device_quietly is written over a later one, and
\* restore_receiving and reconnect bring the radio to what the table says.
\* This is what the patching lock is for, and it holds as long as no runtime
\* is replaced while its lock is held.
TableTellsTheRadio == overtaken = 0 => TableIsTrue

\* The comment of DeviceRuntime::patching says that a patch "cannot be
\* overtaken by one built from the settings it is in the middle of replacing":
\* then the table would be true without the condition.  The lock belongs to
\* one runtime, and sweep::enter, sweep::leave and reconnect replace it.
PatchNotOvertaken == TableIsTrue

\* The set's count of rate changes in flight is the number of patches that hold
\* a RatePatchGuard, on every way out of patch_device_quietly (one too many and
\* no recording starts any more, one too few and one starts at a rate that is
\* about to change); and while a recording, an export or an armed time machine
\* is in the table, the radio runs at the rate its header was written with, and
\* the table says so: the guard, the second look of commit and the revert of a
\* patch that came too late close every gap between reading the rate and
\* committing to it.
RateStaysPinned ==
  Present =>
    /\ set.ratePatches = Cardinality({t \in Threads : loc[t].guard})
    /\ \A k \in Keepers :
         Kept(k) /\ overtaken = 0 =>
           /\ set.holds[k].rate = set.settings["rate"]
           /\ set.holds[k].rate = hw["rate"]

\* A test of the engine says that "a lane that is wired is not switched off"
\* (tests/lanes.rs): what a recording, an export or the time machine listens to
\* is a lane the radio has.  validate_lane_change looks before the radio is
\* programmed, and no guard keeps a keeper from coming in after that: rate_patches
\* counts only the patches that change the rate.
UsedLaneStays ==
  \A k \in Keepers : Present /\ Kept(k) => set.holds[k].stream < set.lanes

\* Once everything is through, the driver is either closed or owned by the
\* runtime in the table, so that stopping that runtime releases it; a set that
\* is shown as running has it, unless the driver refused to receive again
\* after a sweep (restore_receiving drops it then, and nothing marks the set);
\* and a radio that sweeps in firmware has a scanner thread that knows of it
\* and will bring the receive stream back: Scan::run leaves the sweep on every
\* way out, and a sweep that lost its set is not left in the table.
RadioHasAnOwner ==
  Settled => /\ handle \in {Closed, set.rt}
             /\ Running /\ ~lost => handle = set.rt
             /\ Present /\ handle = set.rt /\ rts[set.rt].sweeping
                  => pc["scanner"] = "loop" /\ scan.inSweep

\* The comment of DeviceRuntime::patching says that the lock is held "until the
\* answer is written back": then nobody who holds it would wait for the
\* scanner thread, which takes that lock to tune.
NoEmbrace ==
  \A t \in Threads \ {"scanner"} :
    pc[t] = "joining" /\ loc[t].ser # None
      => ~(pc["scanner"] = "wait" /\ loc["scanner"].ser = loc[t].ser)

=============================================================================
