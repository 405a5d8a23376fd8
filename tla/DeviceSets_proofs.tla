-------------------------- MODULE DeviceSets_proofs --------------------------
(***************************************************************************)
(* The safety properties of DeviceSets, for any number of radios, clients, *)
(* sets, runtimes and waiting faults.                                      *)
(***************************************************************************)
EXTENDS DeviceSets, FiniteSetTheorems, TLAPS

----------------------------------------------------------------------------
(* The inductive invariant.                                                *)

\* A client that will take a set id, and one that has taken it.
Reserving == {"open", "recheck", "reserve"}
Reserved == {"start", "insert"}

\* Where a thread holds a runtime: one that nobody else knows of, or one that
\* was in the table and is about to be stopped.
Building == {"recheck", "reserve", "start", "insert"}
Reviving == {"restart", "swap", "discard"}
Stopping == {"release", "retire", "retireDead"}

Private(t) == pc[t] \in Building \cup Reviving
Doomed(r) == \/ \E t \in Threads : pc[t] \in Stopping /\ loc[t] = r
             \/ \E t \in Threads : r \in todo[t]

Queued(s) == \E i \in 1..Len(faultq) : faultq[i] = s

\* There is an id for every client that will take one.
Reservations == {o \in Clients : pc[o] \in Reserving}
IdsCounted == nextId + Cardinality(Reservations) <= MaxSets + 1

\* Every id is handed out once; what is being created is not in the table.
IdsOK ==
  /\ \A s \in SetIds : s >= nextId => ~Live(s) /\ s \notin creating
  /\ \A s \in creating : ~Live(s)
  /\ \A c \in Clients : pc[c] \in Reserved => arg[c] \in creating
  /\ \A c, o \in Clients : pc[c] \in Reserved /\ pc[o] \in Reserved /\ arg[c] = arg[o] => c = o
  /\ pc["hotplug"] \in {"reopen", "restart", "swap"} =>
       LET s == arg["hotplug"]
       IN s \in SetIds /\ s < nextId /\ s \notin creating
          /\ (Live(s) => sets[s].dev = want["hotplug"])
  /\ pc["hotplug"] \in {"failed", "retire", "retireDead", "discard", "early", "release",
                        "announce"} => arg["hotplug"] \in SetIds

\* A set in the table has a runtime, and one that left it has nothing.
TableWhole ==
  /\ \A s \in SetIds : IF Live(s) THEN sets[s].rt \in Runtimes ELSE sets[s] = NoSet
  /\ \A s, o \in SetIds : Live(s) /\ Live(o) /\ sets[s].rt = sets[o].rt => s = o

\* Whose a runtime is.
Ownership ==
  /\ \A t \in Threads : pc[t] \in Building \cup Reviving \cup Stopping => loc[t] \in Runtimes
  /\ \A t \in Threads : pc[t] \notin Building \cup Reviving \cup Stopping => loc[t] = None
  /\ \A t \in Threads : todo[t] # {} => t \in Clients /\ pc[t] = "teardown"
  /\ \A t \in Threads : Private(t) =>
       /\ \A s \in SetIds : sets[s].rt # loc[t]
       /\ \A o \in Threads \ {t} : loc[o] # loc[t]
       /\ \A o \in Threads : loc[t] \notin todo[o]
  /\ \A s \in SetIds : Running(s) => ~Doomed(sets[s].rt)

\* A stream that runs knows its set.
StreamNamed(r) == rts[r].phase = "streaming" => rts[r].ds \in SetIds

\* What a client is building.
BuiltOK(c) ==
  pc[c] \in Building =>
    /\ rts[loc[c]].dev = want[c]
    /\ rts[loc[c]].phase \in IF pc[c] = "insert" THEN {"streaming", "dead"} ELSE {"open"}
    /\ pc[c] = "insert" => rts[loc[c]].ds = arg[c] /\ rts[loc[c]].gate = "direct"

\* What a reconnect has opened and is about to swap in.
NewOK ==
  pc["hotplug"] \in {"restart", "swap"} =>
    LET new == rts[loc["hotplug"]]
    IN /\ new.dev = want["hotplug"]
       /\ IF pc["hotplug"] = "restart" THEN new.phase = "open"
          ELSE \/ new.phase = "streaming" /\ new.gate = "pending"
               \/ new.phase = "dead" /\ new.gate = "caught"

\* What a set of the table has.
ShownOK(s) ==
  Live(s) /\ rts[sets[s].rt].phase # "stopped" =>
    LET r == rts[sets[s].rt]
    IN r.phase \in {"streaming", "dead"} /\ r.ds = s /\ r.gate \in {"direct", "armed"}

RuntimesOK == /\ \A r \in Runtimes : StreamNamed(r)
              /\ \A c \in Clients : BuiltOK(c)
              /\ NewOK
              /\ \A s \in SetIds : ShownOK(s)

\* A client that has checked again that nobody has its radio.
Sure == {"reserve", "start", "insert"}

\* One handle on a radio that can be opened once.
OneHandle ==
  \A r, o \in Runtimes :
    rts[r].phase # "stopped" /\ rts[o].phase # "stopped" /\ rts[r].dev = rts[o].dev
      /\ rts[r].dev \in Exclusive => r = o

\* ... and one set.
Exclusion ==
  /\ OneHandle
  /\ \A c \in Clients : pc[c] \in Sure /\ want[c] \in Exclusive => ~Taken(want[c])
  /\ OneSetPerRadio

\* Where the fault of a dead stream is.
FaultsKnown ==
  /\ \A c \in Clients : pc[c] = "insert" /\ rts[loc[c]].phase = "dead" =>
       Queued(arg[c]) \/ arg[c] \in pending
  /\ DeadStreamIsKnown

\* Who will tell of a change: a client tells of everything, the drainer and
\* the prober of the set they work on, which is in the table as long as no
\* client took it out and will tell.
Telling == {"release", "retire", "retireDead", "early", "announce"}
ClientTells == \E c \in Clients : pc[c] \in {"announce", "teardown"}
WorkerTells(s) == Live(s) /\ \E t \in {"drainer", "hotplug"} : arg[t] = s /\ pc[t] \in Telling
Announced == \A s \in dirty : ClientTells \/ WorkerTells(s)

IInv == /\ TypeOK /\ IdsCounted /\ IdsOK /\ TableWhole /\ Ownership /\ RuntimesOK
        /\ NoRadioLeftOpen /\ Exclusion /\ FaultsKnown /\ Announced

----------------------------------------------------------------------------
(* Types.                                                                  *)

LEMMA ThreadNames == /\ "drainer" \in Threads /\ "hotplug" \in Threads /\ Clients \subseteq Threads
                     /\ \A c \in Clients : c # "drainer" /\ c # "hotplug"
  BY SetsAssumption DEF Threads

\* What the records of the table are made of.
LEMMA SetMade ==
  ASSUME NEW d \in Devices \cup {NoDevice}, NEW st \in {"Absent", "Running", "Error"},
         NEW e \in {"none", "fault", "reopen"}, NEW f \in BOOLEAN, NEW r \in Runtimes \cup {None}
  PROVE  [dev |-> d, status |-> st, error |-> e, fault |-> f, rt |-> r] \in SetRecords
  BY Zenon DEF SetRecords

LEMMA SetParts ==
  ASSUME NEW x \in SetRecords
  PROVE  /\ x.dev \in Devices \cup {NoDevice} /\ x.rt \in Runtimes \cup {None}
         /\ x.fault \in BOOLEAN /\ x.status \in {"Absent", "Running", "Error"}
  BY Zenon DEF SetRecords

\* The steps of the specification, one by one.
LEMMA NextCases ==
  ASSUME [Next]_vars
  PROVE  \/ UNCHANGED vars \/ Bus \/ \E r \in Runtimes : Die(r)
         \/ \E c \in Clients : \/ \E d \in Devices : Create(c, d)
                               \/ OpenRadio(c) \/ Recheck(c) \/ Reserve(c) \/ Start(c) \/ Insert(c)
                               \/ \E ids \in SUBSET SetIds : TakeOut(c, ids)
                               \/ Teardown(c)
         \/ \E t \in Clients \cup {"hotplug"} : Announce(t)
         \/ \E t \in {"drainer", "hotplug"} : Release(t)
         \/ Drain \/ ShouldProbe \/ Probe \/ Decide
         \/ \E s \in SetIds : MarkAbsent(s) \/ Reconnect(s)
         \/ Reopen \/ Restart \/ NoteReconnectFailure \/ Swap \/ Retire \/ EarlyFault \/ ProbeDone
<1>1. CASE Bus \/ UNCHANGED vars \/ \E r \in Runtimes : Die(r)
  BY <1>1
<1>2. ASSUME NEW c \in Clients, Request(c)
      PROVE  (\E d \in Devices : Create(c, d)) \/ \E ids \in SUBSET SetIds : TakeOut(c, ids)
  BY <1>2 DEF Request, Remove, Shutdown
<1>3. ASSUME NEW c \in Clients, ClientStep(c)
      PROVE  \/ OpenRadio(c) \/ Recheck(c) \/ Reserve(c) \/ Start(c) \/ Insert(c)
             \/ Teardown(c) \/ Announce(c)
  BY <1>3 DEF ClientStep
<1>4. CASE Drainer \/ Hotplug
  BY <1>4 DEF Drainer, Hotplug
<1>5. QED
  BY <1>1, <1>2, <1>3, <1>4 DEF Next

LEMMA ReservationsFinite ==
  IsFiniteSet(Reservations) /\ Cardinality(Reservations) \in Nat
<1>1. Reservations \subseteq Clients
  BY DEF Reservations
<1>2. QED
  BY <1>1, FS_Subset, FS_CardinalityType, SetsAssumption

\* A client that reserves an id finds one below the bound.
LEMMA IdsLeft ==
  ASSUME IInv, NEW c \in Clients, pc[c] \in Reserving
  PROVE  nextId \in SetIds
<1>1. Reservations # {}
  BY DEF Reservations
<1>2. Cardinality(Reservations) \in Nat \ {0}
  BY <1>1, FS_EmptySet, ReservationsFinite
<1>3. nextId + Cardinality(Reservations) <= MaxSets + 1 /\ nextId \in 1..(MaxSets + 1)
  BY DEF IInv, IdsCounted, TypeOK, TableOK
<1>4. QED
  BY <1>2, <1>3, SetsAssumption DEF SetIds

\* What mark_device_fault does to the thread that calls it.
LEMMA MarkTyped ==
  ASSUME IInv, NEW t \in {"drainer", "hotplug"}, NEW s \in SetIds, NEW back,
         MarkDeviceFault(t, s, back)
  PROVE  /\ loc' \in [Threads -> Runtimes \cup {None}]
         /\ arg' \in [Threads -> SetIds \cup {None}]
         /\ \E label \in {"release", back} : pc' = [pc EXCEPT ![t] = label]
<1>1. CASE Live(s)
  BY <1>1, SetParts DEF MarkDeviceFault, Goto, IInv, TypeOK, TableOK, ThreadsOK
<1>2. CASE ~Live(s)
  BY <1>2 DEF MarkDeviceFault, Goto, IInv, TypeOK, ThreadsOK
<1>3. QED
  BY <1>1, <1>2

\* The threads and the prober keep their types.
LEMMA ThreadsTyped == ASSUME IInv, [Next]_vars PROVE ThreadsOK'
<1> USE SetsAssumption, ThreadNames DEF None
<1> USE DEF IInv, TypeOK, ThreadsOK
<1>1. CASE UNCHANGED vars
  BY <1>1 DEF vars, locals, prober
<1>2. CASE Bus
  BY <1>2 DEF Bus, Plug, Unplug, locals, prober
<1>3. ASSUME NEW r \in Runtimes, Die(r) PROVE ThreadsOK'
  BY <1>3 DEF Die, locals, prober
<1>4. ASSUME NEW c \in Clients, NEW d \in Devices, Create(c, d) PROVE ThreadsOK'
  BY <1>4 DEF Create, prober, Goto, ClientSteps, HotplugSteps
<1>5. ASSUME NEW c \in Clients, OpenRadio(c) PROVE ThreadsOK'
  BY <1>5 DEF OpenRadio, prober, Goto, Return, ClientSteps, HotplugSteps, Fresh
<1>6. ASSUME NEW c \in Clients, Recheck(c) PROVE ThreadsOK'
  BY <1>6 DEF Recheck, prober, Goto, Return, ClientSteps, HotplugSteps
<1>7. ASSUME NEW c \in Clients, Reserve(c) PROVE ThreadsOK'
  BY <1>7, IdsLeft DEF Reserve, prober, Goto, ClientSteps, HotplugSteps, Reserving
<1>8. ASSUME NEW c \in Clients, Start(c) PROVE ThreadsOK'
  BY <1>8 DEF Start, prober, Goto, Return, ClientSteps, HotplugSteps
<1>9. ASSUME NEW c \in Clients, Insert(c) PROVE ThreadsOK'
  BY <1>9 DEF Insert, prober, Goto, ClientSteps, HotplugSteps
<1>10. ASSUME NEW t \in Clients \cup {"hotplug"}, Announce(t) PROVE ThreadsOK'
  BY <1>10 DEF Announce, prober, Goto, Return, ClientSteps, HotplugSteps, Threads
<1>11. ASSUME NEW c \in Clients, NEW ids \in SUBSET SetIds, TakeOut(c, ids) PROVE ThreadsOK'
  BY <1>11 DEF TakeOut, prober, Goto, ClientSteps, HotplugSteps, RuntimesOf, TableWhole
<1>12. ASSUME NEW c \in Clients, Teardown(c) PROVE ThreadsOK'
  BY <1>12 DEF Teardown, prober, Goto, ClientSteps, HotplugSteps
<1>13. ASSUME NEW t \in {"drainer", "hotplug"}, Release(t) PROVE ThreadsOK'
  BY <1>13 DEF Release, prober, Goto, Return, ClientSteps, HotplugSteps, DrainerSteps
<1>14. CASE Drain
  <2>1. Head(faultq) \in SetIds
    BY <1>14 DEF Drain, WorldOK
  <2>2. QED
    BY <1>14, <2>1, MarkTyped DEF Drain, prober, ClientSteps, HotplugSteps, DrainerSteps
<1>15. CASE ShouldProbe
  BY <1>15 DEF ShouldProbe, prober, Goto, ClientSteps, HotplugSteps
<1>16. CASE Probe
  BY <1>16 DEF Probe, Goto, ClientSteps, HotplugSteps, WorldOK
<1>17. CASE Decide
  BY <1>17 DEF Decide, Goto, ClientSteps, HotplugSteps, Absent, MissingOnce
<1>18. ASSUME NEW s \in SetIds, MarkAbsent(s) PROVE ThreadsOK'
  BY <1>18, MarkTyped DEF MarkAbsent, ClientSteps, HotplugSteps
<1>19. ASSUME NEW s \in SetIds, Reconnect(s) PROVE ThreadsOK'
  BY <1>19, SetParts DEF Reconnect, Goto, ClientSteps, HotplugSteps, TableOK
<1>20. CASE Reopen
  BY <1>20 DEF Reopen, prober, Goto, ClientSteps, HotplugSteps
<1>21. CASE Restart
  BY <1>21 DEF Restart, prober, Goto, ClientSteps, HotplugSteps
<1>22. CASE NoteReconnectFailure
  BY <1>22 DEF NoteReconnectFailure, prober, Goto, ClientSteps, HotplugSteps
<1>23. CASE Swap
  BY <1>23, SetParts DEF Swap, prober, Goto, ClientSteps, HotplugSteps, TableOK, IdsOK
<1>24. CASE Retire
  BY <1>24 DEF Retire, prober, Goto, ClientSteps, HotplugSteps
<1>25. CASE EarlyFault
  BY <1>25, MarkTyped DEF EarlyFault, prober, ClientSteps, HotplugSteps, IdsOK
<1>26. CASE ProbeDone
  BY <1>26 DEF ProbeDone, Goto, Return, ClientSteps, HotplugSteps
<1>27. QED
  BY <1>1, <1>2, <1>3, <1>4, <1>5, <1>6, <1>7, <1>8, <1>9, <1>10, <1>11, <1>12, <1>13, <1>14,
     <1>15, <1>16, <1>17, <1>18, <1>19, <1>20, <1>21, <1>22, <1>23, <1>24, <1>25, <1>26, NextCases

\* The table keeps its type.
LEMMA TableTyped == ASSUME IInv, [Next]_vars PROVE TableOK'
<1> USE SetsAssumption, ThreadNames DEF None, TableOK, IInv, TypeOK, ThreadsOK
<1>1. CASE \/ UNCHANGED vars \/ Bus \/ \E r \in Runtimes : Die(r)
           \/ \E c \in Clients : \/ \E d \in Devices : Create(c, d)
                                 \/ OpenRadio(c) \/ Recheck(c)
           \/ ShouldProbe \/ Probe \/ Reopen \/ Restart \/ Retire \/ ProbeDone
           \/ \E s \in SetIds : Reconnect(s)
  BY <1>1 DEF vars, table, Bus, Plug, Unplug, Die, Create, OpenRadio, Recheck, ShouldProbe, Probe,
              Reopen, Restart, Retire, ProbeDone, Reconnect
<1>2. ASSUME NEW c \in Clients, Reserve(c) PROVE TableOK'
  BY <1>2, IdsLeft DEF Reserve, Reserving, SetIds
<1>3. ASSUME NEW c \in Clients, Start(c) PROVE TableOK'
  BY <1>3 DEF Start
<1>4. ASSUME NEW c \in Clients, Insert(c) PROVE TableOK'
  BY <1>4 DEF Insert, IdsOK, Reserved, SetRecords
<1>5. CASE \/ \E t \in Clients \cup {"hotplug"} : Announce(t)
           \/ \E t \in {"drainer", "hotplug"} : Release(t)
           \/ \E c \in Clients : Teardown(c)
  BY <1>5 DEF Announce, Release, Teardown, Told, table
<1>6. ASSUME NEW c \in Clients, NEW ids \in SUBSET SetIds, TakeOut(c, ids) PROVE TableOK'
  BY <1>6, SetMade DEF TakeOut, NoSet
<1>7. ASSUME NEW t \in {"drainer", "hotplug"}, NEW s \in SetIds, NEW back,
             MarkDeviceFault(t, s, back), UNCHANGED <<creating, nextId, misses>>
      PROVE  TableOK'
  <2>1. CASE Live(s)
    <3>1. /\ sets[s].dev \in Devices \cup {NoDevice} /\ sets[s].rt \in Runtimes \cup {None}
      BY SetParts
    <3> DEFINE e == [dev |-> sets[s].dev, status |-> "Error", error |-> "fault", fault |-> TRUE,
                     rt |-> sets[s].rt]
    <3>2. e \in SetRecords
      BY <3>1, SetMade, Zenon
    <3>3. sets' = [sets EXCEPT ![s] = e] /\ dirty' = dirty \cup {s} /\ pending' = pending
      BY <1>7, <2>1, Zenon DEF MarkDeviceFault
    <3> HIDE DEF e
    <3>4. sets \in [SetIds -> SetRecords] /\ dirty \subseteq SetIds
      OBVIOUS
    <3>5. sets' \in [SetIds -> SetRecords] /\ dirty' \subseteq SetIds
      BY <3>2, <3>3, <3>4
    <3>6. QED
      BY <1>7, <3>3, <3>5
  <2>2. CASE ~Live(s)
    BY <1>7, <2>2 DEF MarkDeviceFault, Kept
  <2>3. QED
    BY <2>1, <2>2
<1>8. CASE Drain
  <2>1. Head(faultq) \in SetIds
    BY <1>8 DEF Drain, WorldOK
  <2>2. QED
    BY <1>7, <1>8, <2>1 DEF Drain
<1>9. ASSUME NEW s \in SetIds, MarkAbsent(s) PROVE TableOK'
  BY <1>7, <1>9 DEF MarkAbsent
<1>10. CASE EarlyFault
  BY <1>7, <1>10 DEF EarlyFault, IdsOK
<1>11. CASE Decide
  BY <1>11 DEF Decide, table
<1>12. CASE NoteReconnectFailure
  <2> DEFINE s == arg["hotplug"]
  <2>1. s \in SetIds
    BY <1>12 DEF NoteReconnectFailure, IdsOK
  <2>2. /\ sets[s].dev \in Devices \cup {NoDevice} /\ sets[s].rt \in Runtimes \cup {None}
        /\ sets[s].fault \in BOOLEAN
    BY <2>1, SetParts, Zenon
  <2>3. [dev |-> sets[s].dev, status |-> "Error", error |-> "reopen", fault |-> sets[s].fault,
         rt |-> sets[s].rt] \in SetRecords
    BY <2>2, SetMade, Zenon
  <2>4. QED
    BY <1>12, <2>1, <2>3 DEF NoteReconnectFailure
<1>13. CASE Swap
  <2> DEFINE s == arg["hotplug"]
             new == loc["hotplug"]
  <2>1. s \in SetIds /\ new \in Runtimes \cup {None} /\ want["hotplug"] \in Devices \cup {NoDevice}
    BY <1>13 DEF Swap, IdsOK
  <2>2. sets[s].fault \in BOOLEAN
    BY <2>1, SetParts, Zenon
  <2>3. [dev |-> want["hotplug"], status |-> "Running", error |-> "none",
         fault |-> sets[s].fault, rt |-> new] \in SetRecords
    BY <2>1, <2>2, SetMade, Zenon
  <2>4. QED
    BY <1>13, <2>1, <2>3 DEF Swap
<1>14. QED
  BY <1>1, <1>2, <1>3, <1>4, <1>5, <1>6, <1>8, <1>9, <1>10, <1>11, <1>12, <1>13, NextCases

\* The runtimes, the queue of faults and the bus keep their types.
LEMMA WorldTyped == ASSUME IInv, [Next]_vars PROVE WorldOK'
<1> USE SetsAssumption, ThreadNames DEF None, WorldOK, IInv, TypeOK, ThreadsOK
<1>1. CASE \/ UNCHANGED vars
           \/ \E c \in Clients : \/ \E d \in Devices : Create(c, d)
                                 \/ Reserve(c) \/ Insert(c)
                                 \/ \E ids \in SUBSET SetIds : TakeOut(c, ids)
           \/ \E t \in Clients \cup {"hotplug"} : Announce(t)
           \/ Probe \/ Decide \/ NoteReconnectFailure \/ EarlyFault \/ ProbeDone
           \/ \E s \in SetIds : MarkAbsent(s) \/ Reconnect(s)
  BY <1>1 DEF vars, world, Create, Reserve, Insert, TakeOut, Announce, Probe, Decide,
              NoteReconnectFailure, EarlyFault, ProbeDone, MarkAbsent, Reconnect
<1>2. CASE Bus
  BY <1>2 DEF Bus, Plug, Unplug
<1>3. ASSUME NEW r \in Runtimes, Die(r) PROVE WorldOK'
  BY <1>3 DEF RuntimeRecords, Die, RuntimesOK, StreamNamed
<1>4. ASSUME NEW r \in Runtimes \cup {None}, Stop(r), UNCHANGED <<faultq, attached, changed>>
      PROVE  WorldOK'
  BY <1>4 DEF RuntimeRecords, Stop, Stopped
<1>5. ASSUME NEW c \in Clients, OpenRadio(c) PROVE WorldOK'
  BY <1>5, SMTT(30) DEF RuntimeRecords, OpenRadio
<1>6. ASSUME NEW c \in Clients, Recheck(c) PROVE WorldOK'
  BY <1>4, <1>6 DEF Recheck
<1>7. ASSUME NEW c \in Clients, Start(c) PROVE WorldOK'
  BY <1>4, <1>7 DEF RuntimeRecords, Start
<1>8. ASSUME NEW c \in Clients, Teardown(c) PROVE WorldOK'
  BY <1>4, <1>8 DEF Teardown
<1>9. ASSUME NEW t \in {"drainer", "hotplug"}, Release(t) PROVE WorldOK'
  BY <1>4, <1>9 DEF Release
<1>10. CASE Drain
  BY <1>10 DEF Drain
<1>11. CASE ShouldProbe
  BY <1>11 DEF ShouldProbe
<1>12. CASE Reopen
  BY <1>12 DEF RuntimeRecords, Reopen
<1>13. CASE Restart
  BY <1>4, <1>13 DEF RuntimeRecords, Restart
<1>14. CASE Swap
  BY <1>14 DEF RuntimeRecords, Swap, Ownership, Reviving, IdsOK
<1>15. CASE Retire
  BY <1>4, <1>15 DEF Retire
<1>16. QED
  BY <1>1, <1>2, <1>3, <1>5, <1>6, <1>7, <1>8, <1>9, <1>10, <1>11, <1>12, <1>13, <1>14, <1>15,
     NextCases

----------------------------------------------------------------------------
(* Ids.                                                                    *)

\* Ids are reserved one at a time, by clients that were counted.
LEMMA IdsStayCounted == ASSUME IInv, [Next]_vars PROVE IdsCounted'
<1> USE SetsAssumption, ThreadNames, ReservationsFinite
<1>0. /\ nextId \in Nat /\ MaxSets \in Nat /\ IdsCounted /\ pc \in [Threads -> ClientSteps \cup HotplugSteps]
  BY DEF IInv, TypeOK, TableOK, ThreadsOK
<1>a. ASSUME NEW c \in Clients, NEW label \in ClientSteps, pc' = [pc EXCEPT ![c] = label]
      PROVE  Reservations' = IF label \in Reserving THEN Reservations \cup {c} ELSE Reservations \ {c}
  BY <1>0, <1>a DEF Reservations
<1>b. ASSUME NEW t \in {"drainer", "hotplug"}, NEW label, pc' = [pc EXCEPT ![t] = label], nextId' = nextId
      PROVE  IdsCounted'
  <2>1. Reservations' = Reservations
    BY <1>0, <1>b DEF Reservations
  <2>2. QED
    BY <1>0, <1>b, <2>1 DEF IdsCounted
<1>c. ASSUME NEW c \in Clients, NEW label \in ClientSteps, pc' = [pc EXCEPT ![c] = label],
             nextId' = nextId, label \in Reserving => pc[c] \in Reserving
      PROVE  IdsCounted'
  <2>1. Reservations' = Reservations \/ Reservations' = Reservations \ {c}
    BY <1>a, <1>c DEF Reservations
  <2>2. Reservations' \subseteq Reservations
    BY <2>1
  <2>3. /\ Cardinality(Reservations') \in Nat
        /\ Cardinality(Reservations') <= Cardinality(Reservations)
    BY <2>2, FS_Subset, FS_CardinalityType
  <2>4. QED
    BY <1>0, <1>c, <2>3 DEF IdsCounted
<1>d. ASSUME UNCHANGED <<pc, nextId>> PROVE IdsCounted'
  BY <1>0, <1>d DEF IdsCounted, Reservations
<1>1. CASE UNCHANGED vars \/ Bus \/ \E r \in Runtimes : Die(r)
  BY <1>1, <1>d DEF vars, table, locals, Bus, Plug, Unplug, Die
<1>2. ASSUME NEW c \in Clients, NEW d \in Devices, Create(c, d) PROVE IdsCounted'
  <2>1. c \notin Reservations /\ nextId + Cardinality(Reservations) <= MaxSets /\ nextId' = nextId
    BY <1>2 DEF Create, Reservations, Reserving, table
  <2>2. Reservations' = Reservations \cup {c}
    BY <1>2, <1>a DEF Create, Goto, Reserving, ClientSteps
  <2>3. Cardinality(Reservations') = Cardinality(Reservations) + 1
    BY <2>1, <2>2, FS_AddElement
  <2>4. QED
    BY <1>0, <2>1, <2>3 DEF IdsCounted
<1>3. ASSUME NEW c \in Clients, Reserve(c) PROVE IdsCounted'
  <2>1. c \in Reservations /\ nextId' = nextId + 1
    BY <1>3 DEF Reserve, Reservations, Reserving
  <2>2. Reservations' = Reservations \ {c}
    BY <1>3, <1>a DEF Reserve, Goto, Reserving, ClientSteps
  <2>3. Cardinality(Reservations') = Cardinality(Reservations) - 1
    BY <2>1, <2>2, FS_RemoveElement
  <2>4. QED
    BY <1>0, <2>1, <2>3 DEF IdsCounted
<1>4. ASSUME NEW c \in Clients,
             OpenRadio(c) \/ Recheck(c) \/ Start(c) \/ Insert(c) \/ Announce(c)
               \/ \E ids \in SUBSET SetIds : TakeOut(c, ids)
      PROVE  IdsCounted'
  BY <1>4, <1>c DEF OpenRadio, Recheck, Start, Insert, Announce, TakeOut, Goto, Return, table,
                    ClientSteps, Reserving
<1>5. ASSUME NEW c \in Clients, Teardown(c) PROVE IdsCounted'
  BY <1>5, <1>c, <1>d DEF Teardown, Goto, table, ClientSteps, Reserving
<1>6. ASSUME NEW t \in {"drainer", "hotplug"}, Release(t) PROVE IdsCounted'
  BY <1>6, <1>b DEF Release, Goto, Return, table
<1>7. CASE Drain \/ EarlyFault \/ \E s \in SetIds : MarkAbsent(s)
  BY <1>7, <1>b DEF Drain, EarlyFault, MarkAbsent, MarkDeviceFault, Goto
<1>8. CASE \/ Announce("hotplug") \/ ShouldProbe \/ Probe \/ Decide \/ Reopen \/ Restart
           \/ NoteReconnectFailure \/ Retire \/ ProbeDone
  BY <1>8, <1>b DEF Announce, ShouldProbe, Probe, Decide, Reopen, Restart, NoteReconnectFailure,
                    Retire, ProbeDone, Goto, Return, table
<1>9. CASE Swap
  BY <1>9, <1>b DEF Swap, Goto
<1>10. ASSUME NEW s \in SetIds, Reconnect(s) PROVE IdsCounted'
  BY <1>10, <1>b, <1>d DEF Reconnect, Goto, table
<1>11. QED
  BY <1>1, <1>2, <1>3, <1>4, <1>5, <1>6, <1>7, <1>8, <1>9, <1>10, NextCases

\* Ids stay unique: an id is reserved when it has never been used, and a set
\* that a reconnect works on was in the table before.
LEMMA IdsStayUnique == ASSUME IInv, [Next]_vars PROVE IdsOK'
<1> USE SetsAssumption, ThreadNames DEF None, IdsOK
<1>0. TypeOK /\ IdsOK /\ TableWhole
  BY DEF IInv
<1> USE DEF TypeOK, TableOK, ThreadsOK
<1>1. CASE UNCHANGED vars \/ Bus \/ \E r \in Runtimes : Die(r)
  BY <1>0, <1>1 DEF vars, table, locals, Bus, Plug, Unplug, Die, Live
<1>2. ASSUME NEW c \in Clients, NEW d \in Devices, Create(c, d) PROVE IdsOK'
  BY <1>0, <1>2 DEF Create, Goto, table, Live, Reserved
<1>3. ASSUME NEW c \in Clients, OpenRadio(c) \/ Recheck(c) PROVE IdsOK'
  BY <1>0, <1>3 DEF OpenRadio, Recheck, Goto, Return, table, Live, Reserved
<1>4. ASSUME NEW c \in Clients, Reserve(c) PROVE IdsOK'
  <2>1. nextId \in SetIds
    BY <1>4, IdsLeft DEF Reserve, Reserving
  <2>2. QED
    BY <1>0, <1>4, <2>1 DEF Reserve, Goto, Live, Reserved, SetIds
<1>5. ASSUME NEW c \in Clients, Start(c) PROVE IdsOK'
  BY <1>0, <1>5 DEF Start, Goto, Return, Live, Reserved
<1>6. ASSUME NEW c \in Clients, Insert(c) PROVE IdsOK'
  BY <1>0, <1>6 DEF Insert, Goto, Live, Reserved
<1>7. ASSUME NEW t \in Clients \cup {"hotplug"}, Announce(t) PROVE IdsOK'
  BY <1>0, <1>7 DEF Announce, Goto, Return, table, Live, Reserved
<1>8. ASSUME NEW c \in Clients, NEW ids \in SUBSET SetIds, TakeOut(c, ids) PROVE IdsOK'
  BY <1>0, <1>8 DEF TakeOut, Goto, Live, Reserved, NoSet
<1>9. ASSUME NEW c \in Clients, Teardown(c) PROVE IdsOK'
  BY <1>0, <1>9 DEF Teardown, Goto, table, Live, Reserved
<1>10. ASSUME NEW t \in {"drainer", "hotplug"}, Release(t) PROVE IdsOK'
  BY <1>0, <1>10 DEF Release, Goto, Return, table, Live, Reserved
<1>11. CASE Drain
  <2> DEFINE s == Head(faultq)
  <2>1. s \in SetIds /\ MarkDeviceFault("drainer", s, "idle") /\ UNCHANGED <<creating, nextId, want>>
    BY <1>0, <1>11 DEF Drain, WorldOK
  <2> HIDE DEF s
  <2>2. QED
    BY <1>0, <2>1 DEF MarkDeviceFault, Goto, Live, Reserved
<1>12. ASSUME NEW s \in SetIds, MarkAbsent(s) PROVE IdsOK'
  BY <1>0, <1>12 DEF MarkAbsent, MarkDeviceFault, Goto, Live, Reserved
<1>13. CASE EarlyFault
  BY <1>0, <1>13 DEF EarlyFault, MarkDeviceFault, Goto, Live, Reserved
<1>14. CASE ShouldProbe \/ Probe \/ Decide
  BY <1>0, <1>14 DEF ShouldProbe, Probe, Decide, Goto, table, Live, Reserved
<1>15. CASE ProbeDone
  BY <1>0, <1>15 DEF ProbeDone, Return, table, Live, Reserved
<1>16. ASSUME NEW s \in SetIds, Reconnect(s) PROVE IdsOK'
  BY <1>0, <1>16 DEF Reconnect, Goto, table, Live, Failed, Reserved, SetIds
<1>17. CASE Reopen \/ Restart
  BY <1>0, <1>17 DEF Reopen, Restart, Goto, table, Live, Reserved
<1>18. CASE NoteReconnectFailure
  BY <1>0, <1>18 DEF NoteReconnectFailure, Goto, Live, Failed, Reserved
<1>19. CASE Swap
  BY <1>0, <1>19 DEF Swap, Swaps, Goto, Live, Failed, Reserved
<1>20. CASE Retire
  BY <1>0, <1>20 DEF Retire, Goto, table, Live, Reserved
<1>21. QED
  BY <1>1, <1>2, <1>3, <1>4, <1>5, <1>6, <1>7, <1>8, <1>9, <1>10, <1>11, <1>12, <1>13, <1>14,
     <1>15, <1>16, <1>17, <1>18, <1>19, <1>20, NextCases

----------------------------------------------------------------------------
(* The table.                                                              *)

\* A set in the table has a runtime of its own.
LEMMA TableStaysWhole == ASSUME IInv, [Next]_vars PROVE TableWhole'
<1> USE SetsAssumption, ThreadNames DEF None, TableWhole
<1>0. TypeOK /\ IdsOK /\ TableWhole /\ Ownership
  BY DEF IInv
<1> USE DEF TypeOK, TableOK, ThreadsOK
<1>1. ASSUME UNCHANGED sets PROVE TableWhole'
  BY <1>0, <1>1 DEF Live
<1>2. ASSUME NEW s \in SetIds, NEW t, NEW back, MarkDeviceFault(t, s, back) PROVE TableWhole'
  BY <1>0, <1>1, <1>2 DEF MarkDeviceFault, Live
<1>3. ASSUME NEW c \in Clients, Insert(c) PROVE TableWhole'
  BY <1>0, <1>3 DEF Insert, Live, IdsOK, Reserved, Ownership, Private, Building
<1>4. ASSUME NEW c \in Clients, NEW ids \in SUBSET SetIds, TakeOut(c, ids) PROVE TableWhole'
  BY <1>0, <1>4 DEF TakeOut, Live, NoSet
<1>5. CASE NoteReconnectFailure
  BY <1>0, <1>1, <1>5 DEF NoteReconnectFailure, Live, Failed, IdsOK
<1>6. CASE Swap
  BY <1>0, <1>1, <1>6 DEF Swap, Swaps, Live, Failed, IdsOK, Ownership, Private, Reviving
<1>7. CASE Drain
  BY <1>0, <1>2, <1>7 DEF Drain, WorldOK
<1>8. CASE EarlyFault \/ \E s \in SetIds : MarkAbsent(s)
  BY <1>0, <1>2, <1>8 DEF EarlyFault, MarkAbsent, IdsOK
<1>9. CASE \/ UNCHANGED vars \/ Bus \/ \E r \in Runtimes : Die(r)
           \/ \E c \in Clients : \/ \E d \in Devices : Create(c, d)
                                 \/ OpenRadio(c) \/ Recheck(c) \/ Reserve(c) \/ Start(c) \/ Teardown(c)
           \/ \E t \in Clients \cup {"hotplug"} : Announce(t)
           \/ \E t \in {"drainer", "hotplug"} : Release(t)
           \/ ShouldProbe \/ Probe \/ Decide \/ \E s \in SetIds : Reconnect(s)
           \/ Reopen \/ Restart \/ Retire \/ ProbeDone
  BY <1>1, <1>9 DEF vars, table, Bus, Plug, Unplug, Die, Create, OpenRadio, Recheck, Reserve, Start,
                    Teardown, Announce, Release, ShouldProbe, Probe, Decide, Reconnect, Reopen,
                    Restart, Retire, ProbeDone
<1>10. QED
  BY <1>3, <1>4, <1>5, <1>6, <1>7, <1>8, <1>9, NextCases

\* A runtime in the hands of one thread stays there: what a thread opens was
\* known to nobody, what it inserts or swaps in leaves its hands, and what it
\* takes out of the table is stopped by it.
LEMMA OwnershipStays == ASSUME IInv, [Next]_vars PROVE Ownership'
<1> USE SetsAssumption, ThreadNames DEF None, Runtimes, Ownership, Private, Doomed, Building, Reviving, Stopping
<1>0. TypeOK /\ IdsOK /\ TableWhole /\ Ownership
  BY DEF IInv
<1> USE DEF TypeOK, TableOK, ThreadsOK
<1>1. CASE UNCHANGED vars \/ Bus \/ \E r \in Runtimes : Die(r)
  BY <1>0, <1>1 DEF vars, table, locals, Bus, Plug, Unplug, Die, Running
<1>2. ASSUME NEW c \in Clients, NEW d \in Devices, Create(c, d) PROVE Ownership'
  BY <1>0, <1>2 DEF Create, Goto, table, Running
<1>3. ASSUME NEW c \in Clients, OpenRadio(c) PROVE Ownership'
  BY <1>0, <1>3 DEF OpenRadio, Goto, Return, table, Running, Fresh, Unused, Referenced
<1>4. ASSUME NEW c \in Clients, Recheck(c) \/ Reserve(c) \/ Start(c) PROVE Ownership'
  BY <1>0, <1>4 DEF Recheck, Reserve, Start, Goto, Return, table, Running
<1>5. ASSUME NEW c \in Clients, Insert(c) PROVE Ownership'
  BY <1>0, <1>5 DEF Insert, Goto, Running, IdsOK, Reserved
<1>6. ASSUME NEW t \in Clients \cup {"hotplug"}, Announce(t) PROVE Ownership'
  BY <1>0, <1>6 DEF Announce, Goto, Return, table, Running
<1>7. ASSUME NEW c \in Clients, NEW ids \in SUBSET SetIds, TakeOut(c, ids) PROVE Ownership'
  <2>1. /\ pc' = [pc EXCEPT ![c] = "teardown"] /\ pc[c] = "idle" /\ loc' = loc
        /\ todo' = [todo EXCEPT ![c] = RuntimesOf(ids)]
    BY <1>7 DEF TakeOut, Goto
  <2>2. \A s \in SetIds : IF s \in ids THEN sets'[s].rt = None /\ ~Running(s)'
                                      ELSE sets'[s] = sets[s]
    BY <1>7 DEF TakeOut, NoSet, Running
  <2>3. \A s \in SetIds : Running(s)' => sets'[s].rt = sets[s].rt /\ Running(s) /\ sets[s].rt \notin RuntimesOf(ids)
    BY <1>0, <1>7, <2>2 DEF TakeOut, RuntimesOf, TableWhole, Running, Live
  <2>4. \A r \in RuntimesOf(ids) : \E s \in ids : Live(s) /\ sets[s].rt = r
    BY <1>7 DEF TakeOut, RuntimesOf
  <2>5. \A s \in SetIds : Running(s)' => ~Doomed(sets[s].rt)'
    BY <1>0, <2>1, <2>3
  <2>6. QED
    BY <1>0, <2>1, <2>2, <2>4, <2>5
<1>8. ASSUME NEW c \in Clients, Teardown(c) PROVE Ownership'
  BY <1>0, <1>8 DEF Teardown, Goto, table, Running
<1>9. ASSUME NEW t \in {"drainer", "hotplug"}, Release(t) PROVE Ownership'
  BY <1>0, <1>9 DEF Release, Goto, Return, table, Running
<1>10. ASSUME NEW t \in {"drainer", "hotplug"}, NEW s \in SetIds, NEW back \in {"idle", "work"},
              MarkDeviceFault(t, s, back), UNCHANGED todo, pc[t] \in {"idle", "work", "early"}
       PROVE  Ownership'
  <2>1. CASE Live(s)
    BY <1>0, <1>10, <2>1 DEF MarkDeviceFault, Goto, Running, Live, TableWhole
  <2>2. CASE ~Live(s)
    BY <1>0, <1>10, <2>2 DEF MarkDeviceFault, Goto, Running
  <2>3. QED
    BY <2>1, <2>2
<1>11. CASE Drain
  BY <1>0, <1>10, <1>11 DEF Drain, WorldOK
<1>12. CASE EarlyFault \/ \E s \in SetIds : MarkAbsent(s)
  BY <1>0, <1>10, <1>12 DEF EarlyFault, MarkAbsent, IdsOK
<1>13. CASE ShouldProbe \/ Probe \/ Decide \/ ProbeDone
  BY <1>0, <1>13 DEF ShouldProbe, Probe, Decide, ProbeDone, Goto, Return, table, Running
<1>14. ASSUME NEW s \in SetIds, Reconnect(s) PROVE Ownership'
  BY <1>0, <1>14 DEF Reconnect, Goto, table, Running
<1>15. CASE Reopen
  BY <1>0, <1>15 DEF Reopen, Goto, table, Running, Fresh, Unused, Referenced
<1>16. CASE Restart
  BY <1>0, <1>16 DEF Restart, Goto, table, Running
<1>17. CASE NoteReconnectFailure
  BY <1>0, <1>17 DEF NoteReconnectFailure, Goto, Running, Failed, IdsOK
<1>18. CASE Swap
  <2> DEFINE s == arg["hotplug"]
             new == loc["hotplug"]
             old == sets[s].rt
             to == IF Caught(new) THEN "retireDead" ELSE "retire"
  <2>0. pc["hotplug"] = "swap" /\ s \in SetIds /\ new \in Runtimes /\ todo' = todo
    BY <1>0, <1>18 DEF Swap, IdsOK
  <2>1. CASE ~Swaps(s)
    BY <1>0, <1>18, <2>1 DEF Swap, Goto, Running
  <2>2. CASE Swaps(s)
    <3>1. /\ loc' = [loc EXCEPT !["hotplug"] = old] /\ pc' = [pc EXCEPT !["hotplug"] = to]
          /\ \A o \in SetIds : /\ sets'[o].rt = IF o = s THEN new ELSE sets[o].rt
                               /\ Running(o)' <=> o = s \/ Running(o)
      BY <1>0, <1>18, <2>0, <2>2 DEF Swap, Goto, Running
    <3>2. old \in Runtimes /\ ~Running(s) /\ \A o \in SetIds \ {s} : Live(o) => sets[o].rt # old
      BY <1>0, <2>0, <2>2 DEF Swaps, Failed, Running, Live, TableWhole
    <3>3. to \in {"retire", "retireDead"}
      OBVIOUS
    <3> HIDE DEF s, new, old, to
    <3>4. \A t \in Threads : /\ pc'[t] = IF t = "hotplug" THEN to ELSE pc[t]
                            /\ loc'[t] = IF t = "hotplug" THEN old ELSE loc[t]
      BY <1>0, <3>1
    <3>5. \A t \in Threads : Private(t)' => t # "hotplug" /\ Private(t)
      BY <3>3, <3>4
    <3>6. ASSUME NEW t \in Threads, Private(t)'
          PROVE  /\ \A o \in SetIds : sets'[o].rt # loc'[t]
                 /\ \A o \in Threads \ {t} : loc'[o] # loc'[t]
                 /\ \A o \in Threads : loc'[t] \notin todo'[o]
      <4>1. t # "hotplug" /\ Private(t) /\ loc'[t] = loc[t]
        BY <3>4, <3>5, <3>6
      <4>2. new # loc[t] /\ old # loc[t]
        BY <1>0, <2>0, <4>1 DEF new, old
      <4> QED
        BY <1>0, <2>0, <3>1, <3>4, <4>1, <4>2
    <3>7. \A o \in Threads : new \notin todo[o] /\ (o # "hotplug" => loc[o] # new)
      BY <1>0, <2>0 DEF new
    <3>8. ASSUME NEW o \in SetIds, Running(o)' PROVE ~Doomed(sets[o].rt)'
      <4>1. CASE o = s
        <5>1. sets'[o].rt = new /\ old # new
          BY <1>0, <2>0, <3>1, <4>1 DEF new, old
        <5> QED
          BY <2>0, <3>4, <3>7, <5>1
      <4>2. CASE o # s
        <5>1. Running(o) /\ sets'[o].rt = sets[o].rt /\ sets[o].rt # old
          BY <3>1, <3>2, <3>8, <4>2 DEF Running, Live
        <5> QED
          BY <1>0, <2>0, <3>4, <5>1
      <4> QED
        BY <4>1, <4>2
    <3>9. /\ \A t \in Threads : pc'[t] \in Building \cup Reviving \cup Stopping => loc'[t] \in Runtimes
          /\ \A t \in Threads : pc'[t] \notin Building \cup Reviving \cup Stopping => loc'[t] = None
      BY <1>0, <3>2, <3>3, <3>4
    <3>10. \A t \in Threads : todo'[t] # {} => t \in Clients /\ pc'[t] = "teardown"
      BY <1>0, <2>0, <3>4
    <3> QED
      BY <3>6, <3>8, <3>9, <3>10
  <2> QED
    BY <2>1, <2>2
<1>19. CASE Retire
  BY <1>0, <1>19 DEF Retire, Goto, table, Running
<1>20. QED
  BY <1>1, <1>2, <1>3, <1>4, <1>5, <1>6, <1>7, <1>8, <1>9, <1>11, <1>12, <1>13, <1>14,
     <1>15, <1>16, <1>17, <1>18, <1>19, NextCases

----------------------------------------------------------------------------
(* The runtimes.                                                           *)

\* A step of one thread leaves the locals of the others alone.
StepOf(t) == \A o \in Threads \ {t} : UNCHANGED <<pc[o], arg[o], loc[o], want[o], todo[o]>>

LEMMA ClientsStep ==
  ASSUME TypeOK, NEW c \in Clients,
         \/ \E d \in Devices : Create(c, d)
         \/ OpenRadio(c) \/ Recheck(c) \/ Reserve(c) \/ Start(c) \/ Insert(c) \/ Teardown(c)
         \/ \E ids \in SUBSET SetIds : TakeOut(c, ids)
  PROVE  StepOf(c)
<1> USE ThreadNames DEF TypeOK, ThreadsOK, StepOf, Goto, Return
<1>1. CASE (\E d \in Devices : Create(c, d)) \/ OpenRadio(c) \/ Recheck(c)
  BY <1>1 DEF Create, OpenRadio, Recheck
<1>2. CASE Reserve(c) \/ Start(c) \/ Insert(c)
  BY <1>2 DEF Reserve, Start, Insert
<1>3. CASE Teardown(c) \/ \E ids \in SUBSET SetIds : TakeOut(c, ids)
  BY <1>3 DEF Teardown, TakeOut
<1>4. QED
  BY <1>1, <1>2, <1>3

LEMMA WorkersStep ==
  ASSUME TypeOK, NEW t \in Threads,
         \/ Announce(t) \/ Release(t)
         \/ (\E s, back : MarkDeviceFault(t, s, back)) /\ UNCHANGED <<want, todo>>
  PROVE  StepOf(t)
<1> USE DEF TypeOK, ThreadsOK, StepOf, Goto, Return
<1>1. CASE Announce(t) \/ Release(t)
  BY <1>1 DEF Announce, Release
<1>2. CASE (\E s, back : MarkDeviceFault(t, s, back)) /\ UNCHANGED <<want, todo>>
  BY <1>2 DEF MarkDeviceFault
<1>3. QED
  BY <1>1, <1>2

LEMMA ProberStep ==
  ASSUME TypeOK,
         \/ ShouldProbe \/ Probe \/ Decide \/ ProbeDone \/ \E s \in SetIds : Reconnect(s)
         \/ Reopen \/ Restart \/ NoteReconnectFailure \/ Swap \/ Retire
  PROVE  StepOf("hotplug")
<1> USE DEF TypeOK, ThreadsOK, StepOf, Goto, Return
<1>1. CASE ShouldProbe \/ Probe \/ Decide \/ ProbeDone \/ \E s \in SetIds : Reconnect(s)
  BY <1>1 DEF ShouldProbe, Probe, Decide, ProbeDone, Reconnect
<1>2. CASE Reopen \/ Restart \/ NoteReconnectFailure \/ Swap \/ Retire
  BY <1>2 DEF Reopen, Restart, NoteReconnectFailure, Swap, Retire
<1>3. QED
  BY <1>1, <1>2

\* What a thread has alone.
LEMMA Alone ==
  ASSUME IInv, NEW t \in Threads, Private(t)
  PROVE  /\ loc[t] \in Runtimes
         /\ \A s \in SetIds : sets[s].rt # loc[t]
         /\ \A o \in Threads \ {t} : loc[o] # loc[t] /\ loc[t] \notin todo[o]
  BY DEF IInv, Ownership, Private

LEMMA Shown == ASSUME IInv, NEW s \in SetIds, Live(s) PROVE sets[s].rt \in Runtimes
  BY DEF IInv, TableWhole

\* A thread that changes a runtime of its own, or a fresh one, leaves alone
\* what the others have.
LEMMA Elsewhere ==
  ASSUME IInv, NEW t \in Threads, NEW r \in Runtimes, NEW x, rts' = [rts EXCEPT ![r] = x],
         r = loc[t] \/ r \in todo[t] \/ ~Referenced(r)
  PROVE  \A o \in Threads \ {t} : Private(o) => rts'[loc[o]] = rts[loc[o]]
<1>1. rts \in [Runtimes -> RuntimeRecords]
  BY DEF IInv, TypeOK, WorldOK
<1>2. ASSUME NEW o \in Threads \ {t}, Private(o) PROVE loc[o] # r /\ loc[o] \in Runtimes
  BY <1>2, Alone DEF Referenced
<1>3. QED
  BY <1>1, <1>2

\* What is left to show of a thread's step for RuntimesOK.
LEMMA RuntimesStep ==
  ASSUME IInv, NEW t \in Threads, StepOf(t),
         \A o \in Threads \ {t} : Private(o) => rts'[loc[o]] = rts[loc[o]],
         t \in Clients => BuiltOK(t)', t = "hotplug" => NewOK'
  PROVE  (\A c \in Clients : BuiltOK(c)') /\ NewOK'
<1>1. ASSUME NEW c \in Clients, c # t PROVE BuiltOK(c)'
  <2>1. /\ BuiltOK(c) /\ (pc[c] \in Building => rts'[loc[c]] = rts[loc[c]])
        /\ UNCHANGED <<pc[c], arg[c], loc[c], want[c]>>
    BY <1>1, ThreadNames DEF IInv, RuntimesOK, Private, StepOf
  <2>2. QED
    BY <2>1 DEF BuiltOK
<1>2. CASE t # "hotplug"
  <2>1. /\ NewOK /\ (pc["hotplug"] \in Reviving => rts'[loc["hotplug"]] = rts[loc["hotplug"]])
        /\ UNCHANGED <<pc["hotplug"], loc["hotplug"], want["hotplug"]>>
    BY <1>2, ThreadNames DEF IInv, RuntimesOK, Private, StepOf
  <2>2. QED
    BY <1>1, <2>1 DEF NewOK, Reviving
<1>3. QED
  BY <1>1, <1>2

\* The runtimes of the table, when one that is not in it changes.
LEMMA ShownElsewhere ==
  ASSUME IInv, NEW r \in Runtimes, NEW x, rts' = [rts EXCEPT ![r] = x], UNCHANGED sets,
         x.phase = "stopped" \/ \A s \in SetIds : sets[s].rt # r
  PROVE  \A s \in SetIds : ShownOK(s)'
<1>1. rts \in [Runtimes -> RuntimeRecords] /\ \A s \in SetIds : ShownOK(s)
  BY DEF IInv, TypeOK, WorldOK, RuntimesOK
<1>2. QED
  BY <1>1, Shown DEF ShownOK, Live

LEMMA NamedElsewhere ==
  ASSUME IInv, NEW r \in Runtimes, NEW x, rts' = [rts EXCEPT ![r] = x],
         x.phase = "streaming" => x.ds \in SetIds
  PROVE  \A o \in Runtimes : StreamNamed(o)'
<1>1. rts \in [Runtimes -> RuntimeRecords] /\ \A o \in Runtimes : StreamNamed(o)
  BY DEF IInv, TypeOK, WorldOK, RuntimesOK
<1>2. QED
  BY <1>1 DEF StreamNamed

\* A thread gives up the runtime it holds.
LEMMA GivenUp ==
  ASSUME IInv, NEW t \in Threads, NEW r \in Runtimes, Stop(r), r = loc[t] \/ r \in todo[t],
         UNCHANGED sets, StepOf(t), t \in Clients => BuiltOK(t)', t = "hotplug" => NewOK'
  PROVE  RuntimesOK'
<1>1. \A o \in Threads \ {t} : Private(o) => rts'[loc[o]] = rts[loc[o]]
  BY Elsewhere DEF Stop
<1>2. (\A s \in SetIds : ShownOK(s)') /\ (\A o \in Runtimes : StreamNamed(o)')
  BY ShownElsewhere, NamedElsewhere DEF Stop, Stopped
<1>3. QED
  BY <1>1, <1>2, RuntimesStep DEF RuntimesOK

\* A step that changes neither the table nor a runtime.
LEMMA RuntimesKept ==
  ASSUME IInv, NEW t \in Threads, StepOf(t), UNCHANGED <<sets, rts>>,
         t \in Clients => BuiltOK(t)', t = "hotplug" => NewOK'
  PROVE  RuntimesOK'
<1>1. (\A s \in SetIds : ShownOK(s)') /\ (\A r \in Runtimes : StreamNamed(r)')
  BY DEF IInv, RuntimesOK, ShownOK, StreamNamed, Live
<1>2. QED
  BY <1>1, RuntimesStep DEF RuntimesOK

\* A runtime changes only in the hands of its owner, or when its stream dies.
LEMMA RuntimesStayOK == ASSUME IInv, [Next]_vars PROVE RuntimesOK'
<1> USE SetsAssumption, ThreadNames DEF None
<1>0. TypeOK /\ IdsOK /\ TableWhole /\ Ownership /\ RuntimesOK
  BY DEF IInv
<1>a. /\ rts \in [Runtimes -> RuntimeRecords] /\ sets \in [SetIds -> SetRecords]
      /\ pc \in [Threads -> ClientSteps \cup HotplugSteps] /\ loc \in [Threads -> Runtimes \cup {None}]
      /\ arg \in [Threads -> SetIds \cup {None}] /\ want \in [Threads -> Devices \cup {NoDevice}]
  BY <1>0 DEF TypeOK, TableOK, WorldOK, ThreadsOK
<1>b. ASSUME NEW c \in Clients, pc'[c] \notin Building PROVE BuiltOK(c)'
  BY <1>b DEF BuiltOK
<1>c. ASSUME pc'["hotplug"] \notin {"restart", "swap"} PROVE NewOK'
  BY <1>c DEF NewOK
<1>d. ASSUME NEW c \in Clients, pc[c] \in Building PROVE Private(c) /\ BuiltOK(c)
  BY <1>0, <1>d DEF Private, RuntimesOK
<1>1. CASE UNCHANGED vars \/ Bus
  BY <1>0, <1>1 DEF vars, table, world, locals, Bus, Plug, Unplug,
                    RuntimesOK, StreamNamed, BuiltOK, NewOK, ShownOK, Live
<1>2. ASSUME NEW r \in Runtimes, Die(r) PROVE RuntimesOK'
  <2>1. UNCHANGED <<sets, pc, arg, loc, want>>
    BY <1>2 DEF Die, table, locals
  <2>2. \A o \in Runtimes \ {r} : rts'[o] = rts[o]
    BY <1>a, <1>2 DEF Die
  <2>3. /\ rts[r].phase = "streaming" /\ rts'[r].phase = "dead" /\ rts'[r].ds = rts[r].ds
        /\ rts'[r].dev = rts[r].dev
        /\ rts'[r].gate = IF rts[r].gate = "pending" THEN "caught" ELSE rts[r].gate
    BY <1>a, <1>2 DEF Die
  <2>4. \A o \in Runtimes : StreamNamed(o)'
    BY <1>0, <2>2, <2>3 DEF RuntimesOK, StreamNamed
  <2>5. ASSUME NEW c \in Clients PROVE BuiltOK(c)'
    BY <1>0, <1>d, <2>1, <2>2, <2>3, Alone DEF BuiltOK, Building
  <2>6. NewOK'
    BY <1>0, <2>1, <2>2, <2>3, Alone DEF NewOK, Private, Reviving, RuntimesOK
  <2>7. ASSUME NEW s \in SetIds PROVE ShownOK(s)'
    BY <1>0, <2>1, <2>2, <2>3, Shown DEF ShownOK, Live, RuntimesOK
  <2>8. QED
    BY <2>4, <2>5, <2>6, <2>7 DEF RuntimesOK
<1>3. ASSUME NEW c \in Clients, NEW d \in Devices, Create(c, d) PROVE RuntimesOK'
  <2>1. UNCHANGED <<sets, rts>> /\ pc'[c] \notin Building
    BY <1>a, <1>3 DEF Create, Goto, table, world, Building
  <2>2. QED
    BY <1>0, <1>b, <1>3, <2>1, ClientsStep, RuntimesKept
<1>4. ASSUME NEW c \in Clients, OpenRadio(c) PROVE RuntimesOK'
  <2>1. CASE UNCHANGED <<rts, sets>> /\ pc'[c] \notin Building
    BY <1>0, <1>b, <1>4, <2>1, ClientsStep, RuntimesKept
  <2>2. ASSUME NEW r \in Runtimes, ~Referenced(r), UNCHANGED sets,
               rts' = [rts EXCEPT ![r] = [phase |-> "open", ds |-> None,
                                          dev |-> want[c], gate |-> "none"]],
               loc'[c] = r, pc'[c] = "recheck", want'[c] = want[c]
        PROVE  RuntimesOK'
    <3>1. BuiltOK(c)'
      BY <1>a, <2>2 DEF BuiltOK
    <3>2. (\A s \in SetIds : ShownOK(s)') /\ \A o \in Runtimes : StreamNamed(o)'
      BY <2>2, ShownElsewhere, NamedElsewhere DEF Referenced
    <3>3. \A o \in Threads \ {c} : Private(o) => rts'[loc[o]] = rts[loc[o]]
      BY <2>2, Elsewhere
    <3>4. QED
      BY <1>0, <1>4, <3>1, <3>2, <3>3, ClientsStep, RuntimesStep DEF RuntimesOK
  <2>3. QED
    BY <1>a, <1>4, <2>1, <2>2 DEF OpenRadio, Goto, Return, table, Fresh, Unused, Building
<1>5. ASSUME NEW c \in Clients, Recheck(c) PROVE RuntimesOK'
  <2>1. pc[c] = "recheck" /\ UNCHANGED sets
    BY <1>5 DEF Recheck, table
  <2>2. CASE Stop(loc[c]) /\ Return(c)
    BY <1>0, <1>a, <1>b, <1>d, <1>5, <2>1, <2>2, Alone, GivenUp, ClientsStep DEF Return, Building
  <2>3. CASE Goto(c, "reserve") /\ UNCHANGED <<rts, arg, loc, want>>
    <3>1. BuiltOK(c)'
      BY <1>a, <1>d, <2>1, <2>3 DEF BuiltOK, Goto, Building
    <3>2. QED
      BY <1>0, <1>5, <2>1, <2>3, <3>1, RuntimesKept, ClientsStep
  <2>4. QED
    BY <1>5, <2>2, <2>3 DEF Recheck
<1>6. ASSUME NEW c \in Clients, Reserve(c) PROVE RuntimesOK'
  <2>1. UNCHANGED <<sets, rts, loc, want>> /\ pc[c] = "reserve" /\ pc'[c] = "start"
    BY <1>a, <1>6 DEF Reserve, Goto, world
  <2>2. BuiltOK(c)'
    BY <1>d, <2>1 DEF BuiltOK, Building
  <2>3. QED
    BY <1>0, <1>6, <2>1, <2>2, RuntimesKept, ClientsStep
<1>7. ASSUME NEW c \in Clients, Start(c) PROVE RuntimesOK'
  <2>1. /\ pc[c] = "start" /\ UNCHANGED sets /\ Private(c) /\ loc[c] \in Runtimes
        /\ arg[c] \in SetIds
    BY <1>0, <1>d, <1>7, Alone DEF Start, Building, IdsOK, Reserved, TypeOK, TableOK
  <2>2. CASE Stop(loc[c]) /\ Return(c)
    BY <1>0, <1>a, <1>b, <1>7, <2>1, <2>2, GivenUp, ClientsStep DEF Return, Building
  <2>3. ASSUME rts' = [rts EXCEPT ![loc[c]] = [phase |-> "streaming", ds |-> arg[c],
                                               dev |-> want[c], gate |-> "direct"]],
               pc'[c] = "insert", UNCHANGED <<arg, loc, want>>
        PROVE  RuntimesOK'
    <3>1. BuiltOK(c)'
      BY <1>a, <2>1, <2>3 DEF BuiltOK
    <3>2. (\A s \in SetIds : ShownOK(s)') /\ \A o \in Runtimes : StreamNamed(o)'
      BY <2>1, <2>3, Alone, ShownElsewhere, NamedElsewhere
    <3>3. \A o \in Threads \ {c} : Private(o) => rts'[loc[o]] = rts[loc[o]]
      BY <2>1, <2>3, Elsewhere
    <3>4. QED
      BY <1>0, <1>7, <3>1, <3>2, <3>3, ClientsStep, RuntimesStep DEF RuntimesOK
  <2>4. QED
    BY <1>a, <1>7, <2>2, <2>3 DEF Start, Goto
<1>8. ASSUME NEW c \in Clients, Insert(c) PROVE RuntimesOK'
  <2>1. /\ pc[c] = "insert" /\ UNCHANGED rts /\ pc'[c] = "announce" /\ BuiltOK(c) /\ arg[c] \in SetIds
    BY <1>0, <1>a, <1>d, <1>8 DEF Insert, Goto, world, Building, IdsOK, Reserved, TypeOK, TableOK
  <2>2. /\ \A s \in SetIds \ {arg[c]} : sets'[s] = sets[s]
        /\ sets'[arg[c]].rt = loc[c]
    BY <1>a, <1>8, <2>1 DEF Insert
  <2>3. ASSUME NEW s \in SetIds PROVE ShownOK(s)'
    BY <1>0, <2>1, <2>2 DEF ShownOK, Live, RuntimesOK, BuiltOK, Building
  <2>4. \A r \in Runtimes : StreamNamed(r)'
    BY <1>0, <2>1 DEF RuntimesOK, StreamNamed
  <2>5. QED
    BY <1>0, <1>b, <1>8, <2>1, <2>3, <2>4, ClientsStep, RuntimesStep DEF RuntimesOK, Building
<1>9. ASSUME NEW t \in Clients \cup {"hotplug"}, Announce(t) PROVE RuntimesOK'
  <2>1. UNCHANGED <<sets, rts>> /\ pc'[t] \in {"idle", "work"} /\ t \in Threads
    BY <1>a, <1>9 DEF Announce, Goto, Return, table, world, Threads
  <2>2. QED
    BY <1>0, <1>b, <1>c, <1>9, <2>1, WorkersStep, RuntimesKept DEF Building
<1>10. ASSUME NEW c \in Clients, NEW ids \in SUBSET SetIds, TakeOut(c, ids) PROVE RuntimesOK'
  <2>1. UNCHANGED rts /\ pc'[c] = "teardown"
    BY <1>a, <1>10 DEF TakeOut, Goto, world
  <2>2. ASSUME NEW s \in SetIds, Live(s)' PROVE sets'[s] = sets[s]
    BY <1>10, <2>2 DEF TakeOut, Live, NoSet
  <2>3. \A s \in SetIds : ShownOK(s)'
    BY <1>0, <2>1, <2>2 DEF RuntimesOK, ShownOK, Live
  <2>4. \A r \in Runtimes : StreamNamed(r)'
    BY <1>0, <2>1 DEF RuntimesOK, StreamNamed
  <2>5. QED
    BY <1>0, <1>b, <1>10, <2>1, <2>3, <2>4, ClientsStep, RuntimesStep DEF RuntimesOK, Building
<1>11. ASSUME NEW c \in Clients, Teardown(c) PROVE RuntimesOK'
  <2>1. UNCHANGED sets /\ pc'[c] \in {"teardown", "idle"}
    BY <1>a, <1>11 DEF Teardown, Goto, table
  <2>2. PICK r \in todo[c] : Stop(r)
    BY <1>11 DEF Teardown
  <2>3. r \in Runtimes
    BY <1>0 DEF TypeOK, ThreadsOK
  <2>4. QED
    BY <1>0, <1>b, <1>11, <2>1, <2>2, <2>3, ClientsStep, GivenUp DEF Building
<1>12. ASSUME NEW t \in {"drainer", "hotplug"}, Release(t) PROVE RuntimesOK'
  <2>1. UNCHANGED sets /\ pc'[t] \in {"idle", "work"} /\ Stop(loc[t]) /\ pc[t] = "release"
    BY <1>a, <1>12 DEF Release, Goto, Return, table
  <2>2. loc[t] \in Runtimes
    BY <1>0, <2>1 DEF Ownership, Stopping
  <2>3. QED
    BY <1>0, <1>c, <1>12, <2>1, <2>2, WorkersStep, GivenUp
<1>13. ASSUME NEW t \in {"drainer", "hotplug"}, NEW s \in SetIds, NEW back \in {"idle", "work"},
              MarkDeviceFault(t, s, back), UNCHANGED <<rts, want, todo>>
       PROVE  RuntimesOK'
  <2>1. pc'[t] \in {"release", "idle", "work"}
    BY <1>a, <1>13 DEF MarkDeviceFault, Goto
  <2>2. ASSUME NEW o \in SetIds, Live(o)' PROVE Live(o) /\ sets'[o].rt = sets[o].rt
    <3>1. CASE Live(s)
      BY <1>a, <1>13, <2>2, <3>1 DEF MarkDeviceFault, Live
    <3>2. CASE ~Live(s)
      BY <1>13, <2>2, <3>2 DEF MarkDeviceFault, Live
    <3>3. QED
      BY <3>1, <3>2
  <2>3. \A o \in SetIds : ShownOK(o)'
    BY <1>0, <1>13, <2>2 DEF RuntimesOK, ShownOK
  <2>4. \A r \in Runtimes : StreamNamed(r)'
    BY <1>0, <1>13 DEF RuntimesOK, StreamNamed
  <2>5. StepOf(t)
    BY <1>0, <1>13, WorkersStep
  <2>6. QED
    BY <1>c, <1>13, <2>1, <2>3, <2>4, <2>5, RuntimesStep DEF RuntimesOK
<1>14. CASE Drain
  <2>1. Head(faultq) \in SetIds
    BY <1>0, <1>14 DEF Drain, TypeOK, WorldOK
  <2>2. QED
    BY <1>13, <1>14, <2>1 DEF Drain
<1>15. CASE EarlyFault \/ \E s \in SetIds : MarkAbsent(s)
  BY <1>0, <1>13, <1>15 DEF EarlyFault, MarkAbsent, IdsOK, world
<1>16. CASE ShouldProbe \/ Probe \/ Decide \/ ProbeDone \/ \E s \in SetIds : Reconnect(s)
  <2>1. UNCHANGED <<sets, rts>> /\ pc'["hotplug"] \notin {"restart", "swap"}
    BY <1>a, <1>16 DEF ShouldProbe, Probe, Decide, ProbeDone, Reconnect, Goto, Return, table, world
  <2>2. QED
    BY <1>0, <1>c, <1>16, <2>1, ProberStep, RuntimesKept
<1>17. CASE Reopen
  <2>1. CASE UNCHANGED <<rts, sets>> /\ pc'["hotplug"] = "failed"
    BY <1>0, <1>c, <1>17, <2>1, ProberStep, RuntimesKept
  <2>2. ASSUME NEW r \in Runtimes, ~Referenced(r), UNCHANGED <<sets, want>>,
               rts' = [rts EXCEPT ![r] = [phase |-> "open", ds |-> arg["hotplug"],
                                          dev |-> want["hotplug"], gate |-> "none"]],
               loc'["hotplug"] = r, pc'["hotplug"] = "restart"
        PROVE  RuntimesOK'
    <3>1. NewOK'
      BY <1>a, <2>2 DEF NewOK
    <3>2. (\A s \in SetIds : ShownOK(s)') /\ \A o \in Runtimes : StreamNamed(o)'
      BY <2>2, ShownElsewhere, NamedElsewhere DEF Referenced
    <3>3. \A o \in Threads \ {"hotplug"} : Private(o) => rts'[loc[o]] = rts[loc[o]]
      BY <2>2, Elsewhere
    <3>4. QED
      BY <1>0, <1>17, <3>1, <3>2, <3>3, ProberStep, RuntimesStep DEF RuntimesOK
  <2>3. QED
    BY <1>a, <1>17, <2>1, <2>2 DEF Reopen, Goto, table, Fresh, Unused
<1>18. CASE Restart
  <2>1. /\ pc["hotplug"] = "restart" /\ UNCHANGED sets /\ Private("hotplug")
        /\ arg["hotplug"] \in SetIds
    BY <1>0, <1>18 DEF Restart, Private, Reviving, IdsOK, table
  <2>2. loc["hotplug"] \in Runtimes /\ \A s \in SetIds : sets[s].rt # loc["hotplug"]
    BY <2>1, Alone
  <2>3. CASE Stop(loc["hotplug"]) /\ pc'["hotplug"] = "failed"
    BY <1>0, <1>c, <1>18, <2>1, <2>2, <2>3, GivenUp, ProberStep
  <2>4. ASSUME rts' = [rts EXCEPT ![loc["hotplug"]] =
                         [phase |-> "streaming", ds |-> arg["hotplug"],
                          dev |-> want["hotplug"], gate |-> "pending"]],
               pc'["hotplug"] = "swap", UNCHANGED <<loc, want>>
        PROVE  RuntimesOK'
    <3>1. NewOK'
      BY <1>a, <2>2, <2>4 DEF NewOK
    <3>2. (\A s \in SetIds : ShownOK(s)') /\ \A o \in Runtimes : StreamNamed(o)'
      BY <2>1, <2>2, <2>4, ShownElsewhere, NamedElsewhere
    <3>3. \A o \in Threads \ {"hotplug"} : Private(o) => rts'[loc[o]] = rts[loc[o]]
      BY <2>2, <2>4, Elsewhere
    <3>4. QED
      BY <1>0, <1>18, <3>1, <3>2, <3>3, ProberStep, RuntimesStep DEF RuntimesOK
  <2>5. QED
    BY <1>a, <1>18, <2>3, <2>4 DEF Restart, Goto
<1>19. CASE NoteReconnectFailure
  <2>1. UNCHANGED rts /\ pc'["hotplug"] \in {"announce", "work"} /\ arg["hotplug"] \in SetIds
    BY <1>0, <1>a, <1>19 DEF NoteReconnectFailure, Goto, world, IdsOK
  <2>2. ASSUME NEW o \in SetIds, Live(o)' PROVE Live(o) /\ sets'[o].rt = sets[o].rt
    BY <1>a, <1>19, <2>1, <2>2 DEF NoteReconnectFailure, Live, Failed
  <2>3. \A o \in SetIds : ShownOK(o)'
    BY <1>0, <2>1, <2>2 DEF RuntimesOK, ShownOK
  <2>4. \A r \in Runtimes : StreamNamed(r)'
    BY <1>0, <2>1 DEF RuntimesOK, StreamNamed
  <2>5. StepOf("hotplug")
    BY <1>0, <1>19, ProberStep
  <2>6. QED
    BY <1>c, <2>1, <2>3, <2>4, <2>5, RuntimesStep DEF RuntimesOK
<1>20. CASE Swap
  <2> DEFINE s == arg["hotplug"]
             new == loc["hotplug"]
  <2>1. s \in SetIds /\ pc["hotplug"] = "swap" /\ Private("hotplug")
    BY <1>0, <1>20 DEF Swap, IdsOK, Private, Reviving
  <2>2. new \in Runtimes /\ \A o \in SetIds : sets[o].rt # new
    BY <2>1, Alone
  <2>3. StepOf("hotplug") /\ pc'["hotplug"] \in {"retire", "retireDead", "discard"}
    BY <1>0, <1>a, <1>20, ProberStep DEF Swap, Goto
  <2>4. CASE Swaps(s)
    <3>1. /\ rts' = [rts EXCEPT ![new] = [phase |-> rts[new].phase, ds |-> s, dev |-> rts[new].dev,
                                         gate |-> "armed"]]
          /\ sets' = [sets EXCEPT ![s] = [dev |-> want["hotplug"], status |-> "Running", error |-> "none",
                                         fault |-> sets[s].fault, rt |-> new]]
      BY <1>20, <2>4 DEF Swap
    <3>2. rts[new].phase \in {"streaming", "dead"}
      BY <1>0, <2>1 DEF RuntimesOK, NewOK
    <3>3. \A r \in Runtimes : StreamNamed(r)'
      BY <2>1, <2>2, <3>1, NamedElsewhere
    <3>4. \A o \in Threads \ {"hotplug"} : Private(o) => rts'[loc[o]] = rts[loc[o]]
      BY <2>2, <3>1, Elsewhere
    <3>5. ASSUME NEW o \in SetIds PROVE ShownOK(o)'
      <4>1. CASE o = s
        BY <1>a, <2>1, <2>2, <3>1, <3>2, <4>1 DEF ShownOK
      <4>2. CASE o # s
        BY <1>0, <1>a, <2>2, <3>1, <4>2, Shown DEF ShownOK, Live, RuntimesOK
      <4>3. QED
        BY <4>1, <4>2
    <3>6. QED
      BY <1>c, <2>3, <3>3, <3>4, <3>5, RuntimesStep DEF RuntimesOK
  <2>5. CASE ~Swaps(s)
    <3>1. UNCHANGED <<sets, rts>>
      BY <1>20, <2>5 DEF Swap
    <3>2. QED
      BY <1>c, <2>3, <3>1, RuntimesKept
  <2>6. QED
    BY <2>4, <2>5
<1>21. CASE Retire
  <2>1. /\ UNCHANGED sets /\ pc'["hotplug"] \in {"announce", "early", "work"} /\ Stop(loc["hotplug"])
        /\ loc["hotplug"] \in Runtimes
    BY <1>0, <1>a, <1>21 DEF Retire, Goto, table, Ownership, Stopping, Reviving
  <2>2. QED
    BY <1>0, <1>c, <1>21, <2>1, ProberStep, GivenUp
<1>22. QED
  BY <1>1, <1>2, <1>3, <1>4, <1>5, <1>6, <1>7, <1>8, <1>9, <1>10, <1>11, <1>12, <1>14,
     <1>15, <1>16, <1>17, <1>18, <1>19, <1>20, <1>21, NextCases

----------------------------------------------------------------------------
(* The radios.                                                             *)

\* What is open stays known to somebody.
LEMMA RadiosStayKnown == ASSUME IInv, [Next]_vars PROVE NoRadioLeftOpen'
<1> USE SetsAssumption, ThreadNames DEF None, Runtimes
<1>0. TypeOK /\ IdsOK /\ TableWhole /\ Ownership /\ NoRadioLeftOpen
  BY DEF IInv
<1> USE DEF TypeOK, TableOK, WorldOK, ThreadsOK, NoRadioLeftOpen, Referenced
<1>1. ASSUME UNCHANGED <<rts, sets, loc, todo>> PROVE NoRadioLeftOpen'
  BY <1>0, <1>1
\* A thread stops the runtime it holds.
<1>2. ASSUME NEW t \in Threads, loc[t] \in Runtimes, Stop(loc[t]), UNCHANGED <<sets, todo>>,
             loc' = [loc EXCEPT ![t] = None]
      PROVE  NoRadioLeftOpen'
  BY <1>0, <1>2 DEF Stop, Stopped
\* A thread takes hold of a runtime; it held none.
<1>3. ASSUME NEW t \in Threads, NEW r \in Runtimes, NEW x, loc[t] = None, loc' = [loc EXCEPT ![t] = r],
             rts' = [rts EXCEPT ![r] = x], UNCHANGED <<sets, todo>>
      PROVE  NoRadioLeftOpen'
  BY <1>0, <1>3
\* A thread works on the runtime it holds.
<1>4. ASSUME NEW t \in Threads, loc[t] \in Runtimes, NEW x, rts' = [rts EXCEPT ![loc[t]] = x],
             UNCHANGED <<loc, sets, todo>>
      PROVE  NoRadioLeftOpen'
  BY <1>0, <1>4
<1>5. ASSUME NEW r \in Runtimes, Die(r) PROVE NoRadioLeftOpen'
  BY <1>0, <1>5 DEF Die, table, locals
<1>6. ASSUME NEW c \in Clients, OpenRadio(c) PROVE NoRadioLeftOpen'
  <2>1. loc[c] = None
    BY <1>0, <1>6 DEF OpenRadio, Ownership, Building, Reviving, Stopping
  <2>2. CASE UNCHANGED rts
    <3>1. UNCHANGED <<sets, todo, loc>>
      BY <1>0, <1>3, <1>6, <2>1, <2>2 DEF OpenRadio, Return, table, Fresh, Unused
    <3>2. QED
      BY <1>1, <2>2, <3>1
  <2>3. QED
    BY <1>0, <1>3, <1>6, <2>1, <2>2 DEF OpenRadio, table
<1>7. ASSUME NEW c \in Clients, Recheck(c) \/ Start(c) PROVE NoRadioLeftOpen'
  <2>1. loc[c] \in Runtimes
    BY <1>0, <1>7 DEF Recheck, Start, Ownership, Building
  <2>2. QED
    BY <1>1, <1>2, <1>4, <1>7, <2>1 DEF Recheck, Start, Return, table
<1>8. ASSUME NEW c \in Clients, Insert(c) PROVE NoRadioLeftOpen'
  BY <1>0, <1>8 DEF Insert, world, IdsOK, Reserved, TableWhole, Live, NoSet
<1>9. ASSUME NEW c \in Clients, NEW ids \in SUBSET SetIds, TakeOut(c, ids) PROVE NoRadioLeftOpen'
  <2>1. todo[c] = {}
    BY <1>0, <1>9 DEF TakeOut, Ownership
  <2>2. QED
    BY <1>0, <1>9, <2>1 DEF TakeOut, world, RuntimesOf
<1>10. ASSUME NEW c \in Clients, Teardown(c) PROVE NoRadioLeftOpen'
  <2>1. PICK r \in todo[c] : Stop(r) /\ todo' = [todo EXCEPT ![c] = @ \ {r}]
    BY <1>10 DEF Teardown
  <2>2. UNCHANGED <<sets, loc>> /\ r \in Runtimes
    BY <1>0, <1>10 DEF Teardown, table
  <2>3. \A o \in Runtimes \ {r} : Referenced(o) => Referenced(o)'
    BY <1>0, <2>1, <2>2
  <2>4. QED
    BY <1>0, <2>1, <2>2, <2>3 DEF Stop, Stopped
<1>11. ASSUME NEW t \in {"drainer", "hotplug"}, Release(t) PROVE NoRadioLeftOpen'
  <2>1. loc[t] \in Runtimes
    BY <1>0, <1>11 DEF Release, Ownership, Stopping
  <2>2. QED
    BY <1>2, <1>11, <2>1 DEF Release, Return, table
<1>12. ASSUME NEW t \in {"drainer", "hotplug"}, NEW s \in SetIds, NEW back,
              MarkDeviceFault(t, s, back), UNCHANGED <<rts, todo>>,
              loc[t] = None
       PROVE  NoRadioLeftOpen'
  <2>1. CASE Live(s)
    <3>1. loc' = [loc EXCEPT ![t] = sets[s].rt] /\ \A o \in SetIds : sets'[o].rt = sets[o].rt
      BY <1>0, <1>12, <2>1 DEF MarkDeviceFault
    <3>2. ASSUME NEW r \in Runtimes, Referenced(r) PROVE Referenced(r)'
      <4>1. \A o \in Threads : loc[o] = r => loc'[o] = r
        BY <1>0, <1>12, <3>1
      <4>2. QED
        BY <1>12, <3>1, <3>2, <4>1
    <3>3. QED
      BY <1>0, <1>12, <3>2
  <2>2. CASE ~Live(s)
    BY <1>1, <1>12, <2>2 DEF MarkDeviceFault
  <2>3. QED
    BY <2>1, <2>2
<1>13. CASE Drain
  <2>1. Head(faultq) \in SetIds
    BY <1>0, <1>13 DEF Drain
  <2>a. loc["drainer"] = None
    BY <1>0, <1>13 DEF Drain, Ownership, Building, Reviving, Stopping
  <2>2. QED
    BY <1>12, <1>13, <2>1, <2>a DEF Drain
<1>14. CASE EarlyFault \/ \E s \in SetIds : MarkAbsent(s)
  <2>1. loc["hotplug"] = None
    BY <1>0, <1>14 DEF EarlyFault, MarkAbsent, Ownership, Building, Reviving, Stopping
  <2>2. QED
    BY <1>0, <1>12, <1>14, <2>1 DEF EarlyFault, MarkAbsent, IdsOK, world
<1>15. CASE Reopen
  <2>1. loc["hotplug"] = None
    BY <1>0, <1>15 DEF Reopen, Ownership, Building, Reviving, Stopping
  <2>2. QED
    BY <1>1, <1>3, <1>15, <2>1 DEF Reopen, table
<1>16. CASE Restart
  <2>1. loc["hotplug"] \in Runtimes
    BY <1>0, <1>16 DEF Restart, Ownership, Reviving
  <2>2. QED
    BY <1>2, <1>4, <1>16, <2>1 DEF Restart, table
<1>17. CASE NoteReconnectFailure
  <2>1. arg["hotplug"] \in SetIds /\ UNCHANGED <<rts, loc, todo>>
    BY <1>0, <1>17 DEF NoteReconnectFailure, world, IdsOK
  <2>2. \A s \in SetIds : sets'[s].rt = sets[s].rt
    BY <1>0, <1>17, <2>1 DEF NoteReconnectFailure
  <2>3. QED
    BY <1>0, <2>1, <2>2
<1>18. CASE Swap
  <2> DEFINE s == arg["hotplug"]
             new == loc["hotplug"]
  <2>1. s \in SetIds /\ new \in Runtimes
    BY <1>0, <1>18 DEF Swap, IdsOK, Ownership, Reviving
  <2>2. CASE Swaps(s)
    <3>1. \A o \in SetIds \ {s} : sets'[o] = sets[o]
      BY <1>0, <1>18, <2>1, <2>2 DEF Swap
    <3>2. sets'[s].rt = new /\ loc'["hotplug"] = sets[s].rt /\ todo' = todo
      BY <1>0, <1>18, <2>1, <2>2 DEF Swap
    <3>3. \A t \in Threads \ {"hotplug"} : loc'[t] = loc[t]
      BY <1>0, <1>18, <2>1, <2>2 DEF Swap
    <3>4. \A r \in Runtimes : Referenced(r) => Referenced(r)'
      BY <2>1, <3>1, <3>2, <3>3
    <3>5. \A r \in Runtimes : rts'[r].phase = rts[r].phase
      <4>1. rts \in [Runtimes -> RuntimeRecords]
        BY <1>0
      <4>2. QED
        BY <1>18, <2>1, <2>2, <4>1 DEF Swap
    <3>6. QED
      BY <1>0, <3>4, <3>5
  <2>3. CASE ~Swaps(s)
    BY <1>1, <1>18, <2>3 DEF Swap
  <2>4. QED
    BY <2>2, <2>3
<1>19. CASE Retire
  <2>1. loc["hotplug"] \in Runtimes
    BY <1>0, <1>19 DEF Retire, Ownership, Reviving, Stopping
  <2>2. QED
    BY <1>2, <1>19, <2>1 DEF Retire, table
<1>20. CASE \/ UNCHANGED vars \/ Bus \/ ShouldProbe \/ Probe \/ Decide
            \/ \E c \in Clients : \/ \E d \in Devices : Create(c, d)
                                  \/ Reserve(c)
            \/ Announce("hotplug") \/ \E s \in SetIds : Reconnect(s)
  BY <1>1, <1>20 DEF vars, table, world, locals, Bus, Plug, Unplug, ShouldProbe, Probe, Decide, Create,
                     Reserve, Announce, Reconnect
<1>21. ASSUME NEW t \in Threads, Return(t), loc[t] = None, UNCHANGED <<rts, sets, todo>>
       PROVE  NoRadioLeftOpen'
  BY <1>0, <1>21 DEF Return
<1>22. ASSUME NEW c \in Clients, Announce(c) PROVE NoRadioLeftOpen'
  <2>1. loc[c] = None
    BY <1>0, <1>22 DEF Announce, Ownership, Building, Reviving, Stopping
  <2>2. QED
    BY <1>21, <1>22, <2>1 DEF Announce, table, world
<1>23. CASE ProbeDone
  <2>1. loc["hotplug"] = None
    BY <1>0, <1>23 DEF ProbeDone, Ownership, Building, Reviving, Stopping
  <2>2. QED
    BY <1>21, <1>23, <2>1 DEF ProbeDone, table, world
<1>24. QED
  BY <1>5, <1>6, <1>7, <1>8, <1>9, <1>10, <1>11, <1>13, <1>14, <1>15, <1>16, <1>17, <1>18,
     <1>19, <1>20, <1>22, <1>23, NextCases

\* The handles stay where they are: a radio is opened or given back.
HandlesKept ==
  \A r \in Runtimes : rts'[r].phase # "stopped" =>
                        rts[r].phase # "stopped" /\ rts'[r].dev = rts[r].dev

Opens(t, r) == /\ Openable(want[t]) /\ rts[r].phase = "stopped"
               /\ rts'[r].dev = want[t] /\ \A o \in Runtimes \ {r} : rts'[o] = rts[o]

LEMMA HandlesStay ==
  ASSUME IInv, [Next]_vars
  PROVE  HandlesKept \/ \E t \in Threads, r \in Runtimes : Opens(t, r)
<1> USE ThreadNames
<1>0. /\ rts \in [Runtimes -> RuntimeRecords] /\ loc \in [Threads -> Runtimes \cup {None}]
      /\ Ownership /\ RuntimesOK
  BY DEF IInv, TypeOK, WorldOK, ThreadsOK
<1>1. ASSUME NEW r, Stop(r) PROVE HandlesKept
  BY <1>0, <1>1 DEF Stop, Stopped, HandlesKept
<1>2. ASSUME UNCHANGED rts PROVE HandlesKept
  BY <1>2 DEF HandlesKept
<1>3. ASSUME NEW r \in Runtimes, Die(r) PROVE HandlesKept
  BY <1>0, <1>3 DEF Die, HandlesKept
<1>4. ASSUME NEW c \in Clients, OpenRadio(c) PROVE HandlesKept \/ \E r \in Runtimes : Opens(c, r)
  BY <1>0, <1>2, <1>4 DEF OpenRadio, Fresh, Unused, Opens
<1>5. ASSUME NEW c \in Clients, Start(c) PROVE HandlesKept
  <2>1. loc[c] \in Runtimes /\ rts[loc[c]].phase = "open" /\ rts[loc[c]].dev = want[c]
    BY <1>0, <1>5 DEF Start, Ownership, Building, RuntimesOK, BuiltOK
  <2>2. QED
    BY <1>0, <1>1, <1>5, <2>1 DEF Start, HandlesKept
<1>6. CASE Reopen
  BY <1>0, <1>2, <1>6 DEF Reopen, Fresh, Unused, Opens
<1>7. CASE Restart
  <2>1. /\ loc["hotplug"] \in Runtimes /\ rts[loc["hotplug"]].phase = "open"
        /\ rts[loc["hotplug"]].dev = want["hotplug"]
    BY <1>0, <1>7 DEF Restart, Ownership, Reviving, RuntimesOK, NewOK
  <2>2. QED
    BY <1>0, <1>1, <1>7, <2>1 DEF Restart, HandlesKept
<1>8. CASE Swap
  BY <1>0, <1>2, <1>8 DEF Swap, HandlesKept
<1>9. CASE \/ \E c \in Clients : Recheck(c) \/ Teardown(c)
           \/ \E t \in {"drainer", "hotplug"} : Release(t)
           \/ Retire
  BY <1>1, <1>2, <1>9 DEF Recheck, Teardown, Release, Retire
<1>10. CASE \/ UNCHANGED vars \/ Bus
            \/ \E c \in Clients : \/ \E d \in Devices : Create(c, d)
                                  \/ Reserve(c) \/ Insert(c)
                                  \/ \E ids \in SUBSET SetIds : TakeOut(c, ids)
            \/ \E t \in Clients \cup {"hotplug"} : Announce(t)
            \/ Drain \/ ShouldProbe \/ Probe \/ Decide \/ NoteReconnectFailure \/ EarlyFault \/ ProbeDone
            \/ \E s \in SetIds : MarkAbsent(s) \/ Reconnect(s)
  BY <1>2, <1>10 DEF vars, world, Bus, Plug, Unplug, Create, Reserve, Insert, TakeOut, Announce, Drain,
                     ShouldProbe, Probe, Decide, NoteReconnectFailure, EarlyFault, ProbeDone,
                     MarkAbsent, Reconnect
<1>11. QED
  BY <1>3, <1>4, <1>5, <1>6, <1>7, <1>8, <1>9, <1>10, NextCases

\* The sets stay what they are: only a create puts a new one into the table.
TableKept == \A s \in SetIds : Live(s)' => Live(s) /\ sets'[s].dev = sets[s].dev

LEMMA TableStays ==
  ASSUME IInv, [Next]_vars PROVE TableKept \/ \E c \in Clients : Insert(c)
<1> USE DEF Live
<1>0. sets \in [SetIds -> SetRecords] /\ TypeOK /\ IdsOK
  BY DEF IInv, TypeOK, TableOK
<1>1. ASSUME UNCHANGED sets PROVE TableKept
  BY <1>1 DEF TableKept
<1>2. ASSUME NEW t, NEW s \in SetIds, NEW back, MarkDeviceFault(t, s, back) PROVE TableKept
  BY <1>0, <1>1, <1>2 DEF MarkDeviceFault, TableKept
<1>3. CASE Drain
  <2>1. Head(faultq) \in SetIds
    BY <1>0, <1>3 DEF Drain, TypeOK, WorldOK
  <2>2. QED
    BY <1>2, <1>3, <2>1 DEF Drain
<1>4. CASE EarlyFault \/ \E s \in SetIds : MarkAbsent(s)
  BY <1>0, <1>2, <1>4 DEF EarlyFault, MarkAbsent, IdsOK
<1>5. ASSUME NEW c \in Clients, NEW ids \in SUBSET SetIds, TakeOut(c, ids) PROVE TableKept
  BY <1>5 DEF TakeOut, NoSet, TableKept
<1>6. CASE NoteReconnectFailure
  BY <1>0, <1>1, <1>6 DEF NoteReconnectFailure, Failed, IdsOK, TableKept
<1>7. CASE Swap
  BY <1>0, <1>1, <1>7 DEF Swap, Swaps, Failed, IdsOK, TableKept
<1>8. CASE \/ UNCHANGED vars \/ Bus \/ \E r \in Runtimes : Die(r)
           \/ \E c \in Clients : \/ \E d \in Devices : Create(c, d)
                                 \/ OpenRadio(c) \/ Recheck(c) \/ Reserve(c) \/ Start(c) \/ Teardown(c)
           \/ \E t \in Clients \cup {"hotplug"} : Announce(t)
           \/ \E t \in {"drainer", "hotplug"} : Release(t)
           \/ ShouldProbe \/ Probe \/ Decide \/ \E s \in SetIds : Reconnect(s)
           \/ Reopen \/ Restart \/ Retire \/ ProbeDone
  BY <1>1, <1>8 DEF vars, table, Bus, Plug, Unplug, Die, Create, OpenRadio, Recheck, Reserve, Start,
                    Teardown, Announce, Release, ShouldProbe, Probe, Decide, Reconnect, Reopen,
                    Restart, Retire, ProbeDone
<1>9. QED
  BY <1>3, <1>4, <1>5, <1>6, <1>7, <1>8, NextCases

LEMMA SureStay ==
  ASSUME IInv, [Next]_vars, NEW c \in Clients, pc'[c] \in Sure
  PROVE  want'[c] = want[c] /\ (pc[c] \in Sure \/ (Recheck(c) /\ ~Taken(want[c])))
<1> USE ThreadNames
<1>0. TypeOK /\ pc \in [Threads -> ClientSteps \cup HotplugSteps]
  BY DEF IInv, TypeOK, ThreadsOK
<1>1. ASSUME NEW t \in Threads, t # c, StepOf(t) PROVE UNCHANGED <<pc[c], want[c]>>
  BY <1>1 DEF StepOf
<1>2. CASE UNCHANGED <<pc, want>>
  BY <1>2
<1>3. CASE UNCHANGED vars \/ Bus \/ \E r \in Runtimes : Die(r)
  BY <1>2, <1>3 DEF vars, locals, Bus, Plug, Unplug, Die
<1>4. ASSUME NEW o \in Clients,
             \/ \E d \in Devices : Create(o, d)
             \/ OpenRadio(o) \/ Recheck(o) \/ Reserve(o) \/ Start(o) \/ Insert(o) \/ Teardown(o)
             \/ \E ids \in SUBSET SetIds : TakeOut(o, ids)
      PROVE  want'[c] = want[c] /\ (pc[c] \in Sure \/ (Recheck(c) /\ ~Taken(want[c])))
  <2>1. CASE o # c
    BY <1>0, <1>1, <1>4, <2>1, ClientsStep
  <2>2. CASE o = c
    <3>1. CASE (\E d \in Devices : Create(c, d)) \/ OpenRadio(c) \/ Insert(c)
      BY <1>0, <3>1 DEF Create, OpenRadio, Insert, Goto, Return, Sure
    <3>2. CASE Teardown(c) \/ \E ids \in SUBSET SetIds : TakeOut(c, ids)
      BY <1>0, <3>2 DEF Teardown, TakeOut, Goto, Sure
    <3>3. CASE Recheck(c)
      BY <1>0, <3>3 DEF Recheck, RefusedAgain, Goto, Return, Sure
    <3>4. CASE Reserve(c) \/ Start(c)
      BY <1>0, <3>4 DEF Reserve, Start, Goto, Return, Sure
    <3>5. QED
      BY <1>4, <2>2, <3>1, <3>2, <3>3, <3>4
  <2>3. QED
    BY <2>1, <2>2
<1>5. ASSUME NEW t \in Clients \cup {"hotplug"}, Announce(t)
      PROVE  UNCHANGED <<pc[c], want[c]>>
  <2>1. CASE t = c
    BY <1>0, <1>5, <2>1 DEF Announce, Return, Sure
  <2>2. CASE t # c
    BY <1>0, <1>1, <1>5, <2>2, WorkersStep DEF Threads
  <2>3. QED
    BY <2>1, <2>2
<1>6. CASE Drain \/ EarlyFault \/ \E s \in SetIds : MarkAbsent(s)
  BY <1>0, <1>1, <1>6, WorkersStep DEF Drain, EarlyFault, MarkAbsent
<1>7. CASE \E t \in {"drainer", "hotplug"} : Release(t)
  BY <1>0, <1>1, <1>7, WorkersStep
<1>8. CASE \/ ShouldProbe \/ Probe \/ Decide \/ ProbeDone \/ \E s \in SetIds : Reconnect(s)
           \/ Reopen \/ Restart \/ NoteReconnectFailure \/ Swap \/ Retire
  BY <1>0, <1>1, <1>8, ProberStep
<1>9. QED
  BY <1>3, <1>4, <1>5, <1>6, <1>7, <1>8, NextCases

\* One handle per radio stays, and one set: a set comes into the table with
\* the only handle there is on its radio.
LEMMA ExclusionStays == ASSUME IInv, [Next]_vars PROVE Exclusion'
<1> USE ThreadNames DEF Live
<1>0. TypeOK /\ IdsOK /\ Ownership /\ RuntimesOK /\ Exclusion
  BY DEF IInv
<1>1. OneHandle'
  <2>1. CASE HandlesKept
    BY <1>0, <2>1 DEF HandlesKept, Exclusion, OneHandle
  <2>2. ASSUME NEW t \in Threads, NEW r \in Runtimes, Opens(t, r) PROVE OneHandle'
    BY <1>0, <2>2 DEF Opens, Openable, Held, Exclusion, OneHandle
  <2>3. QED
    BY <2>1, <2>2, HandlesStay
<1>2. ASSUME NEW c \in Clients, pc'[c] \in Sure, want'[c] \in Exclusive PROVE ~Taken(want[c])'
  <2>1. want'[c] = want[c] /\ ~Taken(want[c])
    BY <1>0, <1>2, SureStay DEF Exclusion, Sure
  <2>2. CASE TableKept
    BY <2>1, <2>2 DEF TableKept, Taken
  <2>3. ASSUME NEW o \in Clients, Insert(o) PROVE ~Taken(want[c])'
    <3>1. /\ arg[o] \in SetIds /\ pc[o] = "insert" /\ pc'[o] = "announce"
          /\ \A s \in SetIds \ {arg[o]} : sets'[s] = sets[s]
          /\ sets'[arg[o]].dev = want[o]
      BY <1>0, <2>3 DEF Insert, Goto, IdsOK, Reserved, TypeOK, TableOK, ThreadsOK
    <3>2. o # c /\ pc[c] \in Sure
      BY <1>0, <1>2, <2>3, <3>1, SureStay, ClientsStep DEF Sure, StepOf, Recheck
    <3>3. want[o] # want[c]
      <4>1. /\ loc[o] \in Runtimes /\ loc[c] \in Runtimes /\ loc[o] # loc[c]
        BY <3>1, <3>2, Alone DEF Private, Building, Sure
      <4>2. /\ rts[loc[o]].phase # "stopped" /\ rts[loc[c]].phase # "stopped"
            /\ rts[loc[o]].dev = want[o] /\ rts[loc[c]].dev = want[c]
        BY <1>0, <3>1, <3>2 DEF RuntimesOK, BuiltOK, Building, Sure
      <4>3. QED
        BY <1>0, <1>2, <2>1, <4>1, <4>2 DEF Exclusion, OneHandle
    <3>4. QED
      BY <2>1, <3>1, <3>3 DEF Taken
  <2>4. QED
    BY <2>2, <2>3, TableStays
<1>3. OneSetPerRadio'
  <2>1. CASE TableKept
    BY <1>0, <2>1 DEF TableKept, Exclusion, OneSetPerRadio
  <2>2. ASSUME NEW c \in Clients, Insert(c) PROVE OneSetPerRadio'
    <3>1. /\ arg[c] \in SetIds /\ pc[c] = "insert"
          /\ \A s \in SetIds \ {arg[c]} : sets'[s] = sets[s]
          /\ sets'[arg[c]].dev = want[c]
      BY <1>0, <2>2 DEF Insert, IdsOK, Reserved, TypeOK, TableOK, ThreadsOK
    <3>2. want[c] \in Exclusive => \A s \in SetIds : Live(s) => sets[s].dev # want[c]
      BY <1>0, <3>1 DEF Exclusion, Taken, Sure
    <3>3. QED
      BY <1>0, <3>1, <3>2 DEF Exclusion, OneSetPerRadio
  <2>3. QED
    BY <2>1, <2>2, TableStays
<1>4. QED
  BY <1>1, <1>2, <1>3 DEF Exclusion

----------------------------------------------------------------------------
(* The faults.                                                             *)

\* A fault stays in the queue until the drainer takes it.
LEMMA QueueStays ==
  ASSUME IInv, [Next]_vars, NEW s \in SetIds, Queued(s)
  PROVE  Queued(s)' \/ (Drain /\ s = Head(faultq))
<1>0. faultq \in Seq(SetIds)
  BY DEF IInv, TypeOK, WorldOK
<1>1. CASE UNCHANGED faultq
  BY <1>1 DEF Queued
<1>2. CASE Drain
  <2>1. PICK i \in 1..Len(faultq) : faultq[i] = s
    BY DEF Queued
  <2>2. faultq' = Tail(faultq) /\ faultq # <<>>
    BY <1>2 DEF Drain
  <2>3. CASE i = 1
    BY <1>0, <1>2, <2>1, <2>2, <2>3
  <2>4. CASE i # 1
    <3>1. i - 1 \in 1..Len(Tail(faultq)) /\ Tail(faultq)[i - 1] = faultq[i]
      BY <1>0, <2>1, <2>2, <2>4
    <3>2. QED
      BY <2>1, <2>2, <3>1 DEF Queued
  <2>5. QED
    BY <2>3, <2>4
<1>3. ASSUME NEW r \in Runtimes, Die(r) PROVE Queued(s)'
  <2>1. CASE faultq' = faultq
    BY <1>1, <2>1 DEF Queued
  <2>2. CASE faultq' = Append(faultq, rts[r].ds)
    <3>1. PICK i \in 1..Len(faultq) : faultq[i] = s
      BY DEF Queued
    <3>2. i \in 1..Len(Append(faultq, rts[r].ds)) /\ Append(faultq, rts[r].ds)[i] = s
      BY <1>0, <3>1
    <3>3. QED
      BY <2>2, <3>2 DEF Queued
  <2>3. QED
    BY <1>3, <2>1, <2>2 DEF Die
<1>4. CASE \/ UNCHANGED vars \/ Bus
           \/ \E c \in Clients : \/ \E d \in Devices : Create(c, d)
                                 \/ OpenRadio(c) \/ Recheck(c) \/ Reserve(c) \/ Start(c) \/ Insert(c)
                                 \/ \E ids \in SUBSET SetIds : TakeOut(c, ids)
                                 \/ Teardown(c)
           \/ \E t \in Clients \cup {"hotplug"} : Announce(t)
           \/ \E t \in {"drainer", "hotplug"} : Release(t)
           \/ ShouldProbe \/ Probe \/ Decide \/ \E o \in SetIds : MarkAbsent(o) \/ Reconnect(o)
           \/ Reopen \/ Restart \/ NoteReconnectFailure \/ Swap \/ Retire \/ EarlyFault \/ ProbeDone
  BY <1>1, <1>4 DEF vars, world, Bus, Plug, Unplug, Create, OpenRadio, Recheck, Reserve, Start, Insert,
                    TakeOut, Teardown, Announce, Release, ShouldProbe, Probe, Decide, MarkAbsent,
                    Reconnect, Reopen, Restart, NoteReconnectFailure, Swap, Retire, EarlyFault, ProbeDone
<1>5. QED
  BY <1>2, <1>3, <1>4, NextCases

\* The stream that dies reports to the drainer, unless its gate is pending.
LEMMA DeathReported ==
  ASSUME IInv, NEW r \in Runtimes, Die(r), rts[r].gate # "pending", NEW s, rts[r].ds = s
  PROVE  Queued(s)'
<1>1. s \in SetIds /\ faultq \in Seq(SetIds) /\ faultq' = Append(faultq, s)
  BY DEF Die, IInv, RuntimesOK, StreamNamed, TypeOK, WorldOK
<1>2. Len(faultq) + 1 \in 1..Len(faultq') /\ faultq'[Len(faultq) + 1] = s
  BY <1>1
<1>3. QED
  BY <1>2 DEF Queued

\* A pending fault is kept until the create it belongs to is over.
LEMMA PendingStays ==
  ASSUME IInv, [Next]_vars, NEW s \in pending
  PROVE  s \in pending' \/ \E c \in Clients : arg[c] = s /\ (Start(c) \/ Insert(c))
<1>1. CASE UNCHANGED pending
  BY <1>1
<1>2. ASSUME NEW c \in Clients, Start(c) \/ Insert(c)
      PROVE  s \in pending' \/ \E o \in Clients : arg[o] = s /\ (Start(o) \/ Insert(o))
  BY <1>2 DEF Start, Insert
<1>3. ASSUME NEW t, NEW o, NEW back, MarkDeviceFault(t, o, back) PROVE s \in pending'
  BY <1>3 DEF MarkDeviceFault, Kept
<1>4. CASE Drain \/ EarlyFault \/ \E o \in SetIds : MarkAbsent(o)
  BY <1>3, <1>4 DEF Drain, EarlyFault, MarkAbsent
<1>5. CASE \/ UNCHANGED vars \/ Bus \/ \E r \in Runtimes : Die(r)
           \/ \E c \in Clients : \/ \E d \in Devices : Create(c, d)
                                 \/ OpenRadio(c) \/ Recheck(c) \/ Reserve(c)
                                 \/ \E ids \in SUBSET SetIds : TakeOut(c, ids)
                                 \/ Teardown(c)
           \/ \E t \in Clients \cup {"hotplug"} : Announce(t)
           \/ \E t \in {"drainer", "hotplug"} : Release(t)
           \/ ShouldProbe \/ Probe \/ Decide \/ \E o \in SetIds : Reconnect(o)
           \/ Reopen \/ Restart \/ NoteReconnectFailure \/ Swap \/ Retire \/ ProbeDone
  BY <1>1, <1>5 DEF vars, table, Bus, Plug, Unplug, Die, Create, OpenRadio, Recheck, Reserve, TakeOut,
                    Teardown, Announce, Release, ShouldProbe, Probe, Decide, Reconnect, Reopen, Restart,
                    NoteReconnectFailure, Swap, Retire, ProbeDone
<1>6. QED
  BY <1>2, <1>4, <1>5, NextCases

\* A runtime that is not about to be stopped changes only by dying, or by the
\* thread that is building it.
LEMMA StreamsStay ==
  ASSUME IInv, [Next]_vars, NEW q \in Runtimes, Referenced(q), ~Doomed(q),
         \A t \in Threads : Private(t) /\ loc[t] = q =>
                            t \in Clients /\ ~(Recheck(t) \/ Start(t))
  PROVE  rts'[q] = rts[q] \/ Die(q)
<1> USE ThreadNames
<1>0. TypeOK /\ rts \in [Runtimes -> RuntimeRecords]
  BY DEF IInv, TypeOK, WorldOK
<1>1. CASE UNCHANGED rts
  BY <1>1
<1>2. ASSUME NEW r, r # q, NEW x, rts' = [rts EXCEPT ![r] = x] PROVE rts'[q] = rts[q]
  BY <1>0, <1>2
<1>3. ASSUME NEW t \in Threads, pc[t] \in Building \cup Reviving \cup Stopping,
             t \in Clients => Recheck(t) \/ Start(t)
      PROVE  loc[t] # q
  BY <1>3 DEF Private, Doomed
<1>4. ASSUME NEW r \in Runtimes, Die(r) PROVE rts'[q] = rts[q] \/ Die(q)
  BY <1>2, <1>4 DEF Die
<1>5. CASE Reopen \/ \E c \in Clients : OpenRadio(c)
  BY <1>1, <1>2, <1>5 DEF Reopen, OpenRadio, Fresh, Unused
<1>6. ASSUME NEW c \in Clients, Recheck(c) \/ Start(c) PROVE rts'[q] = rts[q]
  <2>1. loc[c] # q
    BY <1>3, <1>6 DEF Recheck, Start, Building
  <2>2. QED
    BY <1>1, <1>2, <1>6, <2>1 DEF Recheck, Start, Stop
<1>7. ASSUME NEW c \in Clients, Teardown(c) PROVE rts'[q] = rts[q]
  BY <1>2, <1>7 DEF Teardown, Stop, Doomed
<1>8. ASSUME NEW t \in {"drainer", "hotplug"}, Release(t) PROVE rts'[q] = rts[q]
  <2>1. loc[t] # q
    BY <1>3, <1>8 DEF Release, Stopping
  <2>2. QED
    BY <1>2, <1>8, <2>1 DEF Release, Stop
<1>9. CASE Restart \/ Retire
  <2>1. loc["hotplug"] # q
    BY <1>3, <1>9 DEF Restart, Retire, Stopping, Reviving
  <2>2. QED
    BY <1>2, <1>9, <2>1 DEF Restart, Retire, Stop
<1>10. CASE Swap
  <2>1. loc["hotplug"] # q
    BY <1>3, <1>10 DEF Swap, Reviving
  <2>2. QED
    BY <1>1, <1>2, <1>10, <2>1 DEF Swap
<1>11. CASE \/ UNCHANGED vars \/ Bus
            \/ \E c \in Clients : \/ \E d \in Devices : Create(c, d)
                                  \/ Reserve(c) \/ Insert(c)
                                  \/ \E ids \in SUBSET SetIds : TakeOut(c, ids)
            \/ \E t \in Clients \cup {"hotplug"} : Announce(t)
            \/ Drain \/ ShouldProbe \/ Probe \/ Decide \/ NoteReconnectFailure \/ EarlyFault \/ ProbeDone
            \/ \E s \in SetIds : MarkAbsent(s) \/ Reconnect(s)
  BY <1>1, <1>11 DEF vars, world, Bus, Plug, Unplug, Create, Reserve, Insert, TakeOut, Announce, Drain,
                     ShouldProbe, Probe, Decide, NoteReconnectFailure, EarlyFault, ProbeDone,
                     MarkAbsent, Reconnect
<1>12. QED
  BY <1>4, <1>5, <1>6, <1>7, <1>8, <1>9, <1>10, <1>11, NextCases

\* How a set comes to run.
LEMMA RunsStay ==
  ASSUME IInv, [Next]_vars, NEW s \in SetIds, Running(s)'
  PROVE  \/ Running(s) /\ sets'[s].rt = sets[s].rt
         \/ \E c \in Clients : Insert(c) /\ arg[c] = s
         \/ Swap /\ arg["hotplug"] = s /\ Swaps(s)
<1> USE DEF Running
<1>0. sets \in [SetIds -> SetRecords] /\ TypeOK /\ IdsOK
  BY DEF IInv, TypeOK, TableOK
<1>1. CASE UNCHANGED sets
  BY <1>1
<1>2. ASSUME NEW t, NEW o \in SetIds, NEW back, MarkDeviceFault(t, o, back)
      PROVE  Running(s) /\ sets'[s].rt = sets[s].rt
  BY <1>0, <1>2 DEF MarkDeviceFault
<1>3. CASE Drain
  <2>1. Head(faultq) \in SetIds
    BY <1>0, <1>3 DEF Drain, TypeOK, WorldOK
  <2>2. QED
    BY <1>2, <1>3, <2>1 DEF Drain
<1>4. CASE EarlyFault \/ \E o \in SetIds : MarkAbsent(o)
  BY <1>0, <1>2, <1>4 DEF EarlyFault, MarkAbsent, IdsOK
<1>5. ASSUME NEW c \in Clients, NEW ids \in SUBSET SetIds, TakeOut(c, ids)
      PROVE  Running(s) /\ sets'[s].rt = sets[s].rt
  BY <1>5 DEF TakeOut, NoSet
<1>6. CASE NoteReconnectFailure
  BY <1>0, <1>1, <1>6 DEF NoteReconnectFailure, Failed, IdsOK
<1>7. CASE Swap
  BY <1>0, <1>1, <1>7 DEF Swap
<1>8. ASSUME NEW c \in Clients, Insert(c)
      PROVE  (Running(s) /\ sets'[s].rt = sets[s].rt) \/ arg[c] = s
  BY <1>0, <1>8 DEF Insert
<1>9. CASE \/ UNCHANGED vars \/ Bus \/ \E r \in Runtimes : Die(r)
           \/ \E c \in Clients : \/ \E d \in Devices : Create(c, d)
                                 \/ OpenRadio(c) \/ Recheck(c) \/ Reserve(c) \/ Start(c) \/ Teardown(c)
           \/ \E t \in Clients \cup {"hotplug"} : Announce(t)
           \/ \E t \in {"drainer", "hotplug"} : Release(t)
           \/ ShouldProbe \/ Probe \/ Decide \/ \E o \in SetIds : Reconnect(o)
           \/ Reopen \/ Restart \/ Retire \/ ProbeDone
  BY <1>1, <1>9 DEF vars, table, Bus, Plug, Unplug, Die, Create, OpenRadio, Recheck, Reserve, Start,
                    Teardown, Announce, Release, ShouldProbe, Probe, Decide, Reconnect, Reopen,
                    Restart, Retire, ProbeDone
<1>10. QED
  BY <1>3, <1>4, <1>5, <1>6, <1>7, <1>8, <1>9, NextCases

\* A reconnect that caught the fault of its new stream goes on to mark it.
LEMMA CatchStays ==
  ASSUME IInv, [Next]_vars, pc["hotplug"] \in {"retireDead", "early"}
  PROVE  \/ EarlyFault
         \/ pc'["hotplug"] \in {"retireDead", "early"} /\ arg'["hotplug"] = arg["hotplug"]
<1> USE ThreadNames
<1>0. TypeOK /\ pc \in [Threads -> ClientSteps \cup HotplugSteps]
  BY DEF IInv, TypeOK, ThreadsOK
<1>1. ASSUME NEW t \in Threads, t # "hotplug", StepOf(t) PROVE UNCHANGED <<pc["hotplug"], arg["hotplug"]>>
  BY <1>1 DEF StepOf
<1>2. CASE UNCHANGED vars \/ Bus \/ \E r \in Runtimes : Die(r)
  BY <1>2 DEF vars, locals, Bus, Plug, Unplug, Die
<1>3. CASE \E c \in Clients : \/ \E d \in Devices : Create(c, d)
                              \/ OpenRadio(c) \/ Recheck(c) \/ Reserve(c) \/ Start(c) \/ Insert(c)
                              \/ \E ids \in SUBSET SetIds : TakeOut(c, ids)
                              \/ Teardown(c)
  BY <1>0, <1>1, <1>3, ClientsStep
<1>4. CASE \E c \in Clients : Announce(c)
  BY <1>0, <1>1, <1>4, WorkersStep
<1>5. CASE Drain \/ Release("drainer")
  BY <1>0, <1>1, <1>5, WorkersStep DEF Drain
<1>6. CASE Retire
  BY <1>0, <1>6 DEF Retire, Goto
<1>7. CASE \/ Announce("hotplug") \/ Release("hotplug") \/ ShouldProbe \/ Probe \/ Decide
           \/ Reopen \/ Restart \/ NoteReconnectFailure \/ Swap \/ ProbeDone
           \/ \E s \in SetIds : MarkAbsent(s) \/ Reconnect(s)
  BY <1>7 DEF Announce, Release, ShouldProbe, Probe, Decide, Reopen, Restart, NoteReconnectFailure, Swap,
              ProbeDone, MarkAbsent, Reconnect
<1>8. QED
  BY <1>2, <1>3, <1>4, <1>5, <1>6, <1>7, NextCases

\* How a client comes to insert its set.
LEMMA InsertsStay ==
  ASSUME IInv, [Next]_vars, NEW c \in Clients, pc'[c] = "insert"
  PROVE  Start(c) \/ (pc[c] = "insert" /\ UNCHANGED <<arg[c], loc[c]>>)
<1> USE ThreadNames
<1>0. TypeOK /\ pc \in [Threads -> ClientSteps \cup HotplugSteps]
  BY DEF IInv, TypeOK, ThreadsOK
<1>1. ASSUME NEW t \in Threads, t # c, StepOf(t) PROVE UNCHANGED <<pc[c], arg[c], loc[c]>>
  BY <1>1 DEF StepOf
<1>2. CASE UNCHANGED vars \/ Bus \/ \E r \in Runtimes : Die(r)
  BY <1>2 DEF vars, locals, Bus, Plug, Unplug, Die
<1>3. ASSUME NEW o \in Clients,
             \/ \E d \in Devices : Create(o, d)
             \/ OpenRadio(o) \/ Recheck(o) \/ Reserve(o) \/ Start(o) \/ Insert(o) \/ Teardown(o)
             \/ \E ids \in SUBSET SetIds : TakeOut(o, ids)
      PROVE  Start(c) \/ UNCHANGED <<pc[c], arg[c], loc[c]>>
  <2>1. CASE o # c
    BY <1>0, <1>1, <1>3, <2>1, ClientsStep
  <2>2. CASE o = c
    BY <1>0, <1>3, <2>2 DEF Create, OpenRadio, Recheck, Reserve, Insert, Teardown, TakeOut, Goto, Return
  <2>3. QED
    BY <2>1, <2>2
<1>4. ASSUME NEW t \in Clients \cup {"hotplug"}, Announce(t)
      PROVE  UNCHANGED <<pc[c], arg[c], loc[c]>>
  <2>1. CASE t = c
    BY <1>0, <1>4, <2>1 DEF Announce, Return
  <2>2. CASE t # c
    BY <1>0, <1>1, <1>4, <2>2, WorkersStep DEF Threads
  <2>3. QED
    BY <2>1, <2>2
<1>5. CASE Drain \/ EarlyFault \/ \E s \in SetIds : MarkAbsent(s)
  BY <1>0, <1>1, <1>5, WorkersStep DEF Drain, EarlyFault, MarkAbsent
<1>6. CASE \E t \in {"drainer", "hotplug"} : Release(t)
  BY <1>0, <1>1, <1>6, WorkersStep
<1>7. CASE \/ ShouldProbe \/ Probe \/ Decide \/ ProbeDone \/ \E s \in SetIds : Reconnect(s)
           \/ Reopen \/ Restart \/ NoteReconnectFailure \/ Swap \/ Retire
  BY <1>0, <1>1, <1>7, ProberStep
<1>8. QED
  BY <1>2, <1>3, <1>4, <1>5, <1>6, <1>7, NextCases

\* A fault is never lost on its way: the drainer takes it from the queue to
\* the set, or to pending_faults while the set is being created, and Insert
\* takes it from there.
LEMMA FaultsStayKnown == ASSUME IInv, [Next]_vars PROVE FaultsKnown'
<1> USE ThreadNames
<1>0. TypeOK /\ IdsOK /\ TableWhole /\ Ownership /\ RuntimesOK /\ FaultsKnown
  BY DEF IInv
<1>1. ASSUME NEW c \in Clients, pc'[c] = "insert", rts'[loc'[c]].phase = "dead", NEW s, s = arg'[c]
      PROVE  Queued(s)' \/ s \in pending'
  <2>1. ~Start(c)
    <3>1. SUFFICES ASSUME Start(c) PROVE FALSE
      OBVIOUS
    <3>2. loc[c] \in Runtimes /\ rts \in [Runtimes -> RuntimeRecords] /\ pc \in [Threads -> ClientSteps \cup HotplugSteps]
      BY <1>0, <3>1 DEF Start, Ownership, Building, TypeOK, WorldOK, ThreadsOK
    <3>3. QED
      BY <1>1, <3>1, <3>2 DEF Start, Return
  <2>2. pc[c] = "insert" /\ UNCHANGED <<arg[c], loc[c]>> /\ arg[c] = s
    BY <1>1, <2>1, InsertsStay
  <2>3. /\ s \in creating /\ s \in SetIds /\ ~Live(s)
        /\ \A o \in Clients : pc[o] \in Reserved /\ arg[o] = s => o = c
    BY <1>0, <2>2 DEF IdsOK, Reserved, TypeOK, TableOK
  <2>4. /\ loc[c] \in Runtimes /\ Private(c) /\ rts[loc[c]].ds = s /\ rts[loc[c]].gate = "direct"
    BY <1>0, <2>2, Alone DEF RuntimesOK, BuiltOK, Building, Private
  <2>5. rts'[loc[c]] = rts[loc[c]] \/ Die(loc[c])
    <3>1. \A t \in Threads : (Private(t) /\ t # c) => loc[t] # loc[c]
      BY <2>4, Alone
    <3>2. ~(Recheck(c) \/ Start(c))
      BY <2>1, <2>2 DEF Recheck
    <3>3. Referenced(loc[c]) /\ ~Doomed(loc[c])
      <4>1. \A o \in Threads : loc[c] \notin todo[o]
        BY <1>0, <2>4 DEF Ownership
      <4>2. QED
        BY <2>2, <2>4, <4>1, Alone DEF Referenced, Doomed, Stopping
    <3>4. QED
      BY <2>4, <3>1, <3>2, <3>3, StreamsStay
  <2>6. CASE Die(loc[c])
    BY <2>4, <2>6, DeathReported
  <2>7. CASE rts[loc[c]].phase = "dead"
    <3>1. CASE Queued(s)
      <4>1. CASE Drain /\ s = Head(faultq)
        BY <2>2, <2>3, <4>1 DEF Drain, MarkDeviceFault, Kept
      <4>2. QED
        BY <2>2, <2>3, <3>1, <4>1, QueueStays
    <3>2. CASE s \in pending
      <4>1. ASSUME NEW o \in Clients, arg[o] = s, Start(o) \/ Insert(o) PROVE FALSE
        <5>1. o = c
          BY <2>3, <4>1 DEF Start, Insert, Reserved
        <5>2. pc'[c] = "announce"
          BY <1>0, <2>1, <4>1, <5>1 DEF Insert, Goto, TypeOK, ThreadsOK
        <5>3. QED
          BY <1>1, <5>2
      <4>2. QED
        BY <2>2, <3>2, <4>1, PendingStays
    <3>3. QED
      BY <1>0, <2>2, <2>7, <3>1, <3>2 DEF FaultsKnown
  <2>8. QED
    BY <1>1, <2>2, <2>5, <2>6, <2>7
<1>2. ASSUME NEW s \in SetIds, Running(s)', rts'[sets'[s].rt].phase \in {"dead", "stopped"}
      PROVE  Queued(s)' \/ (pc'["hotplug"] \in {"retireDead", "early"} /\ arg'["hotplug"] = s)
  <2>1. CASE Running(s) /\ sets'[s].rt = sets[s].rt
    <3> DEFINE q == sets[s].rt
    <3>1. /\ Live(s) /\ q \in Runtimes /\ ~Doomed(q) /\ Referenced(q)
          /\ \A t \in Threads : Private(t) => loc[t] # q
      BY <1>0, <2>1, Shown, Alone DEF Running, Live, Ownership, Referenced
    <3>2. rts'[q] = rts[q] \/ Die(q)
      BY <3>1, StreamsStay
    <3>3. CASE Die(q)
      <4>1. rts[q].ds = s /\ rts[q].gate # "pending"
        BY <1>0, <3>1, <3>3 DEF Die, RuntimesOK, ShownOK
      <4>2. QED
        BY <3>1, <3>3, <4>1, DeathReported
    <3>4. CASE rts[q].phase \in {"dead", "stopped"}
      <4>1. ASSUME NEW t, NEW back, MarkDeviceFault(t, s, back) PROVE FALSE
        <5>1. sets'[s].status = "Error"
          BY <1>0, <3>1, <4>1 DEF MarkDeviceFault, TypeOK, TableOK
        <5>2. QED
          BY <1>2, <5>1 DEF Running
      <4>2. CASE Queued(s)
        BY <4>1, <4>2, QueueStays DEF Drain
      <4>3. CASE pc["hotplug"] \in {"retireDead", "early"} /\ arg["hotplug"] = s
        BY <4>1, <4>3, CatchStays DEF EarlyFault
      <4>4. QED
        BY <1>0, <2>1, <3>4, <4>2, <4>3 DEF FaultsKnown, DeadStreamIsKnown, Queued
    <3>5. QED
      BY <1>2, <2>1, <3>2, <3>3, <3>4
  <2>2. ASSUME NEW c \in Clients, Insert(c), arg[c] = s PROVE Queued(s)'
    <3>1. /\ pc[c] = "insert" /\ UNCHANGED <<rts, faultq>> /\ loc[c] \in Runtimes
          /\ rts[loc[c]].phase \in {"streaming", "dead"}
      BY <1>0, <2>2 DEF Insert, world, RuntimesOK, BuiltOK, Building, Ownership
    <3>2. sets'[s].rt = loc[c] /\ s \notin pending
      BY <1>0, <1>2, <2>2 DEF Insert, Running, TypeOK, TableOK
    <3>3. QED
      BY <1>0, <1>2, <2>2, <3>1, <3>2 DEF FaultsKnown, Queued
  <2>3. CASE Swap /\ arg["hotplug"] = s /\ Swaps(s)
    <3> DEFINE new == loc["hotplug"]
    <3>1. /\ pc["hotplug"] = "swap" /\ new \in Runtimes
          /\ rts \in [Runtimes -> RuntimeRecords] /\ sets \in [SetIds -> SetRecords]
          /\ pc \in [Threads -> ClientSteps \cup HotplugSteps]
      BY <1>0, <2>3 DEF Swap, Ownership, Reviving, TypeOK, WorldOK, TableOK, ThreadsOK
    <3>2. /\ sets'[s].rt = new /\ rts'[new].phase = rts[new].phase /\ arg' = arg
          /\ pc'["hotplug"] = IF Caught(new) THEN "retireDead" ELSE "retire"
      BY <2>3, <3>1 DEF Swap, Goto
    <3>3. rts[new].phase = "dead" => Caught(new)
      BY <1>0, <3>1 DEF RuntimesOK, NewOK, Caught
    <3>4. rts[new].phase \in {"streaming", "dead"}
      BY <1>0, <3>1 DEF RuntimesOK, NewOK
    <3>5. QED
      BY <1>2, <2>3, <3>2, <3>3, <3>4
  <2>4. QED
    BY <1>2, <2>1, <2>2, <2>3, RunsStay
<1>3. QED
  <2>1. \A c \in Clients : pc'[c] = "insert" /\ rts'[loc'[c]].phase = "dead" =>
                             (Queued(arg[c]) \/ arg[c] \in pending)'
    BY <1>1 DEF Queued
  <2>2. DeadStreamIsKnown'
    BY <1>2 DEF DeadStreamIsKnown, Queued
  <2>3. QED
    BY <2>1, <2>2 DEF FaultsKnown

----------------------------------------------------------------------------
(* The announcements.                                                      *)

\* No set enters or leaves the table.
TableSame == \A s \in SetIds : Live(s)' = Live(s)

\* A change stays somebody's to tell.
LEMMA ChangesStayAnnounced == ASSUME IInv, [Next]_vars PROVE Announced'
<1> USE ThreadNames
<1>0. /\ TypeOK /\ IdsOK /\ Announced /\ pc \in [Threads -> ClientSteps \cup HotplugSteps]
      /\ dirty \subseteq SetIds
  BY DEF IInv, TypeOK, TableOK, ThreadsOK
<1>1. ASSUME UNCHANGED <<dirty, pc, arg>>, TableSame PROVE Announced'
  BY <1>0, <1>1 DEF Announced, ClientTells, WorkerTells, TableSame
<1>2. CASE UNCHANGED vars \/ Bus \/ \E r \in Runtimes : Die(r)
  BY <1>1, <1>2 DEF vars, table, locals, Bus, Plug, Unplug, Die, TableSame, Live
\* A client in the middle of a create tells nothing yet, and takes no set away.
<1>3. ASSUME NEW c \in Clients,
             (\E d \in Devices : Create(c, d)) \/ OpenRadio(c) \/ Recheck(c) \/ Reserve(c) \/ Start(c)
      PROVE  Announced'
  <2>1. StepOf(c)
    BY <1>0, <1>3, ClientsStep
  <2>2. UNCHANGED <<dirty, sets>> /\ pc[c] \notin {"announce", "teardown"}
    BY <1>3 DEF Create, OpenRadio, Recheck, Reserve, Start, table
  <2>3. QED
    BY <1>0, <2>1, <2>2 DEF Announced, ClientTells, WorkerTells, StepOf, Live
<1>4. ASSUME NEW c \in Clients, Insert(c) \/ \E ids \in SUBSET SetIds : TakeOut(c, ids)
      PROVE  Announced'
  <2>1. pc'[c] \in {"announce", "teardown"}
    BY <1>0, <1>4 DEF Insert, TakeOut, Goto
  <2>2. QED
    BY <2>1 DEF Announced, ClientTells
<1>5. ASSUME NEW c \in Clients, Announce(c) PROVE Announced'
  BY <1>5 DEF Announce, Told, Announced
<1>6. ASSUME NEW c \in Clients, Teardown(c) PROVE Announced'
  <2>1. CASE dirty' = {}
    BY <2>1 DEF Announced
  <2>2. CASE UNCHANGED <<pc, dirty>>
    <3>1. pc'[c] = "teardown"
      BY <1>6, <2>2 DEF Teardown
    <3>2. QED
      BY <3>1 DEF Announced, ClientTells
  <2>3. QED
    BY <1>6, <2>1, <2>2 DEF Teardown, Told
\* A worker that is done told of its set; the others' sets are theirs to tell.
<1>7. ASSUME NEW t \in {"drainer", "hotplug"}, StepOf(t), TableSame, dirty' = dirty \ {arg[t]}
      PROVE  Announced'
  BY <1>0, <1>7 DEF Announced, ClientTells, WorkerTells, StepOf, TableSame
<1>8. CASE (\E t \in {"drainer", "hotplug"} : Release(t)) \/ Announce("hotplug")
  <2>1. ASSUME NEW t \in {"drainer", "hotplug"}, Release(t) \/ Announce(t) PROVE Announced'
    BY <1>0, <1>7, <2>1, WorkersStep DEF Release, Announce, Told, table, TableSame, Live
  <2>2. QED
    BY <1>8, <2>1
\* A worker that was not to tell of a set takes one up, or goes on.
<1>9. ASSUME NEW t \in {"drainer", "hotplug"}, NEW s \in SetIds, StepOf(t), TableSame, Live(s),
             dirty' = dirty \cup {s}, arg'[t] = s, pc'[t] \in Telling,
             pc[t] \in Telling => arg[t] = s
      PROVE  Announced'
  BY <1>0, <1>9 DEF Announced, ClientTells, WorkerTells, StepOf, TableSame
<1>10. ASSUME NEW t \in {"drainer", "hotplug"}, StepOf(t), TableSame, dirty' = dirty,
              pc[t] \notin Telling
                \/ (pc'[t] \in Telling /\ arg'[t] = arg[t])
                \/ (arg[t] \in SetIds /\ ~Live(arg[t]))
       PROVE  Announced'
  BY <1>0, <1>10 DEF Announced, ClientTells, WorkerTells, StepOf, TableSame
<1>11. ASSUME NEW t \in {"drainer", "hotplug"}, NEW s \in SetIds, NEW back,
              MarkDeviceFault(t, s, back), UNCHANGED <<want, todo>>,
              pc[t] \in Telling => arg[t] = s
       PROVE  Announced'
  <2>1. StepOf(t) /\ sets \in [SetIds -> SetRecords] /\ arg \in [Threads -> SetIds \cup {None}]
    BY <1>0, <1>11, WorkersStep DEF TypeOK, TableOK, ThreadsOK
  <2>2. CASE Live(s)
    <3>1. dirty' = dirty \cup {s} /\ arg'[t] = s /\ pc'[t] \in Telling
      BY <1>0, <1>11, <2>1, <2>2 DEF MarkDeviceFault, Goto, Telling
    <3>2. TableSame
      BY <1>11, <2>1, <2>2 DEF MarkDeviceFault, TableSame, Live
    <3>3. QED
      BY <1>9, <1>11, <2>1, <2>2, <3>1, <3>2
  <2>3. CASE ~Live(s)
    <3>1. UNCHANGED <<sets, dirty>>
      BY <1>11, <2>3 DEF MarkDeviceFault
    <3>2. QED
      BY <1>10, <1>11, <2>1, <2>3, <3>1 DEF TableSame, Live
  <2>4. QED
    BY <2>2, <2>3
<1>12. CASE Drain
  <2>1. Head(faultq) \in SetIds /\ pc["drainer"] \notin Telling
    BY <1>0, <1>12 DEF Drain, TypeOK, WorldOK, Telling
  <2>2. QED
    BY <1>11, <1>12, <2>1 DEF Drain
<1>13. CASE EarlyFault \/ \E s \in SetIds : MarkAbsent(s)
  BY <1>0, <1>11, <1>13 DEF EarlyFault, MarkAbsent, Telling, IdsOK
<1>14. CASE \/ ShouldProbe \/ Probe \/ Decide \/ ProbeDone \/ \E s \in SetIds : Reconnect(s)
            \/ Reopen \/ Restart
  <2>1. pc["hotplug"] \notin Telling /\ UNCHANGED <<sets, dirty>>
    BY <1>14 DEF ShouldProbe, Probe, Decide, ProbeDone, Reconnect, Reopen, Restart, table, Telling
  <2>2. QED
    BY <1>0, <1>10, <1>14, <2>1, ProberStep DEF TableSame, Live
<1>15. CASE Retire
  <2>1. UNCHANGED <<sets, dirty>> /\ (pc["hotplug"] \notin Telling
          \/ (pc'["hotplug"] \in Telling /\ arg'["hotplug"] = arg["hotplug"]))
    BY <1>0, <1>15 DEF Retire, Goto, table, Telling
  <2>2. QED
    BY <1>0, <1>10, <1>15, <2>1, ProberStep DEF TableSame, Live
<1>16. CASE NoteReconnectFailure \/ Swap
  <2> DEFINE s == arg["hotplug"]
  <2>1. /\ s \in SetIds /\ StepOf("hotplug") /\ pc["hotplug"] \notin Telling
        /\ sets \in [SetIds -> SetRecords] /\ arg' = arg
    BY <1>0, <1>16, ProberStep DEF NoteReconnectFailure, Swap, IdsOK, Telling, TypeOK, TableOK
  <2>2. TableSame
    BY <1>16, <2>1 DEF NoteReconnectFailure, Swap, Swaps, Failed, TableSame, Live
  <2>3. CASE dirty' = dirty
    BY <1>10, <2>1, <2>2, <2>3
  <2>4. CASE dirty' # dirty
    <3>1. dirty' = dirty \cup {s} /\ Live(s) /\ pc'["hotplug"] \in Telling
      BY <1>0, <1>16, <2>4 DEF NoteReconnectFailure, Swap, Swaps, Failed, Live, Goto, Telling
    <3>2. QED
      BY <1>9, <2>1, <2>2, <3>1
  <2>5. QED
    BY <2>3, <2>4
<1>17. QED
  BY <1>2, <1>3, <1>4, <1>5, <1>6, <1>8, <1>12, <1>13, <1>14, <1>15, <1>16, NextCases

----------------------------------------------------------------------------
(* The theorems.                                                           *)

LEMMA InitIInv == ASSUME Init PROVE IInv
<1> USE SetsAssumption, ThreadNames DEF Init, None, NoSet, Stopped
<1>1. TypeOK
  <2>1. NoSet \in SetRecords
    BY SetMade
  <2>2. Stopped \in RuntimeRecords
    BY DEF RuntimeRecords
  <2>3. TableOK
    BY <2>1 DEF TableOK
  <2>4. WorldOK
    BY <2>2 DEF WorldOK
  <2>5. ThreadsOK
    BY DEF ThreadsOK, ClientSteps, HotplugSteps, DrainerSteps
  <2>6. QED
    BY <2>3, <2>4, <2>5 DEF TypeOK
<1>2. IdsCounted
  <2>1. Reservations = {}
    BY DEF Reservations, Reserving
  <2>2. QED
    BY <2>1, FS_EmptySet DEF IdsCounted
<1>3. IdsOK
  BY DEF IdsOK, Live, Reserved, SetIds
<1>4. TableWhole
  BY DEF TableWhole, Live
<1>5. Ownership
  BY DEF Ownership, Private, Building, Reviving, Stopping, Doomed, Running
<1>6. RuntimesOK
  BY DEF RuntimesOK, StreamNamed, BuiltOK, NewOK, ShownOK, Building, Live
<1>7. NoRadioLeftOpen
  BY DEF NoRadioLeftOpen
<1>8. Exclusion
  BY DEF Exclusion, OneHandle, Sure, OneSetPerRadio, Live
<1>9. FaultsKnown
  BY DEF FaultsKnown, DeadStreamIsKnown, Running
<1>10. Announced
  BY DEF Announced
<1>11. QED
  BY <1>1, <1>2, <1>3, <1>4, <1>5, <1>6, <1>7, <1>8, <1>9, <1>10 DEF IInv

LEMMA NextIInv == ASSUME IInv, [Next]_vars PROVE IInv'
<1>1. TypeOK'
  BY ThreadsTyped, TableTyped, WorldTyped DEF TypeOK
<1>2. QED
  BY <1>1, IdsStayCounted, IdsStayUnique, TableStaysWhole, OwnershipStays, RuntimesStayOK,
     RadiosStayKnown, ExclusionStays, FaultsStayKnown, ChangesStayAnnounced DEF IInv

\* The engine's device table, for any number of radios, clients and sets: the
\* inductive invariant holds in every state.
THEOREM SetsInvariant == Spec => []IInv
<1>1. Init => IInv
  BY InitIInv
<1>2. IInv /\ [Next]_vars => IInv'
  BY NextIInv
<1>3. QED
  BY <1>1, <1>2, PTL DEF Spec

\* The table, the runtimes and the threads keep their types, and a fault is
\* kept in pending_faults only while its set is being created.
THEOREM SetsTypeCorrect == Spec => []TypeOK
<1>1. IInv => TypeOK
  BY DEF IInv
<1>2. QED
  BY <1>1, SetsInvariant, PTL

\* create, remove, reconnect and a fault, in any order: what is open belongs to
\* a set of the table or to the thread that will insert it or stop it.
THEOREM NoRadioIsLeftOpen == Spec => []NoRadioLeftOpen
<1>1. IInv => NoRadioLeftOpen
  BY DEF IInv
<1>2. QED
  BY <1>1, SetsInvariant, PTL

\* refuse_reopen, checked before and after the radio is opened, keeps two sets
\* from sharing a radio that can be opened only once.
THEOREM RadiosAreNotShared == Spec => []OneSetPerRadio
<1>1. IInv => OneSetPerRadio
  BY DEF IInv, Exclusion
<1>2. QED
  BY <1>1, SetsInvariant, PTL

\* The fatal handlers, pending_faults and the reconnect's gate lose no fault: a
\* set shown as running whose stream is dead will be marked.
THEOREM DeadStreamsAreKnown == Spec => []DeadStreamIsKnown
<1>1. IInv => DeadStreamIsKnown
  BY DEF IInv, FaultsKnown
<1>2. QED
  BY <1>1, SetsInvariant, PTL

\* Every change of the table is announced to clients after it happened.
THEOREM ChangesAreAnnounced == Spec => []ChangesAnnounced
<1>1. IInv => ChangesAnnounced
  BY ThreadNames DEF IInv, Announced, ClientTells, WorkerTells, Telling, ChangesAnnounced
<1>2. QED
  BY <1>1, SetsInvariant, PTL

\* A set enters the table by the create that reserved its id and in no other
\* way: a reconnect under way does not bring a removed set back.
THEOREM RemovedSetsStayRemoved == Spec => RemovedStaysRemoved
<1> DEFINE Back == \A s \in SetIds : ~Live(s) /\ Live(s)' => s \in creating
<1>1. IInv /\ [Next]_vars => [Back]_vars
  <2>1. SUFFICES ASSUME IInv, [Next]_vars PROVE Back
    OBVIOUS
  <2>2. CASE TableKept
    BY <2>2 DEF TableKept
  <2>3. ASSUME NEW c \in Clients, Insert(c) PROVE Back
    <3>1. arg[c] \in creating /\ sets \in [SetIds -> SetRecords]
      BY <2>1, <2>3 DEF Insert, IInv, IdsOK, Reserved, TypeOK, TableOK
    <3>2. QED
      BY <2>3, <3>1 DEF Insert, Live
  <2>4. QED
    BY <2>1, <2>2, <2>3, TableStays
<1>2. QED
  BY <1>1, SetsInvariant, PTL DEF Spec, RemovedStaysRemoved
=============================================================================
