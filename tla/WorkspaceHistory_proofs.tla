----------------------- MODULE WorkspaceHistory_proofs -----------------------
(***************************************************************************)
(* Proofs about WorkspaceHistory, for every value of its constants.        *)
(***************************************************************************)
EXTENDS WorkspaceHistory, FiniteSetTheorems, WellFoundedInduction, TLAPS

----------------------------------------------------------------------------
(* Greatest and least elements.                                            *)

\* A set of natural numbers has a least element.
LEMMA LeastNat ==
  ASSUME NEW S, S \subseteq Nat, S # {}
  PROVE  \E m \in S : \A k \in S : m <= k
<1> DEFINE R == OpToRel(<, Nat)
<1>1. PICK x \in S : \A y \in S : ~(<<y, x>> \in R)
  <2>1. IsWellFoundedOn(R, Nat)
    BY NatLessThanWellFounded
  <2> HIDE DEF R
  <2>2. QED
    BY <2>1, WFMin
<1>2. ASSUME NEW y \in S, y < x PROVE FALSE
  <2>1. <<y, x>> \in Nat \X Nat
    BY <1>1
  <2>2. <<y, x>> \in R
    BY <1>2, <2>1 DEF OpToRel
  <2>3. QED
    BY <1>1, <2>2
<1>3. \A k \in S : x <= k
  BY <1>2
<1>4. QED
  BY <1>1, <1>3

LEMMA MinIn ==
  ASSUME NEW S, S \subseteq Nat, S # {}
  PROVE  Min(S) \in S /\ \A k \in S : Min(S) <= k
<1>1. \E m \in S : \A k \in S : m =< k
  BY LeastNat
<1>2. QED
  BY <1>1 DEF Min

LEMMA MaxIn ==
  ASSUME NEW b \in Nat, NEW S, S \subseteq 0..b, S # {}
  PROVE  Max(S) \in S /\ \A k \in S : Max(S) >= k
<1> DEFINE T == {b - k : k \in S}
<1>1. T \subseteq Nat /\ T # {}
  OBVIOUS
<1>2. PICK m \in T : \A k \in T : m <= k
  BY <1>1, LeastNat
<1>3. PICK x \in S : m = b - x
  BY <1>2
<1>4. \A y \in S : x >= y
  BY <1>2, <1>3
<1>5. \E z \in S : \A y \in S : z >= y
  BY <1>4
<1>6. QED
  BY <1>5 DEF Max

----------------------------------------------------------------------------
(* Rows, as functions of their numbers.                                    *)

Rows == [snap: Snapshots, state: States \cup {NoState}, node: Nodes \cup {Null},
         fresh: BOOLEAN]

IsRows(h) == /\ h = [q \in DOMAIN h |-> h[q]]
             /\ DOMAIN h \subseteq 1..MaxSeq
             /\ \A q \in DOMAIN h : h[q] \in Rows

\* One stretch of at most Depth rows.
Stretch(D) == \A p, q \in D : q < p + Depth /\ p..q \subseteq D

\* What state_at finds is settings, or that there are none.
LEMMA StateAtType ==
  ASSUME HistoryAssumption, NEW h, IsRows(h), NEW seq \in Nat
  PROVE  StateAt(h, seq) \in States \cup {NoState}
<1> DEFINE behind == {q \in Told(h) : q <= seq}
<1>1. Told(h) \subseteq 0..MaxSeq /\ Told(h) \subseteq Nat /\ Told(h) \subseteq DOMAIN h
  BY DEF Told, IsRows
<1>2. behind \subseteq 0..MaxSeq
  BY <1>1
<1>3. behind # {} => Max(behind) \in DOMAIN h
  <2> HIDE DEF behind
  <2>1. behind # {} => Max(behind) \in behind
    BY <1>2, MaxIn DEF HistoryAssumption
  <2>2. QED
    BY <2>1, <1>1 DEF behind
<1>4. Told(h) # {} => Min(Told(h)) \in DOMAIN h
  BY <1>1, MinIn
<1>5. \A q \in DOMAIN h : h[q].state \in States \cup {NoState}
  BY DEF IsRows, Rows
<1>6. CASE behind # {}
  <2>1. StateAt(h, seq) = h[Max(behind)].state
    BY <1>6 DEF StateAt
  <2> HIDE DEF behind
  <2>2. QED
    BY <1>3, <1>5, <1>6, <2>1
<1>7. CASE behind = {} /\ Told(h) # {}
  <2>1. StateAt(h, seq) = h[Min(Told(h))].state
    BY <1>7 DEF StateAt
  <2>2. QED
    BY <1>4, <1>5, <1>7, <2>1
<1>8. CASE behind = {} /\ Told(h) = {}
  <2>1. StateAt(h, seq) = NoState
    BY <1>8 DEF StateAt
  <2>2. QED
    BY <2>1
<1>9. QED
  BY <1>6, <1>7, <1>8

\* Recording a step behind the head of a stretch leaves a stretch that ends
\* with the new row.
LEMMA PushedRows ==
  ASSUME HistoryAssumption, NEW h, IsRows(h), Stretch(DOMAIN h),
         Head \in DOMAIN h, Head < MaxSeq, NEW row \in Rows
  PROVE  /\ IsRows(Pushed(h, row)) /\ Stretch(DOMAIN Pushed(h, row))
         /\ Head + 1 \in DOMAIN Pushed(h, row) /\ Pushed(h, row)[Head + 1] = row
<1> DEFINE seq == Head + 1
           D == {p \in DOMAIN h : p < seq /\ p + Depth > seq} \cup {seq}
<1>1. Pushed(h, row) = [q \in D |-> IF q = seq THEN row ELSE h[q]]
  BY DEF Pushed
<1>2. /\ DOMAIN h \subseteq 1..MaxSeq /\ Head \in Nat /\ MaxSeq \in Nat
      /\ Depth \in Nat /\ Depth >= 1 /\ Head >= 1
  BY DEF IsRows, HistoryAssumption
<1>3. D \subseteq 1..MaxSeq
  BY <1>2
<1>4. \A q \in D : q # seq => q \in DOMAIN h
  OBVIOUS
<1>5. IsRows(Pushed(h, row))
  <2>1. \A q \in D : (IF q = seq THEN row ELSE h[q]) \in Rows
    BY <1>4 DEF IsRows
  <2> HIDE DEF D
  <2>2. QED
    BY <1>1, <1>3, <2>1 DEF IsRows
<1>6. Stretch(D)
  <2> SUFFICES ASSUME NEW p \in D, NEW q \in D
               PROVE  q < p + Depth /\ p..q \subseteq D
    BY DEF Stretch
  <2>1. p \in Nat /\ q \in Nat /\ p <= seq /\ q <= seq /\ p + Depth > seq
    BY <1>2, <1>3
  <2>2. ASSUME NEW r \in p..q PROVE r \in D
    <3>1. CASE r = seq
      BY <3>1
    <3>2. CASE r # seq
      <4>1. r <= Head /\ p <= r /\ r \in Nat /\ p <= Head
        BY <1>2, <2>1, <3>2
      <4>2. p \in DOMAIN h
        BY <1>2, <2>1, <4>1
      <4>3. p..Head \subseteq DOMAIN h
        BY <4>2 DEF Stretch
      <4>4. r \in p..Head
        BY <1>2, <2>1, <4>1
      <4>5. r \in DOMAIN h /\ r < seq /\ r + Depth > seq
        BY <1>2, <2>1, <4>1, <4>3, <4>4
      <4>6. QED
        BY <4>5
    <3>3. QED
      BY <3>1, <3>2
  <2>3. QED
    BY <1>2, <2>1, <2>2
<1>7. seq \in D /\ DOMAIN Pushed(h, row) = D
  BY <1>1
<1>8. Pushed(h, row)[seq] = row
  BY <1>1, <1>7
<1>9. QED
  BY <1>5, <1>6, <1>7, <1>8

----------------------------------------------------------------------------
(* The inductive invariant.                                                *)

\* Before the first step there is at most the row that precedes it, and no
\* client has read a revision that is yet to come.
Consistent ==
  /\ at = 0 => DOMAIN rows \subseteq {1}
  /\ rows = [q \in DOMAIN rows |-> rows[q]]
  /\ \A c \in Clients : base[c].rev <= revision

HInv == TypeOK /\ HistoryWhole /\ RevisionNamesSnapshot /\ Consistent

LEMMA Whole ==
  ASSUME HistoryAssumption, HInv
  PROVE  /\ IsRows(rows) /\ Stretch(DOMAIN rows)
         /\ IsRows(Based) /\ Stretch(DOMAIN Based)
         /\ Head \in DOMAIN Based /\ Head \in Nat /\ Based[Head].snap = snapshot
<1>1. IsRows(rows) /\ Stretch(DOMAIN rows)
  BY DEF HInv, TypeOK, HistoryWhole, Consistent, IsRows, Stretch, Rows
<1>2. CASE at = 0
  <2>1. Based = [q \in {1} |-> Row(snapshot, NoState, Null)] /\ Head = 1
    BY <1>2 DEF Based, Head
  <2>2. Row(snapshot, NoState, Null) \in Rows
    BY DEF Row, Rows, HInv, TypeOK
  <2>3. IsRows(Based)
    BY <2>1, <2>2 DEF IsRows, HistoryAssumption
  <2>4. Stretch(DOMAIN Based)
    BY <2>1 DEF Stretch, HistoryAssumption
  <2>5. Based[Head].snap = snapshot
    BY <2>1 DEF Row
  <2>6. QED
    BY <1>1, <2>1, <2>3, <2>4, <2>5
<1>3. CASE at # 0
  <2>1. Based = rows /\ Head = at
    BY <1>3 DEF Based, Head
  <2>2. at \in DOMAIN rows /\ rows[at].snap = snapshot /\ at \in Nat
    BY <1>3 DEF HInv, HistoryWhole, TypeOK, HistoryAssumption
  <2>3. QED
    BY <1>1, <2>1, <2>2
<1>4. QED
  BY <1>2, <1>3

\* The settings the radios and the store make up together.
LEMMA LiveStateType ==
  ASSUME HInv, NEW radios \in [Nodes -> Values \cup {Off}]
  PROVE  LiveState(snapshot, radios) \in States
BY DEF HInv, TypeOK, LiveState, Bound, States

\* Filling in the settings of the head keeps the rows and their arrangements.
LEMMA FilledRows ==
  ASSUME NEW h, IsRows(h), Head \in DOMAIN h, NEW before \in States
  PROVE  /\ IsRows(Filled(h, before)) /\ DOMAIN Filled(h, before) = DOMAIN h
         /\ \A q \in DOMAIN h : Filled(h, before)[q].snap = h[q].snap
<1>1. CASE h[Head].state # NoState
  BY <1>1 DEF Filled
<1>2. CASE h[Head].state = NoState
  <2>1. Filled(h, before) = [h EXCEPT ![Head].state = before]
    BY <1>2 DEF Filled
  <2>2. h[Head] \in Rows /\ [h[Head] EXCEPT !.state = before] \in Rows
        /\ [h[Head] EXCEPT !.state = before].snap = h[Head].snap
    BY DEF IsRows, Rows
  <2>3. QED
    BY <2>1, <2>2 DEF IsRows
<1>3. QED
  BY <1>1, <1>2

----------------------------------------------------------------------------
(* Every step preserves the invariant: first the steps that leave the      *)
(* history and the revision alone.                                         *)

LEMMA Elsewhere ==
  ASSUME HInv, UNCHANGED <<snapshot, revision, rows, at, base>>, TypeOK'
  PROVE  HInv'
BY DEF HInv, HistoryWhole, RevisionNamesSnapshot, Consistent

LEMMA CloseStep ==
  ASSUME HistoryAssumption, HInv, NEW n \in Nodes, Close(n)
  PROVE  HInv'
<1>1. UNCHANGED <<store, unrestored, saver, base, troubles>>
      /\ live' = [live EXCEPT ![n] = Off] /\ event' = TRUE /\ scanning' = scanning \ {n}
  BY DEF Close
<1>2. TypeOK'
  BY <1>1 DEF HInv, TypeOK, store
<1>3. QED
  BY <1>1, <1>2, Elsewhere DEF store

\* A scan starts, carries its radio along and stops.
LEMMA ScanStep ==
  ASSUME HistoryAssumption, HInv, NEW n \in Nodes, NEW v \in Values,
         StartScan(n) \/ SweepTo(n, v) \/ StopScan(n, v)
  PROVE  HInv'
<1>1. /\ UNCHANGED <<store, unrestored, saver, base>> /\ event' = TRUE
      /\ live' = live \/ live' = [live EXCEPT ![n] = v]
      /\ scanning' = scanning \/ scanning' = scanning \cup {n} \/ scanning' = scanning \ {n}
      /\ troubles' = troubles \/ (troubles < MaxTroubles /\ troubles' = troubles + 1)
  BY DEF StartScan, SweepTo, StopScan
<1>2. troubles' \in 0..MaxTroubles
  BY <1>1 DEF HInv, TypeOK, HistoryAssumption
<1>3. scanning' \subseteq Nodes /\ live' \in [Nodes -> Values \cup {Off}]
  BY <1>1 DEF HInv, TypeOK
<1>4. TypeOK'
  BY <1>1, <1>2, <1>3 DEF HInv, TypeOK, store
<1>5. QED
  BY <1>1, <1>4, Elsewhere DEF store

LEMMA CrashStep ==
  ASSUME HistoryAssumption, HInv, Crash
  PROVE  HInv'
<1>1. /\ UNCHANGED <<store, base>> /\ live' = [n \in Nodes |-> Off] /\ unrestored' = {}
      /\ scanning' = {}
      /\ event' = FALSE /\ saver' = Asleep /\ troubles < MaxTroubles
      /\ troubles' = troubles + 1
  BY DEF Crash
<1>2. Asleep \in [armed: BOOLEAN, idle: 0..AutosaveIdle, hard: 0..AutosaveMax, failed: BOOLEAN]
  BY DEF Asleep, HistoryAssumption
<1>3. troubles' \in 0..MaxTroubles
  BY <1>1 DEF HInv, TypeOK, HistoryAssumption
<1>4. TypeOK'
  BY <1>1, <1>2, <1>3 DEF HInv, TypeOK, store
<1>5. QED
  BY <1>1, <1>4, Elsewhere DEF store

\* What a radio is left with after it was restored.
LEMMA RestoredType ==
  ASSUME HistoryAssumption, HInv, NEW state \in States, NEW refused, NEW n \in Nodes
  PROVE  Restored(n, state, refused) \in Values
BY DEF HInv, TypeOK, States, Restored, HistoryAssumption

\* The radios that refuse are counted.
LEMMA RefusedCounted ==
  ASSUME HistoryAssumption, HInv, NEW refused \in SUBSET Nodes,
         troubles + Cardinality(refused) <= MaxTroubles
  PROVE  troubles + Cardinality(refused) \in 0..MaxTroubles
<1>1. IsFiniteSet(refused)
  BY FS_Subset DEF HistoryAssumption
<1>2. Cardinality(refused) \in Nat
  BY <1>1, FS_CardinalityType
<1>3. QED
  BY <1>2 DEF HInv, TypeOK, HistoryAssumption

LEMMA ApplyStep ==
  ASSUME HistoryAssumption, HInv, NEW refused \in SUBSET Nodes, Apply(refused)
  PROVE  HInv'
<1> DEFINE opened == {n \in snapshot.held : live[n] = Off}
<1>1. /\ UNCHANGED <<store, scanning, saver, base>> /\ event' = TRUE
      /\ troubles' = troubles + Cardinality(refused)
      /\ troubles + Cardinality(refused) <= MaxTroubles
      /\ unrestored' = (unrestored \ opened) \cup refused
      /\ live' = [n \in Nodes |-> IF n \in opened THEN Restored(n, stored, refused) ELSE live[n]]
  BY DEF Apply
<1>2. \A n \in Nodes : Restored(n, stored, refused) \in Values
  BY RestoredType DEF HInv, TypeOK
<1> HIDE DEF opened
<1>3. live' \in [Nodes -> Values \cup {Off}]
  BY <1>1, <1>2 DEF HInv, TypeOK
<1>4. unrestored' \subseteq Nodes
  BY <1>1 DEF HInv, TypeOK
<1>5. troubles' \in 0..MaxTroubles
  BY <1>1, RefusedCounted
<1>6. TypeOK'
  BY <1>1, <1>3, <1>4, <1>5 DEF HInv, TypeOK, store
<1>7. QED
  BY <1>1, <1>6, Elsewhere DEF store

LEMMA NoticeStep ==
  ASSUME HistoryAssumption, HInv, Notice
  PROVE  HInv'
<1>1. /\ UNCHANGED <<store, live, unrestored, scanning, base, troubles>> /\ event' = FALSE
      /\ saver' = [armed |-> TRUE, idle |-> AutosaveIdle, hard |-> HardDeadline, failed |-> FALSE]
  BY DEF Notice
<1>2. HardDeadline \in 0..AutosaveMax /\ AutosaveIdle \in 0..AutosaveIdle
  BY DEF HInv, TypeOK, HardDeadline, HistoryAssumption
<1>3. TypeOK'
  BY <1>1, <1>2 DEF HInv, TypeOK, store
<1>4. QED
  BY <1>1, <1>3, Elsewhere DEF store

LEMMA SaveStep ==
  ASSUME HistoryAssumption, HInv, Save
  PROVE  HInv'
<1>1. /\ UNCHANGED <<snapshot, revision, rows, at, live, unrestored, scanning, event, base, troubles>>
      /\ stored' = Saved /\ saver' = Asleep
  BY DEF Save
<1>2. Asleep \in [armed: BOOLEAN, idle: 0..AutosaveIdle, hard: 0..AutosaveMax, failed: BOOLEAN]
  BY DEF Asleep, HistoryAssumption
<1>3. LiveState(snapshot, live) \in States
  BY LiveStateType DEF HInv, TypeOK
<1>4. Saved \in States
  BY <1>3 DEF Saved, States
<1>5. TypeOK'
  BY <1>1, <1>2, <1>4 DEF HInv, TypeOK
<1>6. QED
  BY <1>1, <1>5, Elsewhere

LEMMA SaveFailsStep ==
  ASSUME HistoryAssumption, HInv, SaveFails
  PROVE  HInv'
<1>1. /\ UNCHANGED <<store, live, unrestored, scanning, event, base>>
      /\ saver' = [Asleep EXCEPT !.failed = TRUE]
      /\ troubles < MaxTroubles /\ troubles' = troubles + 1
  BY DEF SaveFails
<1>2. saver' \in [armed: BOOLEAN, idle: 0..AutosaveIdle, hard: 0..AutosaveMax, failed: BOOLEAN]
  <2>1. saver' = [armed |-> FALSE, idle |-> 0, hard |-> 0, failed |-> TRUE]
    BY <1>1 DEF Asleep
  <2>2. QED
    BY <2>1 DEF HistoryAssumption
<1>3. troubles' \in 0..MaxTroubles
  BY <1>1 DEF HInv, TypeOK, HistoryAssumption
<1>4. TypeOK'
  BY <1>1, <1>2, <1>3 DEF HInv, TypeOK, store
<1>5. QED
  BY <1>1, <1>4, Elsewhere DEF store

\* A second that passes makes rows old; it changes nothing else about them.
LEMMA TickStep ==
  ASSUME HistoryAssumption, HInv, Tick
  PROVE  HInv'
<1>1. /\ UNCHANGED <<snapshot, revision, at, stored, live, unrestored, scanning, event, base, troubles>>
      /\ rows' = [q \in DOMAIN rows |-> [rows[q] EXCEPT !.fresh = FALSE]]
      /\ saver' = [saver EXCEPT !.idle = Less(@), !.hard = Less(@)]
  BY DEF Tick
<1>2. DOMAIN rows' = DOMAIN rows
      /\ \A q \in DOMAIN rows : rows'[q] = [rows[q] EXCEPT !.fresh = FALSE]
  BY <1>1
<1>3. \A q \in DOMAIN rows : rows'[q] \in Rows /\ rows'[q].snap = rows[q].snap
  <2>1. \A q \in DOMAIN rows : rows[q] \in Rows
    BY DEF HInv, TypeOK, Rows
  <2>2. ASSUME NEW r \in Rows
        PROVE  [r EXCEPT !.fresh = FALSE] \in Rows /\ [r EXCEPT !.fresh = FALSE].snap = r.snap
    BY DEF Rows
  <2>3. QED
    BY <1>2, <2>1, <2>2
<1>4. saver' \in [armed: BOOLEAN, idle: 0..AutosaveIdle, hard: 0..AutosaveMax, failed: BOOLEAN]
  <2>1. \A m \in Nat : \A k \in 0..m : Less(k) \in 0..m
    BY DEF Less
  <2>2. saver \in [armed: BOOLEAN, idle: 0..AutosaveIdle, hard: 0..AutosaveMax, failed: BOOLEAN]
    BY DEF HInv, TypeOK
  <2>3. Less(saver.idle) \in 0..AutosaveIdle /\ Less(saver.hard) \in 0..AutosaveMax
    BY <2>1, <2>2 DEF HistoryAssumption
  <2>4. QED
    BY <1>1, <2>2, <2>3
<1>5. TypeOK'
  BY <1>1, <1>2, <1>3, <1>4 DEF HInv, TypeOK, Rows
<1>6. HistoryWhole'
  BY <1>1, <1>2, <1>3 DEF HInv, HistoryWhole
<1>7. RevisionNamesSnapshot'
  BY <1>1 DEF HInv, RevisionNamesSnapshot
<1>8. Consistent'
  BY <1>1, <1>2 DEF HInv, Consistent
<1>9. QED
  BY <1>5, <1>6, <1>7, <1>8 DEF HInv

----------------------------------------------------------------------------
(* The clients and the history.                                            *)

LEMMA ReadStep ==
  ASSUME HistoryAssumption, HInv, NEW c \in Clients, Read(c)
  PROVE  HInv'
<1>1. /\ UNCHANGED <<store, server, troubles>>
      /\ base' = [base EXCEPT ![c] = [rev |-> revision, snap |-> snapshot]]
  BY DEF Read
<1>2. TypeOK'
  BY <1>1 DEF HInv, TypeOK, store, server
<1>3. HistoryWhole'
  BY <1>1 DEF HInv, HistoryWhole, store
<1>4. RevisionNamesSnapshot' /\ Consistent'
  BY <1>1 DEF HInv, RevisionNamesSnapshot, Consistent, store, TypeOK
<1>5. QED
  BY <1>2, <1>3, <1>4 DEF HInv

LEMMA RenameStep ==
  ASSUME HistoryAssumption, HInv, NEW c \in Clients, Rename(c)
  PROVE  HInv'
<1>1. /\ UNCHANGED <<snapshot, rows, at, stored, server, troubles>>
      /\ base[c].rev = revision /\ revision < MaxRevision /\ revision' = revision + 1
      /\ base' = [base EXCEPT ![c].rev = revision']
  BY DEF Rename, UpToDate
<1>2. revision' \in 1..MaxRevision
  BY <1>1 DEF HInv, TypeOK, HistoryAssumption
<1>3. base' \in [Clients -> [rev: 1..MaxRevision, snap: Snapshots]]
  BY <1>1, <1>2 DEF HInv, TypeOK
<1>4. TypeOK'
  BY <1>1, <1>2, <1>3 DEF HInv, TypeOK, server
<1>5. HistoryWhole'
  BY <1>1 DEF HInv, HistoryWhole
<1>6. base[c].snap = snapshot /\ base'[c].snap = base[c].snap
      /\ \A d \in Clients \ {c} : base'[d] = base[d] /\ base[d].rev <= revision
                                  /\ base[d].rev \in Nat
  BY <1>1 DEF HInv, TypeOK, RevisionNamesSnapshot, Consistent
<1>7. revision \in Nat /\ base'[c].rev = revision + 1
  BY <1>1 DEF HInv, TypeOK
<1>8. RevisionNamesSnapshot'
  BY <1>1, <1>6, <1>7 DEF RevisionNamesSnapshot
<1>9. Consistent'
  BY <1>1, <1>6, <1>7 DEF Consistent, HInv
<1>10. QED
  BY <1>4, <1>5, <1>8, <1>9 DEF HInv

\* After a step is recorded the workspace stands at the new row.
LEMMA RecordStep ==
  ASSUME HistoryAssumption, HInv, NEW h, IsRows(h), Stretch(DOMAIN h), Head \in DOMAIN h,
         NEW row \in Rows, Record(h, row), row.snap = snapshot'
  PROVE  /\ IsRows(rows') /\ at' \in 1..MaxSeq
         /\ HistoryWhole' /\ (at' = 0 => DOMAIN rows' \subseteq {1})
<1>1. Head < MaxSeq /\ rows' = Pushed(h, row) /\ at' = Head + 1
  BY DEF Record
<1>2. /\ IsRows(rows') /\ Stretch(DOMAIN rows')
      /\ at' \in DOMAIN rows' /\ rows'[at'] = row
  BY <1>1, PushedRows
<1>3. at' \in 1..MaxSeq
  BY <1>2 DEF IsRows
<1>4. HistoryWhole'
  BY <1>2 DEF HistoryWhole, Stretch
<1>5. QED
  BY <1>2, <1>3, <1>4

LEMMA EditStep ==
  ASSUME HistoryAssumption, HInv, NEW c \in Clients, NEW snap \in Snapshots, Edit(c, snap)
  PROVE  HInv'
<1>1. /\ base[c].rev = revision /\ revision < MaxRevision /\ revision' = revision + 1
      /\ snapshot' = snap /\ stored' = Forgotten(snap)
      /\ base' = [base EXCEPT ![c] = [rev |-> revision', snap |-> snap]]
      /\ UNCHANGED <<server, troubles>>
  BY DEF Edit, UpToDate
<1>2. /\ IsRows(Based) /\ Stretch(DOMAIN Based) /\ Head \in DOMAIN Based
      /\ Based[Head].snap = snapshot
  BY Whole
<1>3. IsRows(rows') /\ at' \in 0..MaxSeq /\ HistoryWhole' /\ (at' = 0 => DOMAIN rows' \subseteq {1})
  <2>1. CASE Based[Head].snap = snap
    <3>1. rows' = Based /\ at' = at
      BY <2>1 DEF Edit
    <3>2. at # 0 => Head = at
      BY DEF Head
    <3>3. at = 0 => DOMAIN Based \subseteq {1}
      BY DEF Based
    <3>4. HistoryWhole'
      BY <1>1, <1>2, <2>1, <3>1, <3>2 DEF HistoryWhole, Stretch
    <3>5. QED
      BY <1>2, <3>1, <3>3, <3>4 DEF HInv, TypeOK
  <2>2. CASE Based[Head].snap # snap
    <3>1. Record(Based, Row(snap, NoState, Null))
      BY <2>2 DEF Edit
    <3>2. Row(snap, NoState, Null) \in Rows /\ Row(snap, NoState, Null).snap = snapshot'
      BY <1>1 DEF Row, Rows
    <3>3. IsRows(rows') /\ at' \in 1..MaxSeq /\ HistoryWhole'
          /\ (at' = 0 => DOMAIN rows' \subseteq {1})
      BY <1>2, <3>1, <3>2, RecordStep
    <3>4. QED
      BY <3>3 DEF HistoryAssumption
  <2>3. QED
    BY <2>1, <2>2
<1>4. Forgotten(snap) \in States
  BY DEF Forgotten, States, HInv, TypeOK
<1>5. revision' \in 1..MaxRevision
  BY <1>1 DEF HInv, TypeOK, HistoryAssumption
<1>6. base' \in [Clients -> [rev: 1..MaxRevision, snap: Snapshots]]
  BY <1>1, <1>5 DEF HInv, TypeOK
<1>7. TypeOK'
  BY <1>1, <1>3, <1>4, <1>5, <1>6 DEF HInv, TypeOK, server, IsRows, Rows
<1>8. \A d \in Clients \ {c} : base'[d] = base[d] /\ base[d].rev <= revision
                               /\ base[d].rev \in Nat
  BY <1>1 DEF HInv, TypeOK, Consistent
<1>9. revision \in Nat /\ base'[c] = [rev |-> revision', snap |-> snap]
  BY <1>1 DEF HInv, TypeOK
<1>10. RevisionNamesSnapshot'
  BY <1>1, <1>8, <1>9 DEF RevisionNamesSnapshot
<1>11. Consistent'
  BY <1>1, <1>3, <1>8, <1>9 DEF Consistent, IsRows
<1>12. QED
  BY <1>3, <1>7, <1>10, <1>11 DEF HInv

\* A dial leaves the arrangement as it is, whatever becomes of its row.
LEMMA DialStep ==
  ASSUME HistoryAssumption, HInv, NEW n \in Nodes, NEW v \in Values, Dial(n, v)
  PROVE  HInv'
<1> DEFINE radios == [live EXCEPT ![n] = v]
           after == LiveState(snapshot, radios)
           before == LiveState(snapshot, live)
           h == Filled(Based, before)
<1>1. /\ live' = radios /\ event' = TRUE
      /\ UNCHANGED <<snapshot, revision, stored, unrestored, scanning, saver, base, troubles>>
  BY DEF Dial
<1>2. radios \in [Nodes -> Values \cup {Off}] /\ live \in [Nodes -> Values \cup {Off}]
  BY DEF HInv, TypeOK
<1>3. after \in States /\ before \in States
  BY <1>2, LiveStateType
<1> HIDE DEF radios, after, before
<1>4. /\ IsRows(Based) /\ Stretch(DOMAIN Based) /\ Head \in DOMAIN Based
      /\ Based[Head].snap = snapshot
  BY Whole
<1>5. /\ IsRows(h) /\ DOMAIN h = DOMAIN Based
      /\ \A q \in DOMAIN Based : h[q].snap = Based[q].snap
  BY <1>3, <1>4, FilledRows
<1>6. at # 0 => Head = at
  BY DEF Head
<1>7. at = 0 => DOMAIN Based = {1} /\ Head = 1
  BY DEF Based, Head
<1>8. \/ UNCHANGED <<rows, at>>
      \/ rows' = h /\ UNCHANGED at
      \/ rows' = [h EXCEPT ![Head].state = after, ![Head].fresh = TRUE] /\ UNCHANGED at
      \/ Record(h, Row(snapshot, after, n))
  BY DEF Dial, radios, after, before
<1> HIDE DEF h
<1>9. IsRows(rows') /\ at' \in 0..MaxSeq /\ HistoryWhole' /\ (at' = 0 => DOMAIN rows' \subseteq {1})
  <2>1. CASE UNCHANGED <<rows, at>>
    BY <1>1, <2>1, Whole DEF HInv, TypeOK, HistoryWhole, Consistent, IsRows
  <2>2. CASE rows' = h /\ UNCHANGED at
    <3>1. HistoryWhole'
      BY <1>1, <1>4, <1>5, <1>6, <2>2 DEF HistoryWhole, Stretch
    <3>2. QED
      BY <1>5, <1>7, <2>2, <3>1 DEF HInv, TypeOK
  <2>3. CASE rows' = [h EXCEPT ![Head].state = after, ![Head].fresh = TRUE] /\ UNCHANGED at
    <3>1. h[Head] \in Rows
      BY <1>4, <1>5 DEF IsRows
    <3> DEFINE r == [h[Head] EXCEPT !.state = after, !.fresh = TRUE]
    <3>2. r \in Rows /\ r.snap = h[Head].snap
      BY <1>3, <3>1 DEF Rows
    <3>3. rows' = [h EXCEPT ![Head] = r]
      BY <1>4, <1>5, <2>3 DEF IsRows
    <3> HIDE DEF r
    <3>4. /\ DOMAIN rows' = DOMAIN h /\ rows'[Head] = r
          /\ \A q \in DOMAIN h : q # Head => rows'[q] = h[q]
          /\ rows' = [q \in DOMAIN rows' |-> rows'[q]]
      BY <1>4, <1>5, <3>3 DEF IsRows
    <3>5. IsRows(rows')
      BY <1>5, <3>2, <3>4 DEF IsRows
    <3>6. HistoryWhole'
      BY <1>1, <1>4, <1>5, <1>6, <2>3, <3>2, <3>4 DEF HistoryWhole, Stretch
    <3>7. QED
      BY <1>5, <1>7, <2>3, <3>4, <3>5, <3>6 DEF HInv, TypeOK
  <2>4. CASE Record(h, Row(snapshot, after, n))
    <3>1. Row(snapshot, after, n) \in Rows /\ Row(snapshot, after, n).snap = snapshot'
      BY <1>1, <1>3 DEF Row, Rows, HInv, TypeOK
    <3>2. /\ IsRows(rows') /\ at' \in 1..MaxSeq /\ HistoryWhole'
          /\ (at' = 0 => DOMAIN rows' \subseteq {1})
      BY <1>4, <1>5, <2>4, <3>1, RecordStep
    <3>3. QED
      BY <3>2 DEF HistoryAssumption
  <2>5. QED
    BY <1>8, <2>1, <2>2, <2>3, <2>4
<1>10. TypeOK'
  BY <1>1, <1>2, <1>9 DEF HInv, TypeOK, IsRows, Rows
<1>11. RevisionNamesSnapshot' /\ Consistent'
  BY <1>1, <1>9 DEF HInv, RevisionNamesSnapshot, Consistent, IsRows
<1>12. QED
  BY <1>9, <1>10, <1>11 DEF HInv

----------------------------------------------------------------------------
(* Undo and redo: the nearest row on either side is the next one.          *)

LEMMA UndoReaches ==
  ASSUME HistoryAssumption, HInv, Behind # {}
  PROVE  Max(Behind) \in DOMAIN rows
<1>1. Behind \subseteq 0..MaxSeq /\ Behind \subseteq DOMAIN rows
  BY DEF Behind, HInv, TypeOK
<1>2. QED
  BY <1>1, MaxIn DEF HistoryAssumption

LEMMA RedoReaches ==
  ASSUME HistoryAssumption, HInv, Ahead # {}
  PROVE  Min(Ahead) \in DOMAIN rows
<1>1. Ahead \subseteq Nat /\ Ahead \subseteq DOMAIN rows
  BY DEF Ahead, HInv, TypeOK
<1>2. QED
  BY <1>1, MinIn

LEMMA StepToStep ==
  ASSUME HistoryAssumption, HInv, NEW seq \in DOMAIN rows, NEW refused \in SUBSET Nodes,
         StepTo(seq, refused)
  PROVE  HInv'
<1> DEFINE snap == rows[seq].snap
           reaching == StateAt(rows, seq)
           moves == reaching # NoState /\ reaching # StateAt(rows, at)
           saved == IF moves THEN reaching ELSE stored
           reconciles == snap.held # snapshot.held \/ snap.free # snapshot.free
<1>1. /\ revision < MaxRevision /\ revision' = revision + 1
      /\ troubles + Cardinality(refused) <= MaxTroubles
      /\ troubles' = troubles + Cardinality(refused)
      /\ stored' = saved /\ snapshot' = snap /\ at' = seq
      /\ unrestored' = IF reconciles THEN refused ELSE unrestored
      /\ scanning' = IF reconciles THEN {} ELSE scanning
      /\ event' = (event \/ reconciles \/ moves)
      /\ UNCHANGED <<rows, saver, base>>
  BY DEF StepTo, Stepped
<1>2. live' = [n \in Nodes |->
                IF reconciles
                THEN IF n \in snap.held THEN Restored(n, saved, refused) ELSE Off
                ELSE IF moves /\ n \in Bound(snap, live)
                     THEN Restored(n, saved, refused) ELSE live[n]]
  BY DEF StepTo
<1>3. IsRows(rows) /\ Stretch(DOMAIN rows)
  BY Whole
<1>4. seq \in Nat /\ seq \in 1..MaxSeq /\ snap \in Snapshots
  BY <1>3 DEF IsRows, Rows
<1>5. reaching \in States \cup {NoState}
  BY <1>3, <1>4, StateAtType
<1> HIDE DEF snap, reaching
<1>6. saved \in States
  BY <1>5 DEF HInv, TypeOK
<1> HIDE DEF saved, moves, reconciles
<1>7. \A n \in Nodes : Restored(n, saved, refused) \in Values
  BY <1>6, RestoredType
<1>8. live' \in [Nodes -> Values \cup {Off}]
  BY <1>2, <1>7 DEF HInv, TypeOK
<1>9. unrestored' \subseteq Nodes /\ scanning' \subseteq Nodes
  BY <1>1 DEF HInv, TypeOK
<1>10. event' \in BOOLEAN
  BY <1>1
<1>11. troubles' \in 0..MaxTroubles
  BY <1>1, RefusedCounted
<1>12. revision' \in 1..MaxRevision /\ revision \in Nat
  BY <1>1 DEF HInv, TypeOK, HistoryAssumption
<1>13. at' \in 0..MaxSeq
  BY <1>1, <1>4
<1>14. TypeOK'
  BY <1>1, <1>4, <1>6, <1>8, <1>9, <1>10, <1>11, <1>12, <1>13 DEF HInv, TypeOK
<1>15. HistoryWhole'
  BY <1>1 DEF HInv, HistoryWhole, snap
<1>16. \A c \in Clients : base[c].rev <= revision /\ base[c].rev \in Nat
  BY DEF HInv, TypeOK, Consistent
<1>17. RevisionNamesSnapshot'
  BY <1>1, <1>12, <1>16 DEF RevisionNamesSnapshot
<1>18. Consistent'
  BY <1>1, <1>4, <1>12, <1>16 DEF HInv, Consistent
<1>19. QED
  BY <1>14, <1>15, <1>17, <1>18 DEF HInv

----------------------------------------------------------------------------

LEMMA InitHInv ==
  ASSUME HistoryAssumption, Init
  PROVE  HInv
<1>1. Asleep \in [armed: BOOLEAN, idle: 0..AutosaveIdle, hard: 0..AutosaveMax, failed: BOOLEAN]
  BY DEF Asleep, HistoryAssumption
<1>2. 1 \in 1..MaxRevision /\ 0 \in 0..MaxSeq /\ 0 \in 0..MaxTroubles
  BY DEF HistoryAssumption
<1>3. DOMAIN rows = {} /\ rows = [q \in DOMAIN rows |-> rows[q]]
  BY DEF Init, NoRows
<1>4. live \in [Nodes -> Values \cup {Off}] /\ stored \in States
  BY DEF Init, States, HistoryAssumption
<1>5. TypeOK
  BY <1>1, <1>2, <1>3, <1>4 DEF Init, TypeOK, HistoryAssumption
<1>6. HistoryWhole /\ RevisionNamesSnapshot /\ Consistent
  BY <1>3 DEF Init, HistoryWhole, RevisionNamesSnapshot, Consistent
<1>7. QED
  BY <1>5, <1>6 DEF HInv

\* The invariant of the store: the rows are one stretch, the workspace stands
\* at a row with its arrangement, and revisions name arrangements.
THEOREM HistoryInvariant == Spec => []HInv
<1>1. Init => HInv
  BY InitHInv, HistoryAssumption
<1>2. HInv /\ [Next]_vars => HInv'
  <2> SUFFICES ASSUME HInv, [Next]_vars
               PROVE  HInv'
    OBVIOUS
  <2> USE HistoryAssumption
  <2>1. CASE \E c \in Clients : Read(c) \/ Rename(c) \/ \E snap \in Snapshots : Edit(c, snap)
    BY <2>1, ReadStep, RenameStep, EditStep
  <2>2. CASE Undo
    <3>1. PICK refused \in SUBSET Nodes : Behind # {} /\ StepTo(Max(Behind), refused)
      BY <2>2 DEF Undo
    <3>2. QED
      BY <3>1, UndoReaches, StepToStep
  <2>3. CASE Redo
    <3>1. PICK refused \in SUBSET Nodes : Ahead # {} /\ StepTo(Min(Ahead), refused)
      BY <2>3 DEF Redo
    <3>2. QED
      BY <3>1, RedoReaches, StepToStep
  <2>4. CASE \E refused \in SUBSET Nodes : Apply(refused)
    BY <2>4, ApplyStep
  <2>5. CASE \E n \in Nodes : \/ Close(n) \/ StartScan(n)
                            \/ \E v \in Values : Dial(n, v) \/ SweepTo(n, v) \/ StopScan(n, v)
    <3>1. Default \in Values
      BY DEF HistoryAssumption
    <3>2. QED
      BY <2>5, <3>1, CloseStep, DialStep, ScanStep
  <2>6. CASE Notice
    BY <2>6, NoticeStep
  <2>7. CASE Save \/ SaveFails
    BY <2>7, SaveStep, SaveFailsStep
  <2>8. CASE Tick
    BY <2>8, TickStep
  <2>9. CASE Crash
    BY <2>9, CrashStep
  <2>10. CASE UNCHANGED vars
    <3>1. UNCHANGED <<snapshot, revision, rows, at, base>> /\ TypeOK'
      BY <2>10 DEF HInv, TypeOK, vars, store, server
    <3>2. QED
      BY <3>1, Elsewhere
  <2>11. QED
    BY <2>1, <2>2, <2>3, <2>4, <2>5, <2>6, <2>7, <2>8, <2>9, <2>10 DEF Next
<1>3. QED
  BY <1>1, <1>2, PTL DEF Spec

\* Types, for every depth of the history and every set of nodes.
THEOREM HistoryTypeCorrect == Spec => []TypeOK
<1>1. HInv => TypeOK
  BY DEF HInv
<1>2. QED
  BY <1>1, HistoryInvariant, PTL

\* workspace_history never has a hole, is never deeper than the limit, and the
\* workspace always stands at a row that shows what it shows.
THEOREM HistoryStaysWhole == Spec => []HistoryWhole
<1>1. HInv => HistoryWhole
  BY DEF HInv
<1>2. QED
  BY <1>1, HistoryInvariant, PTL

\* The revision check of update_workspace loses no client's edit to another's.
THEOREM NoLostEdit == Spec => []RevisionNamesSnapshot
<1>1. HInv => RevisionNamesSnapshot
  BY DEF HInv
<1>2. QED
  BY <1>1, HistoryInvariant, PTL

----------------------------------------------------------------------------
(* What the rows say of the settings.                                      *)

\* The row from which state_at takes the settings of another, if there is one
\* at it or behind it.
Nearest(h, m, seq) == m \in Told(h) /\ m <= seq /\ \A k \in Told(h) : k <= seq => k <= m

\* Settings that are known in `a` are those of `b`.
Known(a, b) == \A n \in Nodes : a[n] \in {Unset, b[n]}

\* Up to a row, rows tell where the radios were seen.
Truth(h, view, last) ==
  \A q \in DOMAIN h : \A m \in Told(h) :
    q <= last /\ Nearest(h, m, q) => Known(h[m].state, view[q].state)

\* The row of a dial and the one before it have settings of their own.
Dials(h) ==
  \A q \in DOMAIN h : h[q].node # Null => {q - 1, q} \cap DOMAIN h \subseteq Told(h)

\* The workspace is seen at its row, and what is seen elsewhere is what was.
TInv ==
  /\ Dials(rows)
  /\ seen[Head] = Here
  /\ ~drifted /\ ~kept => Truth(rows, seen, MaxSeq)

LEMMA KnownOn ==
  ASSUME NEW a, NEW b, NEW c, Known(a, b), Known(b, c)
  PROVE  Known(a, c)
BY DEF Known

LEMMA NotMoved ==
  ASSUME NEW a, NEW b, ~Moved(a, b)
  PROVE  Known(a.state, b.state)
BY DEF Known, Moved

\* state_at finds the nearest row.
LEMMA StateAtNearest ==
  ASSUME HistoryAssumption, NEW h, IsRows(h), NEW seq \in Nat, NEW m, Nearest(h, m, seq)
  PROVE  StateAt(h, seq) = h[m].state
<1> DEFINE behind == {q \in Told(h) : q <= seq}
<1>1. behind \subseteq 0..MaxSeq /\ behind # {} /\ m \in behind /\ m \in Nat
  BY DEF Nearest, Told, IsRows
<1>2. StateAt(h, seq) = h[Max(behind)].state
  BY <1>1 DEF StateAt
<1>3. \A k \in behind : k <= m
  BY DEF Nearest
<1> HIDE DEF behind
<1>4. Max(behind) \in behind /\ \A k \in behind : Max(behind) >= k
  BY <1>1, MaxIn DEF HistoryAssumption
<1>5. Max(behind) <= m /\ m <= Max(behind)
  <2>1. Max(behind) <= m
    BY <1>3, <1>4, Zenon
  <2>2. Max(behind) >= m
    BY <1>1, <1>4, Zenon
  <2>3. Max(behind) \in 0..MaxSeq
    BY <1>1, <1>4
  <2>4. QED
    BY <1>1, <2>1, <2>2, <2>3 DEF HistoryAssumption
<1>6. Max(behind) = m
  <2>1. Max(behind) \in 0..MaxSeq
    BY <1>1, <1>4
  <2>2. QED
    BY <1>1, <1>5, <2>1 DEF HistoryAssumption
<1>7. QED
  BY <1>2, <1>6

LEMMA NearestExists ==
  ASSUME HistoryAssumption, NEW h, IsRows(h), NEW seq \in Nat, \E m \in Told(h) : m <= seq
  PROVE  \E m \in Told(h) : Nearest(h, m, seq)
<1> DEFINE behind == {q \in Told(h) : q <= seq}
<1>1. behind \subseteq 0..MaxSeq /\ behind # {}
  BY DEF Told, IsRows
<1>2. \A k \in Told(h) : k <= seq => k \in behind
  OBVIOUS
<1>3. \A k \in behind : k \in Told(h) /\ k <= seq
  OBVIOUS
<1> HIDE DEF behind
<1>4. Max(behind) \in behind /\ \A k \in behind : Max(behind) >= k
  BY <1>1, MaxIn DEF HistoryAssumption
<1>5. \A k \in behind : k <= Max(behind)
  BY <1>1, <1>4
<1>6. QED
  BY <1>2, <1>3, <1>4, <1>5 DEF Nearest

\* The first row says nothing, so it says nothing wrong.
LEMMA BasedTruth ==
  ASSUME HistoryAssumption, HInv, TInv
  PROVE  Dials(Based) /\ (~drifted /\ ~kept => Truth(Based, seen, MaxSeq))
<1>1. CASE at = 0
  <2>1. Based = [q \in {1} |-> Row(snapshot, NoState, Null)]
    BY <1>1 DEF Based
  <2>2. DOMAIN Based = {1} /\ Based[1].state = NoState /\ Based[1].node = Null
    BY <2>1 DEF Row
  <2>3. Told(Based) = {}
    BY <2>2 DEF Told
  <2>4. QED
    BY <2>2, <2>3 DEF Dials, Truth
<1>2. CASE at # 0
  BY <1>2 DEF Based, TInv
<1>3. QED
  BY <1>1, <1>2

\* Radios that keep what is known of them may be seen again at any row.
LEMMA TruthSeen ==
  ASSUME NEW h, NEW view, NEW last, Truth(h, view, last), NEW p, NEW x, NEW view2,
         Known(view[p].state, x.state),
         \A q \in DOMAIN h : view2[q] = IF q = p THEN x ELSE view[q]
  PROVE  Truth(h, view2, last)
<1> SUFFICES ASSUME NEW q \in DOMAIN h, NEW m \in Told(h), q <= last, Nearest(h, m, q)
             PROVE  Known(h[m].state, view2[q].state)
  BY DEF Truth
<1>1. Known(h[m].state, view[q].state)
  BY DEF Truth
<1>2. CASE q = p
  BY <1>1, <1>2, KnownOn
<1>3. CASE q # p
  BY <1>1, <1>3
<1>4. QED
  BY <1>2, <1>3

\* A row behind the head: the rows that are left borrow from where they did,
\* and the new row has settings of its own or keeps what was known.
LEMMA TruthPushed ==
  ASSUME HistoryAssumption, NEW h, IsRows(h), Head \in DOMAIN h, Head < MaxSeq,
         NEW row \in Rows, NEW view, NEW view2, Truth(h, view, Head),
         \A q \in DOMAIN Pushed(h, row) : q # Head + 1 => view2[q] = view[q],
         \/ row.state = NoState /\ Known(view[Head].state, view2[Head + 1].state)
         \/ row.state # NoState /\ view2[Head + 1].state = row.state
  PROVE  Truth(Pushed(h, row), view2, MaxSeq)
<1> DEFINE g == Pushed(h, row)
           seq == Head + 1
<1>1. /\ DOMAIN g = {p \in DOMAIN h : p < seq /\ p + Depth > seq} \cup {seq}
      /\ \A q \in DOMAIN g : g[q] = IF q = seq THEN row ELSE h[q]
  BY DEF Pushed
<1>2. Head \in Nat /\ seq \in Nat /\ Depth \in Nat /\ DOMAIN h \subseteq Nat
  BY DEF IsRows, HistoryAssumption
<1> HIDE DEF g
<1> SUFFICES ASSUME NEW q \in DOMAIN g, NEW m \in Told(g), Nearest(g, m, q)
             PROVE  Known(g[m].state, view2[q].state)
  BY DEF Truth, g
<1>3. m \in DOMAIN g /\ m <= q /\ q <= seq /\ q \in Nat /\ m \in Nat /\ g[m].state # NoState
  BY <1>1, <1>2 DEF Nearest, Told
<1>4. CASE m = seq
  <2>1. q = seq /\ g[m] = row /\ row.state # NoState
    BY <1>1, <1>2, <1>3, <1>4
  <2>2. view2[q].state = row.state
    BY <2>1
  <2>3. QED
    BY <2>1, <2>2 DEF Known
<1>5. CASE m # seq
  <2>1. m \in DOMAIN h /\ m < seq /\ m + Depth > seq /\ g[m] = h[m] /\ m \in Told(h)
    BY <1>1, <1>3, <1>5 DEF Told
  <2>2. ASSUME NEW k \in Told(h), k <= q, k <= Head, k > m
        PROVE  FALSE
    <3>1. k \in DOMAIN h /\ k < seq /\ k + Depth > seq /\ k # seq
      BY <1>2, <1>3, <2>1, <2>2 DEF Told
    <3>2. k \in Told(g)
      BY <1>1, <2>2, <3>1 DEF Told
    <3>3. QED
      BY <1>2, <1>3, <2>2, <3>1, <3>2 DEF Nearest
  <2>3. CASE q = seq
    <3>1. row.state = NoState
      <4>1. row.state # NoState => seq \in Told(g)
        BY <1>1 DEF Told
      <4>2. seq \notin Told(g)
        BY <1>2, <1>3, <1>5, <2>3 DEF Nearest
      <4>3. QED
        BY <4>1, <4>2
    <3>2. Nearest(h, m, Head)
      BY <1>2, <1>3, <2>1, <2>2, <2>3 DEF Nearest, Told
    <3>3. Known(h[m].state, view[Head].state)
      BY <1>2, <2>1, <3>2 DEF Truth
    <3>4. QED
      BY <2>1, <2>3, <3>1, <3>3, KnownOn
  <2>4. CASE q # seq
    <3>1. q \in DOMAIN h /\ q <= Head
      BY <1>1, <1>2, <1>3, <2>4
    <3>2. Nearest(h, m, q)
      BY <1>2, <1>3, <2>1, <2>2, <3>1 DEF Nearest, Told
    <3>3. Known(h[m].state, view[q].state) /\ view2[q] = view[q]
      BY <2>1, <2>4, <3>1, <3>2 DEF Truth, g
    <3>4. QED
      BY <2>1, <3>3
  <2>5. QED
    BY <2>3, <2>4
<1>6. QED
  BY <1>4, <1>5

LEMMA DialsPushed ==
  ASSUME HistoryAssumption, NEW h, IsRows(h), Head \in DOMAIN h, NEW row \in Rows, Dials(h),
         row.node = Null \/ (row.state # NoState /\ Head \in Told(h))
  PROVE  Dials(Pushed(h, row))
<1> DEFINE g == Pushed(h, row)
           seq == Head + 1
<1>1. /\ DOMAIN g = {p \in DOMAIN h : p < seq /\ p + Depth > seq} \cup {seq}
      /\ \A q \in DOMAIN g : g[q] = IF q = seq THEN row ELSE h[q]
  BY DEF Pushed
<1>2. Head \in Nat /\ seq \in Nat /\ Depth \in Nat /\ DOMAIN h \subseteq Nat
  BY DEF IsRows, HistoryAssumption
<1> HIDE DEF g
<1> SUFFICES ASSUME NEW q \in DOMAIN g, g[q].node # Null,
                    NEW p \in {q - 1, q} \cap DOMAIN g
             PROVE  p \in Told(g)
  BY DEF Dials, g
<1>3. CASE q = seq
  <2>1. row.state # NoState /\ Head \in Told(h)
    BY <1>1, <1>3
  <2>2. p = seq \/ p = Head
    BY <1>2, <1>3
  <2>3. QED
    BY <1>1, <1>2, <2>1, <2>2 DEF Told
<1>4. CASE q # seq
  <2>1. q \in DOMAIN h /\ q < seq /\ g[q] = h[q]
    BY <1>1, <1>4
  <2>2. p # seq /\ p \in DOMAIN h
    BY <1>1, <1>2, <2>1
  <2>3. p \in Told(h)
    BY <2>1, <2>2 DEF Dials
  <2>4. QED
    BY <1>1, <2>2, <2>3 DEF Told
<1>5. QED
  BY <1>3, <1>4

\* The row at the head gets the settings it is seen with, and the rows up to it
\* stay true.
LEMMA TruthTold ==
  ASSUME HistoryAssumption, NEW h, IsRows(h), Head \in DOMAIN h, NEW g, NEW view, NEW view2,
         Truth(h, view, MaxSeq), DOMAIN g = DOMAIN h,
         \A q \in DOMAIN h : q # Head => g[q] = h[q] /\ view2[q] = view[q],
         g[Head].state # NoState, Known(g[Head].state, view2[Head].state)
  PROVE  Truth(g, view2, Head)
<1>1. Head \in Nat /\ DOMAIN h \subseteq 1..MaxSeq /\ MaxSeq \in Nat
  BY DEF IsRows, HistoryAssumption
<1> SUFFICES ASSUME NEW q \in DOMAIN g, NEW m \in Told(g), q <= Head, Nearest(g, m, q)
             PROVE  Known(g[m].state, view2[q].state)
  BY DEF Truth
<1>2. q \in Nat /\ m \in Nat /\ m \in DOMAIN h /\ m <= q /\ Head \in Told(g)
  BY <1>1 DEF Nearest, Told
<1>3. CASE q = Head
  <2>1. m = Head
    BY <1>1, <1>2, <1>3 DEF Nearest
  <2>2. QED
    BY <1>3, <2>1
<1>4. CASE q # Head
  <2>1. q < Head /\ m # Head
    BY <1>1, <1>2, <1>4
  <2>2. \A k \in DOMAIN h : k <= q => (k \in Told(g) <=> k \in Told(h))
    BY <1>1, <1>2, <2>1 DEF Told
  <2>3. Nearest(h, m, q) /\ m \in Told(h)
    BY <1>1, <1>2, <2>1, <2>2 DEF Nearest, Told
  <2>4. q <= MaxSeq
    BY <1>1
  <2>5. Known(h[m].state, view[q].state)
    BY <2>3, <2>4 DEF Truth
  <2>6. QED
    BY <1>2, <1>4, <2>1, <2>5
<1>5. QED
  BY <1>3, <1>4

LEMMA DialsTold ==
  ASSUME NEW h, Dials(h), Head \in DOMAIN h, NEW g, DOMAIN g = DOMAIN h,
         \A q \in DOMAIN h : q # Head => g[q] = h[q],
         g[Head].state # NoState, g[Head].node = h[Head].node
  PROVE  Dials(g)
<1> SUFFICES ASSUME NEW q \in DOMAIN g, g[q].node # Null,
                    NEW p \in {q - 1, q} \cap DOMAIN g
             PROVE  p \in Told(g)
  BY DEF Dials
<1>1. h[q].node # Null
  OBVIOUS
<1>2. p \in Told(h)
  BY <1>1 DEF Dials
<1>3. QED
  BY <1>2 DEF Told

----------------------------------------------------------------------------
(* Every step leaves what the rows say true.                               *)

LEMMA SeenHere ==
  ASSUME See
  PROVE  /\ seen'[Head'] = Here'
         /\ ~drifted' =>
              \A q \in DOMAIN rows' : seen'[q] = IF q = Head' THEN Here' ELSE seen[q]
BY DEF See

\* Nothing that the rows or the radios tell has changed.
LEMMA Still ==
  ASSUME TInv, UNCHANGED <<snapshot, rows, at, stored, live, unrestored, scanning, seen, drifted, kept>>
  PROVE  TInv'
<1>1. Here' = Here /\ Head' = Head
  BY DEF Here, LiveState, PassedOver, Bound, Head
<1>2. QED
  BY <1>1 DEF TInv

\* The workspace stays at its row, and the radios where they are known to be.
LEMMA Stand ==
  ASSUME TInv, at' = at, See, Dials(rows'),
         ~drifted' /\ ~kept' => /\ Truth(rows', seen, MaxSeq)
                                /\ Known(Here.state, Here'.state)
  PROVE  TInv'
<1>1. Head' = Head
  BY DEF Head
<1>2. /\ seen'[Head'] = Here'
      /\ ~drifted' => \A q \in DOMAIN rows' : seen'[q] = IF q = Head' THEN Here' ELSE seen[q]
  BY SeenHere
<1>3. ASSUME ~drifted', ~kept'
      PROVE  Truth(rows', seen', MaxSeq)
  <2>1. Truth(rows', seen, MaxSeq) /\ Known(Here.state, Here'.state)
    BY <1>3
  <2>2. Known(seen[Head].state, Here'.state)
    BY <2>1 DEF TInv
  <2>3. QED
    BY <1>1, <1>2, <1>3, <2>1, <2>2, TruthSeen
<1>4. QED
  BY <1>2, <1>3 DEF TInv

\* A save, a crash, a radio closed or opened: the rows stay as they are.
LEMMA Drifts ==
  ASSUME TInv, rows' = rows, at' = at, kept' = kept, See,
         drifted' = (drifted \/ Moved(Here, Here'))
  PROVE  TInv'
<1>1. Dials(rows')
  BY DEF TInv
<1>2. ~drifted' => ~drifted /\ ~Moved(Here, Here')
  OBVIOUS
<1>3. ~drifted' /\ ~kept' => Truth(rows', seen, MaxSeq) /\ Known(Here.state, Here'.state)
  BY <1>2, NotMoved DEF TInv
<1>4. QED
  BY <1>1, <1>3, Stand

\* A second passes.
LEMMA TickTrue ==
  ASSUME HInv, TInv, Tick
  PROVE  TInv'
<1>1. /\ UNCHANGED <<snapshot, at, stored, live, unrestored, scanning, seen, drifted, kept>>
      /\ rows' = [q \in DOMAIN rows |-> [rows[q] EXCEPT !.fresh = FALSE]]
  BY DEF Tick, ghosts
<1>2. /\ DOMAIN rows' = DOMAIN rows
      /\ \A q \in DOMAIN rows : rows'[q].state = rows[q].state /\ rows'[q].node = rows[q].node
  <2>1. \A q \in DOMAIN rows : rows[q] \in Rows
    BY DEF HInv, TypeOK, Rows
  <2>2. ASSUME NEW r \in Rows
        PROVE  [r EXCEPT !.fresh = FALSE].state = r.state /\ [r EXCEPT !.fresh = FALSE].node = r.node
    BY DEF Rows
  <2>3. QED
    BY <1>1, <2>1, <2>2
<1>3. Told(rows') = Told(rows)
  BY <1>2 DEF Told
<1>4. Here' = Here /\ Head' = Head
  BY <1>1 DEF Here, LiveState, PassedOver, Bound, Head
<1>5. Dials(rows')
  BY <1>2, <1>3 DEF TInv, Dials
<1>6. Told(rows) \subseteq DOMAIN rows
  BY DEF Told
<1>7. Truth(rows, seen, MaxSeq) => Truth(rows', seen, MaxSeq)
  BY <1>2, <1>3, <1>6 DEF Truth, Nearest
<1>8. QED
  BY <1>1, <1>4, <1>5, <1>7 DEF TInv

\* Undo and redo stand at another row, and the radios are seen there again.
LEMMA StepToTrue ==
  ASSUME HistoryAssumption, HInv, TInv, NEW seq \in DOMAIN rows, NEW refused \in SUBSET Nodes,
         StepTo(seq, refused)
  PROVE  TInv'
<1>1. rows' = rows /\ at' = seq /\ kept' = kept /\ See
      /\ drifted' = (drifted \/ Moved(seen[seq], Here'))
  BY DEF StepTo
<1>2. seq \in 1..MaxSeq
  BY DEF HInv, TypeOK
<1>3. Head' = seq
  BY <1>1, <1>2 DEF Head, HistoryAssumption
<1>4. /\ seen'[Head'] = Here'
      /\ ~drifted' => \A q \in DOMAIN rows' : seen'[q] = IF q = Head' THEN Here' ELSE seen[q]
  BY <1>1, SeenHere
<1>5. Dials(rows')
  BY <1>1 DEF TInv
<1>6. ASSUME ~drifted', ~kept'
      PROVE  Truth(rows', seen', MaxSeq)
  <2>1. ~drifted /\ ~kept /\ ~Moved(seen[seq], Here')
    BY <1>1, <1>6
  <2>2. Known(seen[seq].state, Here'.state)
    BY <2>1, NotMoved
  <2>3. Truth(rows', seen, MaxSeq)
    BY <1>1, <2>1 DEF TInv
  <2>4. QED
    BY <1>3, <1>4, <1>6, <2>2, <2>3, TruthSeen
<1>7. QED
  BY <1>4, <1>5, <1>6 DEF TInv

LEMMA TruthUpTo ==
  ASSUME HistoryAssumption, NEW h, IsRows(h), NEW view, Truth(h, view, MaxSeq)
  PROVE  \A last : Truth(h, view, last)
BY DEF Truth, IsRows, HistoryAssumption

\* An edit records a row without settings, or none.
LEMMA EditTrue ==
  ASSUME HistoryAssumption, HInv, TInv, NEW c \in Clients, NEW snap \in Snapshots, Edit(c, snap)
  PROVE  TInv'
<1>1. kept' = kept /\ See /\ drifted' = (drifted \/ Moved(Here, Here'))
  BY DEF Edit
<1>2. ~drifted' /\ ~kept' => ~drifted /\ ~kept /\ ~Moved(Here, Here')
  BY <1>1
<1>3. IsRows(Based) /\ Head \in DOMAIN Based /\ Head \in Nat
  BY Whole
<1>4. Dials(Based) /\ (~drifted /\ ~kept => Truth(Based, seen, MaxSeq))
  BY BasedTruth
<1>5. CASE Based[Head].snap = snap
  <2>1. rows' = Based /\ at' = at
    BY <1>5 DEF Edit
  <2>2. ~drifted' /\ ~kept' => Truth(rows', seen, MaxSeq) /\ Known(Here.state, Here'.state)
    BY <1>2, <1>4, <2>1, NotMoved
  <2>3. Dials(rows')
    BY <1>4, <2>1
  <2>4. QED
    BY <1>1, <2>1, <2>2, <2>3, Stand
<1>6. CASE Based[Head].snap # snap
  <2> DEFINE row == Row(snap, NoState, Null)
  <2>1. Head < MaxSeq /\ rows' = Pushed(Based, row) /\ at' = Head + 1
    BY <1>6 DEF Edit, Record
  <2>2. row \in Rows /\ row.state = NoState /\ row.node = Null
    BY DEF Row, Rows
  <2> HIDE DEF row
  <2>3. Head' = Head + 1
    BY <1>3, <2>1 DEF Head
  <2>4. /\ seen'[Head + 1] = Here'
        /\ ~drifted' => \A q \in DOMAIN rows' : q # Head + 1 => seen'[q] = seen[q]
    BY <1>1, <2>3, SeenHere
  <2>5. Dials(rows')
    BY <1>3, <1>4, <2>1, <2>2, DialsPushed
  <2>6. ASSUME ~drifted', ~kept'
        PROVE  Truth(rows', seen', MaxSeq)
    <3>1. Truth(Based, seen, MaxSeq) /\ ~Moved(Here, Here')
      BY <1>2, <1>4, <2>6
    <3>2. Truth(Based, seen, Head)
      BY <1>3, <3>1, TruthUpTo
    <3>3. Known(Here.state, Here'.state)
      BY <3>1, NotMoved
    <3>4. Known(seen[Head].state, seen'[Head + 1].state)
      BY <2>4, <3>3 DEF TInv
    <3>5. QED
      BY <1>3, <2>1, <2>2, <2>4, <2>6, <3>2, <3>4, TruthPushed
  <2>7. QED
    BY <2>3, <2>4, <2>5, <2>6 DEF TInv
<1>7. QED
  BY <1>5, <1>6

\* The head, once it is filled in, has settings, and true ones.
LEMMA FilledTrue ==
  ASSUME HistoryAssumption, HInv, TInv, NEW n \in Nodes,
         NEW h, h = Filled(Based, Here.state)
  PROVE  /\ IsRows(h) /\ DOMAIN h = DOMAIN Based /\ Head \in DOMAIN h /\ Head \in Nat
         /\ \A q \in DOMAIN Based : q # Head => h[q] = Based[q]
         /\ h[Head].node = Based[Head].node
         /\ Head \in Told(h) /\ StateAt(h, Head) = h[Head].state
         /\ Dials(h)
         /\ ~drifted /\ ~kept => Known(h[Head].state, Here.state)
<1>1. IsRows(Based) /\ Head \in DOMAIN Based /\ Head \in Nat
  BY Whole
<1>2. Here.state \in States
  BY LiveStateType DEF Here, HInv, TypeOK
<1>3. Here.state # NoState
  <2>1. DOMAIN Here.state = Nodes /\ DOMAIN NoState = {}
    BY <1>2 DEF States, NoState
  <2>2. QED
    BY <2>1
<1>4. IsRows(h) /\ DOMAIN h = DOMAIN Based
  BY <1>1, <1>2, FilledRows
<1>5. Dials(Based) /\ (~drifted /\ ~kept => Truth(Based, seen, MaxSeq))
  BY BasedTruth
<1>6. /\ \A q \in DOMAIN Based : q # Head => h[q] = Based[q]
      /\ h[Head].node = Based[Head].node /\ h[Head].state # NoState
      /\ h[Head].state = IF Based[Head].state = NoState THEN Here.state ELSE Based[Head].state
  <2>1. CASE Based[Head].state # NoState
    BY <2>1 DEF Filled
  <2>2. CASE Based[Head].state = NoState
    <3>1. h = [Based EXCEPT ![Head].state = Here.state]
      BY <2>2 DEF Filled
    <3>2. Based[Head] \in Rows
      BY <1>1 DEF IsRows
    <3>3. h[Head] = [Based[Head] EXCEPT !.state = Here.state]
      BY <1>1, <3>1
    <3>4. h[Head].node = Based[Head].node /\ h[Head].state = Here.state
      BY <3>2, <3>3 DEF Rows
    <3>5. \A q \in DOMAIN Based : q # Head => h[q] = Based[q]
      BY <3>1
    <3>6. QED
      BY <1>3, <2>2, <3>4, <3>5
  <2>3. QED
    BY <2>1, <2>2
<1>7. Dials(h)
  BY <1>1, <1>4, <1>5, <1>6, DialsTold
<1>8. Head \in Told(h) /\ Nearest(h, Head, Head)
  BY <1>1, <1>4, <1>6 DEF Told, Nearest
<1>9. StateAt(h, Head) = h[Head].state
  BY <1>1, <1>4, <1>8, StateAtNearest
<1>10. ASSUME ~drifted, ~kept
       PROVE  Known(h[Head].state, Here.state)
  <2>1. CASE Based[Head].state = NoState
    BY <1>6, <2>1 DEF Known
  <2>2. CASE Based[Head].state # NoState
    <3>1. Head \in Told(Based) /\ Nearest(Based, Head, Head) /\ Head <= MaxSeq
      BY <1>1, <2>2 DEF Told, Nearest, IsRows, HistoryAssumption
    <3>2. Known(Based[Head].state, seen[Head].state)
      BY <1>1, <1>5, <1>10, <3>1 DEF Truth
    <3>3. QED
      BY <1>6, <2>2, <3>2 DEF TInv
  <2>3. QED
    BY <2>1, <2>2
<1>11. QED
  BY <1>1, <1>4, <1>6, <1>7, <1>8, <1>9, <1>10

\* A dial: its row is coalesced or recorded with where the radio is now.
LEMMA DialTrue ==
  ASSUME HistoryAssumption, HInv, TInv, NEW n \in Nodes, NEW v \in Values, Dial(n, v)
  PROVE  TInv'
<1> DEFINE radios == [live EXCEPT ![n] = v]
           after == LiveState(snapshot, radios)
           h == Filled(Based, Here.state)
<1>1. /\ live' = radios /\ UNCHANGED <<snapshot, stored, unrestored, scanning>> /\ See
      /\ drifted' = (drifted \/ n \in snapshot.held \cap PassedOver)
      /\ live[n] # Off /\ live[n] # v
  BY DEF Dial
<1>2. \/ n \notin snapshot.held /\ UNCHANGED <<rows, at, kept>>
      \/ n \in snapshot.held /\ StateAt(h, Head) = after /\ rows' = h /\ UNCHANGED <<at, kept>>
      \/ /\ Coalesces(h, n) /\ rows' = [h EXCEPT ![Head].state = after, ![Head].fresh = TRUE]
         /\ kept' = (kept \/ Ahead # {}) /\ UNCHANGED at
      \/ Record(h, Row(snapshot, after, n)) /\ UNCHANGED kept
  BY DEF Dial, Here
<1>3. live \in [Nodes -> Values \cup {Off}] /\ radios \in [Nodes -> Values \cup {Off}]
      /\ v # Off /\ v # Unset /\ n # Null
  BY DEF HInv, TypeOK, HistoryAssumption
<1>4. Here'.state = after
  BY <1>1 DEF Here, LiveState, PassedOver, Bound
<1>5. after \in States
  BY <1>3, LiveStateType
<1>6. after # NoState
  <2>1. DOMAIN after = Nodes /\ DOMAIN NoState = {}
    BY <1>5 DEF States, NoState
  <2>2. QED
    BY <2>1
<1>7. n \in snapshot.held /\ n \notin PassedOver => after[n] = v /\ Here.state[n] = live[n]
  BY <1>1, <1>3 DEF Here, LiveState, Bound
<1>8. n \notin snapshot.held => after = Here.state
  BY <1>3 DEF Here, LiveState, Bound
<1>9. ~drifted' => ~drifted /\ n \notin snapshot.held \cap PassedOver
  BY <1>1, Zenon
<1> HIDE DEF radios, after
<1>10. /\ IsRows(h) /\ DOMAIN h = DOMAIN Based /\ Head \in DOMAIN h /\ Head \in Nat
       /\ \A q \in DOMAIN Based : q # Head => h[q] = Based[q]
       /\ h[Head].node = Based[Head].node
       /\ Head \in Told(h) /\ StateAt(h, Head) = h[Head].state
       /\ Dials(h)
       /\ ~drifted /\ ~kept => Known(h[Head].state, Here.state)
  BY FilledTrue
<1>11. IsRows(Based) /\ Head \in DOMAIN Based /\ Dials(Based)
       /\ (~drifted /\ ~kept => Truth(Based, seen, MaxSeq))
  BY BasedTruth, Whole
<1> HIDE DEF h
<1>12. CASE n \notin snapshot.held /\ UNCHANGED <<rows, at, kept>>
  <2>1. Known(Here.state, Here'.state)
    BY <1>4, <1>8, <1>12 DEF Known
  <2>2. Dials(rows')
    BY <1>12 DEF TInv
  <2>3. ~drifted' /\ ~kept' => Truth(rows', seen, MaxSeq)
    BY <1>9, <1>12 DEF TInv
  <2>4. QED
    BY <1>1, <1>12, <2>1, <2>2, <2>3, Stand
<1>13. CASE n \in snapshot.held /\ StateAt(h, Head) = after /\ rows' = h /\ UNCHANGED <<at, kept>>
  <2>1. ASSUME ~drifted', ~kept'
        PROVE  FALSE
    <3>1. ~drifted /\ ~kept /\ n \notin PassedOver
      BY <1>9, <1>13, <2>1
    <3>2. Known(after, Here.state)
      BY <1>10, <1>13, <3>1
    <3>3. after[n] = v /\ Here.state[n] = live[n]
      BY <1>7, <1>13, <3>1
    <3>4. QED
      BY <1>1, <1>3, <3>2, <3>3 DEF Known
  <2>2. Dials(rows')
    BY <1>10, <1>13
  <2>3. QED
    BY <1>1, <1>13, <2>1, <2>2, Stand
<1>14. CASE /\ Coalesces(h, n) /\ rows' = [h EXCEPT ![Head].state = after, ![Head].fresh = TRUE]
            /\ kept' = (kept \/ Ahead # {}) /\ UNCHANGED at
  <2>1. at # 0
    <3>1. Based[Head].node = n
      BY <1>10, <1>14 DEF Coalesces
    <3>2. at = 0 => Based = [q \in {1} |-> Row(snapshot, NoState, Null)] /\ Head = 1
      BY DEF Based, Head
    <3>3. at = 0 => Based[Head].node = Null
      BY <3>2 DEF Row
    <3>4. QED
      BY <1>3, <3>1, <3>3
  <2>2. Based = rows /\ Head = at /\ Head' = Head
    BY <1>14, <2>1 DEF Based, Head
  <2>3. h[Head] \in Rows
    BY <1>10 DEF IsRows
  <2>4. DOMAIN rows' = DOMAIN Based /\ \A q \in DOMAIN Based : q # Head => rows'[q] = Based[q]
    BY <1>10, <1>14
  <2>5. rows'[Head].state = after /\ rows'[Head].node = Based[Head].node
    <3>1. rows'[Head] = [h[Head] EXCEPT !.state = after, !.fresh = TRUE]
      BY <1>10, <1>14, <2>3 DEF IsRows, Rows
    <3>2. QED
      BY <1>10, <2>3, <3>1 DEF Rows
  <2>6. Dials(rows')
    BY <1>6, <1>11, <2>4, <2>5, DialsTold
  <2>7. /\ seen'[Head] = Here'
        /\ ~drifted' => \A q \in DOMAIN Based : q # Head => seen'[q] = seen[q]
    BY <1>1, <2>2, <2>4, SeenHere
  <2>8. ASSUME ~drifted', ~kept'
        PROVE  Truth(rows', seen', MaxSeq)
    <3>1. ~drifted /\ ~kept /\ Ahead = {}
      BY <1>9, <1>14, <2>8, Zenon
    <3>2. Truth(Based, seen, MaxSeq)
      BY <1>11, <3>1
    <3>3. Known(rows'[Head].state, seen'[Head].state)
      BY <1>4, <2>5, <2>7 DEF Known
    <3>4. Truth(rows', seen', Head)
      BY <1>6, <1>11, <2>4, <2>5, <2>7, <2>8, <3>2, <3>3, TruthTold
    <3>5. \A q \in DOMAIN rows' : q <= Head
      <4>1. \A q \in DOMAIN rows : q \in Nat
        BY <1>11, <2>2 DEF IsRows
      <4>2. \A q \in DOMAIN rows : ~(q > at)
        BY <3>1 DEF Ahead
      <4>3. QED
        BY <1>10, <2>2, <2>4, <4>1, <4>2
    <3>6. QED
      BY <3>4, <3>5 DEF Truth
  <2>9. QED
    BY <2>2, <2>6, <2>7, <2>8 DEF TInv
<1>15. CASE Record(h, Row(snapshot, after, n)) /\ UNCHANGED kept
  <2> DEFINE row == Row(snapshot, after, n)
  <2>1. Head < MaxSeq /\ rows' = Pushed(h, row) /\ at' = Head + 1
    BY <1>15 DEF Record
  <2>2. row \in Rows /\ row.state = after /\ row.node = n
    BY <1>5 DEF Row, Rows, HInv, TypeOK
  <2> HIDE DEF row
  <2>3. Head' = Head + 1
    BY <1>10, <2>1 DEF Head
  <2>4. /\ seen'[Head + 1] = Here'
        /\ ~drifted' => \A q \in DOMAIN rows' : q # Head + 1 => seen'[q] = seen[q]
    BY <1>1, <2>3, SeenHere
  <2>5. Dials(rows')
    BY <1>6, <1>10, <2>1, <2>2, DialsPushed
  <2>6. ASSUME ~drifted', ~kept'
        PROVE  Truth(rows', seen', MaxSeq)
    <3>1. ~drifted /\ ~kept
      BY <1>9, <1>15, <2>6
    <3>2. Truth(Based, seen, MaxSeq) /\ Known(h[Head].state, seen[Head].state)
      BY <1>10, <1>11, <3>1 DEF TInv
    <3>3. h[Head].state # NoState
      BY <1>10 DEF Told
    <3>4. Truth(h, seen, Head)
      BY <1>10, <1>11, <3>2, <3>3, TruthTold
    <3>5. row.state # NoState /\ seen'[Head + 1].state = row.state
      BY <1>4, <1>6, <2>2, <2>4
    <3>6. QED
      BY <1>10, <2>1, <2>2, <2>4, <2>6, <3>4, <3>5, TruthPushed
  <2>7. QED
    BY <2>3, <2>4, <2>5, <2>6 DEF TInv
<1>16. QED
  BY <1>2, <1>12, <1>13, <1>14, <1>15

LEMMA InitTInv ==
  ASSUME Init
  PROVE  TInv
<1>1. DOMAIN rows = {}
  BY DEF Init, NoRows
<1>2. seen[Head] = Here
  BY DEF Init, Head
<1>3. QED
  BY <1>1, <1>2 DEF TInv, Dials, Truth, Told

\* The workspace is always seen at its row, what the rows say is true for as
\* long as nothing but steps moved a radio, and the rows around a dial have
\* settings of their own.
THEOREM HistoryTruth == Spec => []TInv
<1>1. Init => TInv
  BY InitTInv
<1>2. HInv /\ TInv /\ [Next]_vars => TInv'
  <2> SUFFICES ASSUME HInv, TInv, [Next]_vars
               PROVE  TInv'
    OBVIOUS
  <2> USE HistoryAssumption
  <2>1. ASSUME NEW c \in Clients, Read(c) \/ Rename(c)
        PROVE  TInv'
    <3>1. UNCHANGED <<snapshot, rows, at, stored, live, unrestored, scanning, seen, drifted, kept>>
      BY <2>1 DEF Read, Rename, store, server, ghosts
    <3>2. QED
      BY <3>1, Still
  <2>2. ASSUME NEW c \in Clients, NEW snap \in Snapshots, Edit(c, snap)
        PROVE  TInv'
    BY <2>2, EditTrue
  <2>3. CASE Undo
    <3>1. PICK refused \in SUBSET Nodes : Behind # {} /\ StepTo(Max(Behind), refused)
      BY <2>3 DEF Undo
    <3>2. QED
      BY <3>1, UndoReaches, StepToTrue
  <2>4. CASE Redo
    <3>1. PICK refused \in SUBSET Nodes : Ahead # {} /\ StepTo(Min(Ahead), refused)
      BY <2>4 DEF Redo
    <3>2. QED
      BY <3>1, RedoReaches, StepToTrue
  <2>5. ASSUME NEW refused \in SUBSET Nodes, Apply(refused)
        PROVE  TInv'
    <3>1. rows' = rows /\ at' = at /\ kept' = kept /\ See
          /\ drifted' = (drifted \/ Moved(Here, Here'))
      BY <2>5 DEF Apply, store
    <3>2. QED
      BY <3>1, Drifts
  <2>6. ASSUME NEW n \in Nodes, NEW v \in Values,
               Close(n) \/ StartScan(n) \/ SweepTo(n, v) \/ StopScan(n, v)
        PROVE  TInv'
    <3>1. rows' = rows /\ at' = at /\ kept' = kept /\ See
          /\ drifted' = (drifted \/ Moved(Here, Here'))
      BY <2>6 DEF Close, StartScan, SweepTo, StopScan, store
    <3>2. QED
      BY <3>1, Drifts
  <2>7. ASSUME NEW n \in Nodes, NEW v \in Values, Dial(n, v)
        PROVE  TInv'
    BY <2>7, DialTrue
  <2>8. CASE Notice
    <3>1. UNCHANGED <<snapshot, rows, at, stored, live, unrestored, scanning, seen, drifted, kept>>
      BY <2>8 DEF Notice, store, ghosts
    <3>2. QED
      BY <3>1, Still
  <2>9. CASE Save
    <3>1. rows' = rows /\ at' = at /\ kept' = kept /\ See
          /\ drifted' = (drifted \/ Moved(Here, Here'))
      BY <2>9 DEF Save
    <3>2. QED
      BY <3>1, Drifts
  <2>a. CASE SaveFails
    <3>1. UNCHANGED <<snapshot, rows, at, stored, live, unrestored, scanning, seen, drifted, kept>>
      BY <2>a DEF SaveFails, store, ghosts
    <3>2. QED
      BY <3>1, Still
  <2>10. CASE Tick
    BY <2>10, TickTrue
  <2>11. CASE Crash
    <3>1. rows' = rows /\ at' = at /\ kept' = kept /\ See
          /\ drifted' = (drifted \/ Moved(Here, Here'))
      BY <2>11 DEF Crash, store
    <3>2. QED
      BY <3>1, Drifts
  <2>12. CASE UNCHANGED vars
    <3>1. UNCHANGED <<snapshot, rows, at, stored, live, unrestored, scanning, seen, drifted, kept>>
      BY <2>12 DEF vars, store, server, ghosts
    <3>2. QED
      BY <3>1, Still
  <2>b. Default \in Values
    BY DEF HistoryAssumption
  <2>13. QED
    BY <2>1, <2>2, <2>3, <2>4, <2>5, <2>6, <2>7, <2>8, <2>9, <2>a, <2>b, <2>10, <2>11, <2>12
       DEF Next
<1>3. QED
  BY <1>1, <1>2, HistoryInvariant, PTL DEF Spec

\* What state_at says of a row, from the row itself or from the nearest one
\* behind it, is where the radios were when the workspace last stood there.
THEOREM RowsAreTrue == Spec => []RowsTellTheTruth
<1>1. HInv /\ TInv => RowsTellTheTruth
  <2> SUFFICES ASSUME HInv, TInv
               PROVE  RowsTellTheTruth
    OBVIOUS
  <2> USE HistoryAssumption
  <2>1. IsRows(rows)
    BY Whole
  <2>2. ASSUME ~drifted, ~kept, NEW q \in DOMAIN rows, \E m \in Told(rows) : m <= q,
               NEW n \in Nodes
        PROVE  StateAt(rows, q)[n] \in {Unset, seen[q].state[n]}
    <3>1. q \in Nat /\ q <= MaxSeq
      BY <2>1 DEF IsRows, HistoryAssumption
    <3>2. PICK m \in Told(rows) : Nearest(rows, m, q)
      BY <2>1, <2>2, <3>1, NearestExists
    <3>3. StateAt(rows, q) = rows[m].state
      BY <2>1, <3>1, <3>2, StateAtNearest
    <3>4. Known(rows[m].state, seen[q].state)
      BY <2>2, <3>1, <3>2 DEF TInv, Truth
    <3>5. QED
      BY <3>3, <3>4 DEF Known
  <2>3. \A q \in DOMAIN rows :
          rows[q].node # Null => {q - 1, q} \cap DOMAIN rows \subseteq Told(rows)
    BY DEF TInv, Dials
  <2>4. QED
    BY <2>2, <2>3 DEF RowsTellTheTruth
<1>2. QED
  BY <1>1, HistoryInvariant, HistoryTruth, PTL
=============================================================================
