---------------------------- MODULE Tunnel_proofs -----------------------------
(***************************************************************************)
(* The tunnel's flow control, proved for any number of streams, any        *)
(* window, any sizes of queues and messages: no credit is lost or made up  *)
(* either way, the relay never holds more than the window and one message, *)
(* and a stream's last frame is its last.                                  *)
(***************************************************************************)
EXTENDS Tunnel, Sums_proofs

\* What a task may still send: its window, and a chunk it has paid for and not
\* yet put into the outbox.
Rest(k) == k.window + (IF k.down = "push" THEN k.chunk ELSE 0)

\* Where the bytes of a stream's window are.
Down(s) == Rest(st[s]) + Bytes(outbox, s, Data) + relay[s].held + Bytes(wire, s, {"Credit"})

Largest(n) == \A m \in Sizes : m <= n
IsAsk(frame, s) == frame.stream = s /\ frame.kind \in {"Request", "Websocket"}
IsLast(frame, s) == frame.stream = s /\ frame.kind \in {"End", "Close", "Reset"}

\* A task by itself: only an upload in progress has bytes in hand, a WebSocket
\* takes no message before it is accepted, what waits for a task is its own, and
\* the window is overdrawn by less than one message.
TaskOK(s, k) ==
  /\ k.up \in {"off", "recv"} => k.item = 0
  /\ k.ws /\ k.down \in {"request", "response"} => k.up = "off"
  /\ \A i \in 1..Len(k.inbound) : k.inbound[i].stream = s
  /\ k.down = "spend" => k.chunk \in Sizes
  /\ \A n \in Sizes : Largest(n) => k.window + n > 0

TasksOK == \A s \in Ids : TaskOK(s, st[s])

\* The window is never exceeded, and is whole while the stream is sound.
WindowOK == \A s \in Ids : Down(s) <= WINDOW /\ (Sound(s) => Down(s) = WINDOW)

\* A stream that has no task yet has used nothing of its windows, and the relay's
\* bytes are all behind the frame that asks for it.
UnstartedOK(s) ==
  st[s].task = "none" =>
    /\ st[s] = NoTask /\ s \notin open \cup overrun /\ relay[s].held = 0 /\ ~relay[s].ended
    /\ Bytes(outbox, s, Data) = 0 /\ Bytes(outbox, s, {"Credit"}) = 0
    /\ Bytes(wire, s, {"Credit"}) = 0 /\ relay[s].sent = Bytes(wire, s, Data)
    /\ \A i \in 1..Len(outbox) : outbox[i].stream # s
    /\ \A j \in 1..Len(wire) : wire[j].stream = s => \E i \in 1..j : IsAsk(wire[i], s)
    /\ relay[s].asked => \E i \in 1..Len(wire) : IsAsk(wire[i], s)

\* The relay asks for a stream once, and has not been served before that.
AskedOK(s) ==
  /\ \A i \in 1..Len(wire) : IsAsk(wire[i], s) => relay[s].asked /\ st[s].task = "none"
  /\ \A i, j \in 1..Len(wire) : IsAsk(wire[i], s) /\ IsAsk(wire[j], s) => i = j
  /\ ~relay[s].asked => /\ st[s].task = "none"
                        /\ \A i \in 1..Len(wire) : wire[i].stream # s

AsksNamed ==
  \A i \in 1..Len(wire) : wire[i].kind \in {"Request", "Websocket"} => wire[i].stream \in Ids

StartsOK == AsksNamed /\ \A s \in Ids : UnstartedOK(s) /\ AskedOK(s)

\* A stream the serve loop did not reset says nothing after its last frame: its
\* task has returned by then.
EndingOK(s) ==
  s \notin overrun =>
    /\ ~relay[s].late
    /\ relay[s].ended => /\ st[s].task \in {"over", "gone"}
                         /\ \A i \in 1..Len(outbox) : outbox[i].stream # s
    /\ \A i \in 1..Len(outbox) : IsLast(outbox[i], s) =>
         /\ st[s].task \in {"over", "gone"}
         /\ \A j \in 1..Len(outbox) : i < j => outbox[j].stream # s

EndsOK ==
  /\ serve = "reset" => refused \in overrun
  /\ \A s \in Ids : EndingOK(s)

IInv == TypeOK /\ TasksOK /\ WindowOK /\ UploadsCredited /\ StartsOK /\ EndsOK
----------------------------------------------------------------------------
(* Bytes of a queue.                                                       *)

\* A frame weighs a number of bytes, none if it is of another stream.
LEMMA WeightType ==
  ASSUME NEW f \in Frames, NEW s, NEW kinds
  PROVE  Weight(f, s, kinds) \in Nat /\ (f.stream # s => Weight(f, s, kinds) = 0)
BY DEF Weight, Frames

Weights(q, s, kinds) == [i \in 1..Len(q) |-> Weight(q[i], s, kinds)]

LEMMA WeightsType ==
  ASSUME NEW q \in Seq(Frames), NEW s, NEW kinds
  PROVE  /\ Weights(q, s, kinds) \in Seq(Nat) /\ Len(Weights(q, s, kinds)) = Len(q)
         /\ Bytes(q, s, kinds) = Total(Weights(q, s, kinds))
<1>1. \A i \in 1..Len(q) : q[i] \in Frames
  OBVIOUS
<1>2. \A i \in 1..Len(q) : Weight(q[i], s, kinds) \in Nat
  BY <1>1, WeightType
<1>3. Len(q) \in Nat
  OBVIOUS
<1> QED
  BY <1>2, <1>3 DEF Weights, Bytes

LEMMA BytesType ==
  ASSUME NEW q \in Seq(Frames), NEW s, NEW kinds PROVE Bytes(q, s, kinds) \in Nat
BY WeightsType, TotalType

LEMMA BytesEmpty == ASSUME NEW s, NEW kinds PROVE Bytes(<<>>, s, kinds) = 0
<1> DEFINE w == Weights(<<>>, s, kinds)
<1>1. <<>> \in Seq(Frames) /\ Len(<<>>) = 0
  OBVIOUS
<1>2. w \in Seq(Nat) /\ Len(w) = 0 /\ Bytes(<<>>, s, kinds) = Total(w)
  BY <1>1, WeightsType
<1> HIDE DEF w
<1>3. w = <<>>
  BY <1>2
<1> QED
  BY <1>2, <1>3, TotalEmpty

LEMMA BytesAppend ==
  ASSUME NEW q \in Seq(Frames), NEW f \in Frames, NEW s, NEW kinds
  PROVE  Bytes(Append(q, f), s, kinds) = Bytes(q, s, kinds) + Weight(f, s, kinds)
<1> DEFINE a == Append(q, f)
           w == Weights(q, s, kinds)
           x == Weight(f, s, kinds)
           v == Weights(a, s, kinds)
<1>1. a \in Seq(Frames) /\ Len(a) = Len(q) + 1 /\ Len(q) \in Nat
  OBVIOUS
<1>2. w \in Seq(Nat) /\ Len(w) = Len(q) /\ v \in Seq(Nat) /\ Len(v) = Len(a) /\ x \in Nat
  BY <1>1, WeightsType, WeightType
<1>3. \A i \in 1..Len(a) : v[i] = Weight(a[i], s, kinds)
  BY DEF Weights
<1>4. \A i \in 1..Len(q) : w[i] = Weight(q[i], s, kinds)
  BY DEF Weights
<1>5. Append(w, x) \in Seq(Nat) /\ Len(Append(w, x)) = Len(v)
  <2> HIDE DEF a, w, x, v
  <2> QED
    BY <1>1, <1>2
<1>6. \A i \in 1..Len(v) : v[i] = Append(w, x)[i]
  <2> SUFFICES ASSUME NEW i \in 1..Len(v) PROVE v[i] = Append(w, x)[i]
    OBVIOUS
  <2>1. CASE i = Len(q) + 1
    <3>1. a[i] = f
      BY <2>1, <1>1
    <3>2. Append(w, x)[i] = x
      <4> HIDE DEF w, x, v, a
      <4> QED
        BY <2>1, <1>1, <1>2
    <3> HIDE DEF v, a
    <3>3. v[i] = x
      BY <3>1, <1>2, <1>3 DEF x
    <3> QED
      BY <3>2, <3>3
  <2>2. CASE i \in 1..Len(q)
    <3>1. a[i] = q[i]
      BY <2>2, <1>1
    <3>2. Append(w, x)[i] = w[i]
      <4> HIDE DEF w, x, v, a
      <4> QED
        BY <2>2, <1>1, <1>2
    <3> HIDE DEF v, a, w
    <3>3. v[i] = w[i]
      BY <3>1, <1>2, <1>3, <1>4, <2>2
    <3> QED
      BY <3>2, <3>3
  <2> HIDE DEF v, a
  <2> QED
    BY <2>1, <2>2, <1>1, <1>2
<1>7. v = Append(w, x)
  <2> HIDE DEF v, w, x
  <2> QED
    BY <1>2, <1>5, <1>6
<1>8. Total(v) = Total(w) + x
  <2> HIDE DEF v, w, x
  <2> QED
    BY <1>2, <1>7, TotalAppend
<1> QED
  BY <1>1, <1>8, WeightsType

LEMMA BytesTail ==
  ASSUME NEW q \in Seq(Frames), q # <<>>, NEW s, NEW kinds
  PROVE  /\ Head(q) \in Frames /\ Tail(q) \in Seq(Frames)
         /\ Bytes(q, s, kinds) = Weight(Head(q), s, kinds) + Bytes(Tail(q), s, kinds)
<1> DEFINE r == Tail(q)
           v == Weights(q, s, kinds)
           w == Weights(r, s, kinds)
<1>1. /\ r \in Seq(Frames) /\ Len(r) = Len(q) - 1 /\ Len(q) \in Nat \ {0} /\ Head(q) \in Frames
      /\ Head(q) = q[1] /\ \A i \in 1..Len(r) : r[i] = q[i + 1]
  OBVIOUS
<1>2. v \in Seq(Nat) /\ Len(v) = Len(q) /\ w \in Seq(Nat) /\ Len(w) = Len(r)
  BY <1>1, WeightsType
<1>3. /\ \A i \in 1..Len(q) : v[i] = Weight(q[i], s, kinds)
      /\ \A i \in 1..Len(r) : w[i] = Weight(r[i], s, kinds)
  BY DEF Weights
<1> HIDE DEF r, v, w
<1>4. v # <<>> /\ Head(v) = Weight(Head(q), s, kinds)
  BY <1>1, <1>2, <1>3
<1>5. Tail(v) \in Seq(Nat) /\ Len(Tail(v)) = Len(w) /\ \A i \in 1..Len(w) : Tail(v)[i] = v[i + 1]
  BY <1>1, <1>2, <1>4
<1>6. \A i \in 1..Len(w) : Tail(v)[i] = w[i]
  <2> SUFFICES ASSUME NEW i \in 1..Len(w) PROVE Tail(v)[i] = w[i]
    OBVIOUS
  <2>1. i \in 1..Len(r) /\ i + 1 \in 1..Len(q)
    BY <1>1, <1>2
  <2>2. w[i] = Weight(r[i], s, kinds) /\ v[i + 1] = Weight(q[i + 1], s, kinds)
    BY <2>1, <1>3
  <2> QED
    BY <2>1, <2>2, <1>1, <1>5
<1>7. Tail(v) = w
  BY <1>2, <1>5, <1>6, SeqEqual, Zenon
<1>8. Total(v) = Head(v) + Total(w)
  BY <1>2, <1>4, <1>7, TotalTail
<1> QED
  BY <1>1, <1>4, <1>8, WeightsType DEF r, v, w

----------------------------------------------------------------------------
(* A step of a task.                                                       *)

\* The fields and the bytes of a stream are numbers.
LEMMA StreamType ==
  ASSUME TypeOK, NEW s \in Ids
  PROVE  /\ outbox \in Seq(Frames) /\ wire \in Seq(Frames) /\ s # NoId
         /\ st[s] \in Tasks /\ Rest(st[s]) \in Int /\ st[s].window \in Int
         /\ st[s].item \in Nat /\ st[s].chunk \in Nat /\ st[s].made \in Nat
         /\ st[s].inbound \in Seq(Frames)
         /\ relay[s] \in Peers /\ relay[s].held \in Nat /\ relay[s].sent \in Int
         /\ \A kinds : /\ Bytes(outbox, s, kinds) \in Nat /\ Bytes(wire, s, kinds) \in Nat
                       /\ Bytes(st[s].inbound, s, kinds) \in Nat
<1>1. outbox \in Seq(Frames) /\ wire \in Seq(Frames) /\ st[s] \in Tasks /\ relay[s] \in Peers
  BY DEF TypeOK
<1>2. /\ st[s].window \in Int /\ st[s].item \in Nat /\ st[s].chunk \in Nat /\ st[s].made \in Nat
      /\ st[s].inbound \in Seq(Frames)
  BY <1>1 DEF Tasks
<1>3. relay[s].held \in Nat /\ relay[s].sent \in Int
  BY <1>1 DEF Peers
<1>4. s # NoId
  BY TunnelAssumption
<1>5. Rest(st[s]) \in Int
  BY <1>2 DEF Rest
<1> QED
  BY <1>1, <1>2, <1>3, <1>4, <1>5, BytesType

Discards == {"discard", "discarded", "done"}

LEMMA UploadingType ==
  TypeOK => \A s \in Ids : Uploading(s) \in Nat /\ relay[s].sent \in Int
<1> SUFFICES ASSUME TypeOK, NEW s \in Ids PROVE Uploading(s) \in Nat /\ relay[s].sent \in Int
  OBVIOUS
<1>1. /\ Bytes(wire, s, Data) \in Nat /\ Bytes(st[s].inbound, s, Data) \in Nat
      /\ st[s].item \in Nat /\ Bytes(outbox, s, {"Credit"}) \in Nat /\ relay[s] \in Peers
  BY StreamType
<1> QED
  BY <1>1 DEF Uploading, Peers

LEMMA UploadingNext ==
  TypeOK' => (\A s \in Ids : Uploading(s) \in Nat /\ relay[s].sent \in Int)'
BY UploadingType, PTL

\* A task whose queue is dropped.
LEMMA UnheardIs ==
  ASSUME NEW k \in Tasks, NEW up \in {"off", "done", "discarded"}
  PROVE  /\ Unheard(k, up) \in Tasks /\ Unheard(k, up).up = up /\ Unheard(k, up).item = 0
         /\ Unheard(k, up).inbound = <<>> /\ Unheard(k, up).task = k.task
         /\ Unheard(k, up).ws = k.ws /\ Unheard(k, up).down = k.down
         /\ Unheard(k, up).chunk = k.chunk /\ Unheard(k, up).window = k.window
<1> DEFINE none == <<>>
<1>1. none \in Seq(Frames)
  OBVIOUS
<1>2. Unheard(k, up) = [k EXCEPT !.up = up, !.item = 0, !.inbound = none]
  BY DEF Unheard
<1> HIDE DEF none
<1> DEFINE a == [k EXCEPT !.up = up]
           b == [a EXCEPT !.item = 0]
           c == [b EXCEPT !.inbound = none]
<1>3. a \in Tasks /\ a.up = up /\ a.task = k.task /\ a.ws = k.ws /\ a.down = k.down
      /\ a.chunk = k.chunk /\ a.window = k.window
  BY DEF Tasks
<1> HIDE DEF a
<1>4. b \in Tasks /\ b.up = up /\ b.item = 0 /\ b.task = k.task /\ b.ws = k.ws /\ b.down = k.down
      /\ b.chunk = k.chunk /\ b.window = k.window
  BY <1>3 DEF Tasks
<1> HIDE DEF b
<1>5. c \in Tasks /\ c.up = up /\ c.item = 0 /\ c.inbound = none /\ c.task = k.task
      /\ c.ws = k.ws /\ c.down = k.down /\ c.chunk = k.chunk /\ c.window = k.window
  BY <1>1, <1>4 DEF Tasks
<1> HIDE DEF c
<1>6. Unheard(k, up) = c
  BY <1>2 DEF a, b, c
<1> QED
  BY <1>5, <1>6 DEF none

\* Of what the relay counts as on the way, a step may lose bytes but not make any
\* up, and loses none of a stream whose upload is read after it.
LEMMA CreditedOn ==
  ASSUME IInv, TypeOK',
         \A t \in Ids : /\ Uploading(t)' + relay[t].sent <= Uploading(t) + relay'[t].sent
                        /\ Taking(t)' => /\ Taking(t)
                                         /\ Uploading(t)' + relay[t].sent
                                              = Uploading(t) + relay'[t].sent
  PROVE  UploadsCredited'
<1> SUFFICES ASSUME NEW t \in Ids
             PROVE  /\ Uploading(t)' <= relay'[t].sent
                    /\ Taking(t)' => Uploading(t)' = relay'[t].sent
  BY DEF UploadsCredited
<1>1. Uploading(t) \in Nat /\ relay[t].sent \in Int
  BY UploadingType DEF IInv
<1>2. Uploading(t)' \in Nat /\ relay'[t].sent \in Int
  BY UploadingNext
<1>3. Uploading(t) <= relay[t].sent /\ (Taking(t) => Uploading(t) = relay[t].sent)
  BY DEF IInv, UploadsCredited
<1> QED
  BY <1>1, <1>2, <1>3

\* What a step of a running task may do to its record, when it puts d bytes of
\* data and c bytes of credit into the outbox: a task never starts again, a sound
\* one was sound before, no bytes are made up, and those of an upload that is read
\* stay what they were together.
Moved(s, k, d, c) ==
  /\ k \in Tasks /\ Len(k.inbound) <= INBOUND /\ TaskOK(s, k)
  /\ k.task # "none" /\ (k.task = "run" => st[s].task = "run")
  /\ Rest(k) + d <= Rest(st[s])
  /\ Bytes(k.inbound, s, Data) + k.item + c <= Bytes(st[s].inbound, s, Data) + st[s].item
  /\ k.task = "run" /\ k.down # "reset" =>
       /\ st[s].down # "reset" /\ Rest(k) + d = Rest(st[s])
       /\ k.up \notin Discards =>
            /\ st[s].up \notin Discards
            /\ Bytes(k.inbound, s, Data) + k.item + c = Bytes(st[s].inbound, s, Data) + st[s].item

\* What it does to the outbox: nothing, or one frame of its own at the end.
Says(s, k) ==
  /\ outbox' \in Seq(Frames) /\ Len(outbox') <= OUTBOX
  /\ \A i \in 1..Len(outbox') :
       \/ i \in 1..Len(outbox) /\ outbox'[i] = outbox[i]
       \/ /\ i = Len(outbox') /\ outbox'[i].stream = s
          /\ IsLast(outbox'[i], s) => k.task = "over"

LEMMA TaskMoves ==
  ASSUME IInv, NEW s \in Ids, NEW k, Running(s), st' = [st EXCEPT ![s] = k], Elsewhere,
         NEW d \in Nat, NEW c \in Nat, Moved(s, k, d, c), Says(s, k),
         \A t \in Ids : /\ Bytes(outbox', t, Data)
                             = Bytes(outbox, t, Data) + (IF t = s THEN d ELSE 0)
                        /\ Bytes(outbox', t, {"Credit"})
                             = Bytes(outbox, t, {"Credit"}) + (IF t = s THEN c ELSE 0)
  PROVE  IInv'
<1> USE DEF Elsewhere
<1>k. k \in Tasks
  BY DEF Moved
<1>t. TypeOK
  BY DEF IInv
<1>s. st[s] \in Tasks /\ st[s].task \in {"run", "cancel"}
  BY <1>t DEF Running, TypeOK
<1>n. /\ st'[s] = k /\ \A t \in Ids \ {s} : st'[t] = st[t]
      /\ wire' = wire /\ open' = open /\ relay' = relay /\ overrun' = overrun
  BY <1>t DEF TypeOK
<1>1. TypeOK'
  <2>1. st' \in [Ids -> Tasks]
    BY <1>t, <1>k DEF TypeOK
  <2>2. \A t \in Ids : Len(st'[t].inbound) <= INBOUND
    BY <1>n, <1>t DEF TypeOK, Moved
  <2> QED
    BY <2>1, <2>2, <1>t DEF TypeOK, Says
<1>2. TasksOK'
  <2>1. TaskOK(s, k)
    BY DEF Moved
  <2>2. \A t \in Ids : TaskOK(t, st'[t])
    BY <2>1, <1>n DEF IInv, TasksOK
  <2> QED
    BY <2>2 DEF TasksOK, TaskOK, Largest
<1>3. WindowOK'
  <2> SUFFICES ASSUME NEW t \in Ids PROVE Down(t)' <= WINDOW /\ (Sound(t)' => Down(t)' = WINDOW)
    BY DEF WindowOK
  <2>1. /\ Down(t) <= WINDOW /\ (Sound(t) => Down(t) = WINDOW)
        /\ Rest(st[t]) \in Int /\ Bytes(outbox, t, Data) \in Nat /\ relay[t].held \in Nat
        /\ Bytes(wire, t, {"Credit"}) \in Nat /\ WINDOW \in Nat
    BY <1>t, StreamType, TunnelAssumption DEF IInv, WindowOK
  <2>2. Down(t)' = Rest(st'[t]) + Bytes(outbox', t, Data) + relay[t].held + Bytes(wire, t, {"Credit"})
    BY <1>n DEF Down, Rest
  <2>3. CASE t # s
    <3>1. Down(t)' = Down(t)
      BY <2>1, <2>2, <2>3, <1>n DEF Down
    <3>2. Sound(t)' => Sound(t)
      BY <2>3, <1>n DEF Sound
    <3> QED
      BY <2>1, <3>1, <3>2
  <2>4. CASE t = s
    <3>1. /\ Rest(k) \in Int /\ Rest(k) + d <= Rest(st[s])
          /\ k.task = "run" /\ k.down # "reset" => Rest(k) + d = Rest(st[s])
      BY <1>k DEF Moved, Rest, Tasks
    <3>2. Down(s)' = Rest(k) + (Bytes(outbox, s, Data) + d) + relay[s].held + Bytes(wire, s, {"Credit"})
      BY <2>2, <2>4, <1>n
    <3>3. Down(s) = Rest(st[s]) + Bytes(outbox, s, Data) + relay[s].held + Bytes(wire, s, {"Credit"})
      BY DEF Down
    <3>4. Sound(s)' => /\ Sound(s) /\ k.task = "run" /\ k.down # "reset"
      BY <1>n DEF Sound, Moved
    <3> QED
      BY <2>1, <2>4, <3>1, <3>2, <3>3, <3>4
  <2> QED
    BY <2>3, <2>4
<1>4. UploadsCredited'
  <2> SUFFICES ASSUME NEW t \in Ids
               PROVE  /\ Uploading(t)' + relay[t].sent <= Uploading(t) + relay'[t].sent
                      /\ Taking(t)' => /\ Taking(t)
                                       /\ Uploading(t)' + relay[t].sent
                                            = Uploading(t) + relay'[t].sent
    BY <1>1, CreditedOn
  <2>1. Uploading(t) \in Nat /\ relay[t].sent \in Int
    BY <1>t, UploadingType
  <2>2. CASE t # s
    <3>1. Bytes(outbox', t, {"Credit"}) = Bytes(outbox, t, {"Credit"})
      BY <2>2, <1>t, StreamType
    <3>2. Uploading(t)' = Uploading(t) /\ (Taking(t)' => Taking(t))
      BY <2>2, <3>1, <1>n DEF Uploading, Taking, Sound
    <3> QED
      BY <2>1, <3>2, <1>n
  <2>3. CASE t = s
    <3> DEFINE a == Bytes(k.inbound, s, Data)
               b == Bytes(st[s].inbound, s, Data)
               w == Bytes(wire, s, Data)
               o == Bytes(outbox, s, {"Credit"})
    <3>1. /\ k.item \in Nat /\ a \in Nat /\ st[s].item \in Nat /\ b \in Nat /\ w \in Nat /\ o \in Nat
      BY <1>k, <1>t, StreamType, BytesType DEF Tasks
    <3>2. Uploading(s)' = w + a + k.item + (o + c) /\ Uploading(s) = w + b + st[s].item + o
      BY <1>n DEF Uploading
    <3>3. a + k.item + c <= b + st[s].item
      BY DEF Moved
    <3>4. Taking(s)' => Taking(s) /\ a + k.item + c = b + st[s].item
      BY <1>n DEF Taking, Sound, Moved, Discards
    <3> HIDE DEF a, b, w, o
    <3> QED
      BY <2>1, <2>3, <3>1, <3>2, <3>3, <3>4, <1>n
  <2> QED
    BY <2>2, <2>3
<1>5. StartsOK'
  <2> SUFFICES ASSUME NEW t \in Ids PROVE UnstartedOK(t)' /\ AskedOK(t)'
    BY <1>n DEF IInv, StartsOK, AsksNamed
  <2>1. UnstartedOK(t) /\ AskedOK(t)
    BY DEF IInv, StartsOK
  <2>2. CASE t = s
    <3>1. st[s].task # "none" /\ st'[s].task # "none"
      BY <1>s, <1>n DEF Moved
    <3>2. AskedOK(t)'
      BY <2>1, <2>2, <3>1, <1>n DEF AskedOK, IsAsk
    <3> QED
      BY <2>2, <3>1, <3>2 DEF UnstartedOK
  <2>3. CASE t # s
    <3>1. AskedOK(t)'
      BY <2>1, <2>3, <1>n DEF AskedOK, IsAsk
    <3>2. Bytes(outbox', t, Data) = Bytes(outbox, t, Data)
            /\ Bytes(outbox', t, {"Credit"}) = Bytes(outbox, t, {"Credit"})
      BY <2>3, <1>t, StreamType, SMTT(30)
    <3>3. (\A i \in 1..Len(outbox) : outbox[i].stream # t)
            => \A i \in 1..Len(outbox') : outbox'[i].stream # t
      BY <2>3 DEF Says
    <3>4. UnstartedOK(t)'
      BY <2>1, <2>3, <3>2, <3>3, <1>n DEF UnstartedOK, IsAsk, NoTask
    <3> QED
      BY <3>1, <3>4
  <2> QED
    BY <2>2, <2>3
<1>6. EndsOK'
  <2> SUFFICES ASSUME NEW t \in Ids PROVE EndingOK(t)'
    BY DEF EndsOK, IInv
  <2> SUFFICES ASSUME t \notin overrun
               PROVE  /\ ~relay[t].late
                      /\ relay[t].ended => /\ st'[t].task \in {"over", "gone"}
                                           /\ \A i \in 1..Len(outbox') : outbox'[i].stream # t
                      /\ \A i \in 1..Len(outbox') : IsLast(outbox'[i], t) =>
                           /\ st'[t].task \in {"over", "gone"}
                           /\ \A j \in 1..Len(outbox') : i < j => outbox'[j].stream # t
    BY <1>n DEF EndingOK, IsLast
  <2>1. /\ ~relay[t].late
        /\ relay[t].ended => /\ st[t].task \in {"over", "gone"}
                             /\ \A i \in 1..Len(outbox) : outbox[i].stream # t
        /\ \A i \in 1..Len(outbox) : IsLast(outbox[i], t) =>
             /\ st[t].task \in {"over", "gone"}
             /\ \A j \in 1..Len(outbox) : i < j => outbox[j].stream # t
    BY DEF IInv, EndsOK, EndingOK
  <2>l. Len(outbox') \in Nat
    BY DEF Says
  <2>2. CASE t = s
    <3>1. ~relay[t].ended /\ \A i \in 1..Len(outbox) : ~IsLast(outbox[i], t)
      BY <2>1, <2>2, <1>s
    <3>2. ASSUME NEW i \in 1..Len(outbox'), IsLast(outbox'[i], t)
          PROVE  i = Len(outbox') /\ k.task = "over"
      BY <2>2, <3>1, <3>2 DEF Says
    <3> QED
      BY <2>1, <2>2, <2>l, <3>1, <3>2, <1>n
  <2>3. CASE t # s
    <3>1. \A i \in 1..Len(outbox') : outbox'[i].stream = t =>
            i \in 1..Len(outbox) /\ outbox'[i] = outbox[i]
      BY <2>3 DEF Says
    <3> QED
      BY <2>1, <2>3, <3>1, <1>n DEF IsLast
  <2> QED
    BY <2>2, <2>3
<1> QED
  BY <1>1, <1>2, <1>3, <1>4, <1>5, <1>6 DEF IInv

LEMMA StepKeeps ==
  ASSUME IInv, NEW s \in Ids, NEW k, Running(s), Step(s, k), Moved(s, k, 0, 0)
  PROVE  IInv'
<1>t. TypeOK
  BY DEF IInv
<1>1. outbox' = outbox /\ st' = [st EXCEPT ![s] = k] /\ Elsewhere
  BY DEF Step
<1>2. Says(s, k)
  BY <1>1, <1>t DEF Says, TypeOK
<1>3. \A t \in Ids : /\ Bytes(outbox', t, Data)
                          = Bytes(outbox, t, Data) + (IF t = s THEN 0 ELSE 0)
                     /\ Bytes(outbox', t, {"Credit"})
                          = Bytes(outbox, t, {"Credit"}) + (IF t = s THEN 0 ELSE 0)
  BY <1>1, <1>t, StreamType
<1>4. 0 \in Nat
  OBVIOUS
<1> QED
  BY <1>1, <1>2, <1>3, <1>4, TaskMoves

LEMMA SendKeeps ==
  ASSUME IInv, NEW s \in Ids, NEW k, NEW f \in Frames, f.stream = s, Running(s), Send(s, f, k),
         Moved(s, k, Weight(f, s, Data), Weight(f, s, {"Credit"})),
         IsLast(f, s) => k.task = "over"
  PROVE  IInv'
<1> DEFINE d == Weight(f, s, Data)
           c == Weight(f, s, {"Credit"})
<1>t. TypeOK /\ outbox \in Seq(Frames)
  BY DEF IInv, TypeOK
<1>1. outbox' = Append(outbox, f) /\ Room /\ st' = [st EXCEPT ![s] = k] /\ Elsewhere
  BY DEF Send, Put
<1>2. Says(s, k)
  <2>1. outbox' \in Seq(Frames) /\ Len(outbox') = Len(outbox) + 1 /\ Len(outbox) \in Nat
    BY <1>1, <1>t
  <2>2. \A i \in 1..Len(outbox') : \/ (i \in 1..Len(outbox) /\ outbox'[i] = outbox[i])
                                   \/ (i = Len(outbox') /\ outbox'[i] = f)
    BY <1>1, <1>t, <2>1
  <2>3. Len(outbox') <= OUTBOX
    BY <1>1, <2>1, TunnelAssumption DEF Room
  <2> QED
    BY <2>1, <2>2, <2>3 DEF Says
<1>3. d \in Nat /\ c \in Nat
  BY WeightType
<1>4. ASSUME NEW t \in Ids, NEW kinds
      PROVE  Bytes(outbox', t, kinds)
               = Bytes(outbox, t, kinds) + (IF t = s THEN Weight(f, s, kinds) ELSE 0)
  <2>1. Bytes(outbox', t, kinds) = Bytes(outbox, t, kinds) + Weight(f, t, kinds)
    BY <1>1, <1>t, BytesAppend
  <2>2. t # s => Weight(f, t, kinds) = 0
    BY WeightType
  <2> QED
    BY <2>1, <2>2
<1>5. \A t \in Ids : /\ Bytes(outbox', t, Data) = Bytes(outbox, t, Data) + (IF t = s THEN d ELSE 0)
                     /\ Bytes(outbox', t, {"Credit"})
                          = Bytes(outbox, t, {"Credit"}) + (IF t = s THEN c ELSE 0)
  BY <1>4
<1> HIDE DEF d, c
<1>6. Moved(s, k, d, c)
  BY DEF d, c
<1> QED
  BY <1>1, <1>2, <1>3, <1>5, <1>6, TaskMoves

\* What is known of a running task before its step.
LEMMA RunningFacts ==
  ASSUME IInv, NEW s \in Ids, Running(s)
  PROVE  /\ st[s] \in Tasks /\ TaskOK(s, st[s]) /\ st[s].task \in {"run", "cancel"}
         /\ Len(st[s].inbound) <= INBOUND /\ s # NoId /\ s \in Ids \cup {NoId}
         /\ st[s].window \in Int /\ st[s].item \in Nat /\ st[s].chunk \in Nat /\ st[s].made \in Nat
         /\ st[s].inbound \in Seq(Frames) /\ Bytes(st[s].inbound, s, Data) \in Nat
         /\ Rest(st[s]) \in Int
BY StreamType DEF IInv, TypeOK, TasksOK, Running

\* A failed task is not sound any more, and has used no more than before.
LEMMA FailedMoves ==
  ASSUME NEW s \in Ids, NEW k \in Tasks, Len(k.inbound) <= INBOUND, TaskOK(s, k),
         k.task \in {"run", "cancel"}, k.task = st[s].task, Rest(k) <= Rest(st[s]),
         Rest(st[s]) \in Int, Bytes(st[s].inbound, s, Data) \in Nat, st[s].item \in Nat
  PROVE  Moved(s, Failed(k), 0, 0)
<1> DEFINE u == Unheard(k, "off")
           f == [u EXCEPT !.down = "reset"]
<1>a. u \in Tasks /\ u.inbound = <<>> /\ u.task = k.task /\ u.up = "off"
      /\ u.item = 0 /\ u.window = k.window /\ u.chunk = k.chunk
  BY UnheardIs
<1>b. Failed(k) = f
  BY DEF Failed
<1> HIDE DEF u
<1>1. f \in Tasks /\ f.inbound = <<>> /\ f.task = k.task /\ f.down = "reset" /\ f.up = "off"
      /\ f.item = 0 /\ f.window = k.window /\ f.chunk = k.chunk
  BY <1>a DEF Tasks
<1>2. k.window \in Int /\ k.chunk \in Nat
  BY DEF Tasks
<1> HIDE DEF f
<1>3. Rest(f) \in Int /\ Rest(f) <= Rest(k) /\ Rest(k) \in Int
  BY <1>1, <1>2 DEF Rest
<1>4. TaskOK(s, f)
  BY <1>1 DEF TaskOK
<1>5. Rest(f) + 0 <= Rest(st[s])
  BY <1>3
<1>6. /\ Len(f.inbound) <= INBOUND
      /\ Bytes(f.inbound, s, Data) + f.item + 0 <= Bytes(st[s].inbound, s, Data) + st[s].item
  BY <1>1, BytesEmpty, TunnelAssumption
<1> QED
  BY <1>1, <1>b, <1>4, <1>5, <1>6 DEF Moved

\* A task whose upload and window are left alone keeps its bytes.
LEMMA ControlMoves ==
  ASSUME IInv, NEW s \in Ids, Running(s), NEW k \in Tasks,
         k.window = st[s].window, k.inbound = st[s].inbound, k.item = st[s].item, k.up = st[s].up,
         k.task \in {st[s].task, "gone"}, st[s].down \notin {"push", "reset"},
         k.down # "push", k.down = "spend" => k.chunk \in Sizes,
         k.ws => st[s].ws, k.down \in {"request", "response"} => st[s].down \in {"request", "response"}
  PROVE  Moved(s, k, 0, 0)
<1>1. /\ st[s] \in Tasks /\ TaskOK(s, st[s]) /\ st[s].task \in {"run", "cancel"}
      /\ Len(st[s].inbound) <= INBOUND /\ Bytes(st[s].inbound, s, Data) \in Nat
      /\ st[s].item \in Nat /\ st[s].window \in Int
  BY RunningFacts
<1>2. TaskOK(s, k)
  BY <1>1 DEF TaskOK
<1>3. Rest(k) = st[s].window /\ Rest(st[s]) = st[s].window
  BY <1>1 DEF Rest
<1>4. Rest(k) + 0 <= Rest(st[s]) /\ Rest(k) + 0 = Rest(st[s])
  BY <1>1, <1>3
<1>5. /\ Bytes(k.inbound, s, Data) + k.item + 0 = Bytes(st[s].inbound, s, Data) + st[s].item
      /\ Bytes(k.inbound, s, Data) + k.item + 0 <= Bytes(st[s].inbound, s, Data) + st[s].item
  BY <1>1
<1> QED
  BY <1>1, <1>2, <1>4, <1>5 DEF Moved

LEMMA CancelKeeps == ASSUME IInv, NEW s \in Ids, Cancel(s) PROVE IInv'
<1> DEFINE u == Unheard(st[s], "off")
           k == [u EXCEPT !.task = "gone"]
<1>1. Running(s) /\ Step(s, k)
  BY DEF Cancel, Running
<1>2. /\ st[s] \in Tasks /\ TaskOK(s, st[s]) /\ Rest(st[s]) \in Int
      /\ Bytes(st[s].inbound, s, Data) \in Nat /\ st[s].item \in Nat
  BY <1>1, RunningFacts
<1>a. u \in Tasks /\ u.inbound = <<>> /\ u.up = "off" /\ u.item = 0 /\ u.window = st[s].window
      /\ u.chunk = st[s].chunk /\ u.down = st[s].down /\ u.ws = st[s].ws
  BY <1>2, UnheardIs
<1> HIDE DEF u
<1>3. /\ k \in Tasks /\ k.task = "gone" /\ k.up = "off" /\ k.item = 0
      /\ k.window = st[s].window /\ k.chunk = st[s].chunk /\ k.down = st[s].down
      /\ k.inbound = <<>> /\ k.ws = st[s].ws
  BY <1>a DEF Tasks
<1> HIDE DEF k
<1>4. TaskOK(s, k) /\ Rest(k) + 0 <= Rest(st[s])
  BY <1>2, <1>3 DEF TaskOK, Rest
<1>5. /\ Len(k.inbound) <= INBOUND
      /\ Bytes(k.inbound, s, Data) + k.item + 0 <= Bytes(st[s].inbound, s, Data) + st[s].item
  BY <1>2, <1>3, BytesEmpty, TunnelAssumption
<1>6. Moved(s, k, 0, 0)
  BY <1>3, <1>4, <1>5 DEF Moved
<1> QED
  BY <1>1, <1>6, StepKeeps

\* LocalBreaks, Respond, Take and Forward may fail the exchange.
LEMMA FailingKeeps ==
  ASSUME IInv, NEW s \in Ids, Running(s), Step(s, Failed(st[s])) PROVE IInv'
<1>1. /\ st[s] \in Tasks /\ TaskOK(s, st[s]) /\ Len(st[s].inbound) <= INBOUND
      /\ Rest(st[s]) \in Int /\ Rest(st[s]) <= Rest(st[s]) /\ st[s].task \in {"run", "cancel"}
      /\ Bytes(st[s].inbound, s, Data) \in Nat /\ st[s].item \in Nat
  BY RunningFacts
<1>2. Moved(s, Failed(st[s]), 0, 0)
  BY <1>1, FailedMoves
<1> QED
  BY <1>2, StepKeeps

LEMMA RespondKeeps == ASSUME IInv, NEW s \in Ids, Respond(s) PROVE IInv'
<1>1. Running(s) /\ st[s].down = "request"
  BY DEF Respond
<1>2. ASSUME NEW accepted \in BOOLEAN,
             Step(s, [st[s] EXCEPT !.down = "response", !.ws = @ /\ accepted])
      PROVE  IInv'
  <2> DEFINE k == [st[s] EXCEPT !.down = "response", !.ws = @ /\ accepted]
  <2>1. st[s] \in Tasks
    BY <1>1, RunningFacts
  <2>2. /\ k \in Tasks /\ k.task = st[s].task /\ k.up = st[s].up /\ k.item = st[s].item
        /\ k.window = st[s].window /\ k.down = "response"
        /\ k.inbound = st[s].inbound /\ (k.ws => st[s].ws)
    BY <2>1 DEF Tasks
  <2> HIDE DEF k
  <2>3. Moved(s, k, 0, 0)
    BY <1>1, <2>2, ControlMoves
  <2> QED
    BY <1>1, <1>2, <2>3, StepKeeps DEF k
<1> QED
  BY <1>1, <1>2, FailingKeeps DEF Respond

LEMMA LastKeeps ==
  ASSUME IInv, NEW s \in Ids, Running(s), st[s].down = "idle",
         Step(s, [st[s] EXCEPT !.down = "last"])
  PROVE  IInv'
<1> DEFINE k == [st[s] EXCEPT !.down = "last"]
<1>1. st[s] \in Tasks
  BY RunningFacts
<1>2. /\ k \in Tasks /\ k.task = st[s].task /\ k.up = st[s].up /\ k.item = st[s].item
      /\ k.window = st[s].window /\ k.down = "last" /\ k.inbound = st[s].inbound /\ k.ws = st[s].ws
  BY <1>1 DEF Tasks
<1> HIDE DEF k
<1>3. Moved(s, k, 0, 0)
  BY <1>2, ControlMoves
<1> QED
  BY <1>3, StepKeeps DEF k

LEMMA LocalEndsKeeps ==
  ASSUME IInv, NEW s \in Ids, LocalEnds(s) \/ LocalBreaks(s) PROVE IInv'
BY LastKeeps, FailingKeeps DEF LocalEnds, LocalBreaks

LEMMA ProduceKeeps == ASSUME IInv, NEW s \in Ids, Produce(s) PROVE IInv'
<1>1. Running(s) /\ st[s].down = "idle"
  BY DEF Produce
<1>2. PICK n \in Sizes : Step(s, [st[s] EXCEPT !.down = "spend", !.chunk = n, !.made = @ + 1])
  BY DEF Produce
<1> DEFINE k == [st[s] EXCEPT !.down = "spend", !.chunk = n, !.made = @ + 1]
<1>3. st[s] \in Tasks /\ st[s].made + 1 \in Nat /\ n \in Nat
  BY <1>1, RunningFacts, TunnelAssumption
<1>4. /\ k \in Tasks /\ k.task = st[s].task /\ k.up = st[s].up /\ k.item = st[s].item
      /\ k.window = st[s].window /\ k.down = "spend" /\ k.inbound = st[s].inbound
      /\ k.ws = st[s].ws /\ k.chunk = n
  BY <1>3 DEF Tasks
<1> HIDE DEF k
<1>5. Moved(s, k, 0, 0)
  BY <1>1, <1>4, ControlMoves
<1> QED
  BY <1>1, <1>2, <1>5, StepKeeps DEF k

\* The window opens to what is paid for: it was open, and what is paid is the
\* size of a message.
LEMMA SpendWindowKeeps == ASSUME IInv, NEW s \in Ids, SpendWindow(s) PROVE IInv'
<1> DEFINE k == Spend(st[s])
<1>1. Running(s) /\ st[s].down = "spend" /\ st[s].window > 0 /\ Step(s, k)
  BY DEF SpendWindow, MaySpend
<1>2. /\ st[s] \in Tasks /\ TaskOK(s, st[s]) /\ st[s].task \in {"run", "cancel"}
      /\ Len(st[s].inbound) <= INBOUND /\ Bytes(st[s].inbound, s, Data) \in Nat
      /\ st[s].item \in Nat /\ st[s].window \in Int /\ st[s].chunk \in Nat
      /\ st[s].window - st[s].chunk \in Int
  BY <1>1, RunningFacts
<1>3. /\ k \in Tasks /\ k.task = st[s].task /\ k.up = st[s].up /\ k.item = st[s].item
      /\ k.window = st[s].window - st[s].chunk /\ k.down = "push" /\ k.inbound = st[s].inbound
      /\ k.ws = st[s].ws /\ k.chunk = st[s].chunk
  BY <1>2 DEF Tasks, Spend
<1> HIDE DEF k
<1>4. ASSUME NEW n \in Sizes, Largest(n) PROVE k.window + n > 0
  <2>1. st[s].chunk <= n /\ n \in Nat
    BY <1>1, <1>2, <1>4, TunnelAssumption DEF TaskOK, Largest
  <2> QED
    BY <1>1, <1>2, <1>3, <2>1
<1>5. TaskOK(s, k)
  BY <1>1, <1>2, <1>3, <1>4 DEF TaskOK
<1>6. Rest(k) = st[s].window /\ Rest(st[s]) = st[s].window
  BY <1>1, <1>2, <1>3 DEF Rest
<1>7. /\ Rest(k) + 0 = Rest(st[s]) /\ Rest(k) + 0 <= Rest(st[s])
      /\ Bytes(k.inbound, s, Data) + k.item + 0 = Bytes(st[s].inbound, s, Data) + st[s].item
      /\ Bytes(k.inbound, s, Data) + k.item + 0 <= Bytes(st[s].inbound, s, Data) + st[s].item
  BY <1>2, <1>3, <1>6
<1>8. Moved(s, k, 0, 0)
  BY <1>1, <1>2, <1>3, <1>5, <1>7 DEF Moved
<1> QED
  BY <1>1, <1>8, StepKeeps

\* An accepted WebSocket starts to take messages with nothing in hand.
LEMMA PushResponseKeeps == ASSUME IInv, NEW s \in Ids, PushResponse(s) PROVE IInv'
<1> DEFINE f == Frame("Response", s, 0)
           k == [st[s] EXCEPT !.down = "idle", !.up = IF st[s].ws THEN "recv" ELSE @]
<1>1. Running(s) /\ st[s].down = "response" /\ Send(s, f, k)
  BY DEF PushResponse
<1>2. /\ st[s] \in Tasks /\ TaskOK(s, st[s]) /\ st[s].task \in {"run", "cancel"}
      /\ Len(st[s].inbound) <= INBOUND /\ Bytes(st[s].inbound, s, Data) \in Nat
      /\ st[s].item \in Nat /\ st[s].window \in Int
  BY <1>1, RunningFacts
<1>3. /\ k \in Tasks /\ k.task = st[s].task /\ k.item = st[s].item
      /\ k.up = (IF st[s].ws THEN "recv" ELSE st[s].up)
      /\ k.window = st[s].window /\ k.down = "idle" /\ k.inbound = st[s].inbound
      /\ k.ws = st[s].ws
  BY <1>2 DEF Tasks
<1>4. /\ f \in Frames /\ f.stream = s /\ ~IsLast(f, s)
      /\ Weight(f, s, Data) = 0 /\ Weight(f, s, {"Credit"}) = 0
  BY DEF Frame, Frames, IsLast, Weight, Data
<1> HIDE DEF k, f
<1>5. st[s].ws => st[s].up = "off" /\ st[s].item = 0
  BY <1>1, <1>2 DEF TaskOK
<1>6. TaskOK(s, k)
  BY <1>2, <1>3, <1>5 DEF TaskOK
<1>7. Rest(k) = st[s].window /\ Rest(st[s]) = st[s].window
  BY <1>1, <1>2, <1>3 DEF Rest
<1>8. /\ Rest(k) + 0 = Rest(st[s]) /\ Rest(k) + 0 <= Rest(st[s])
      /\ Bytes(k.inbound, s, Data) + k.item + 0 = Bytes(st[s].inbound, s, Data) + st[s].item
      /\ Bytes(k.inbound, s, Data) + k.item + 0 <= Bytes(st[s].inbound, s, Data) + st[s].item
  BY <1>2, <1>3, <1>7
<1>9. Moved(s, k, 0, 0)
  BY <1>1, <1>2, <1>3, <1>5, <1>6, <1>8 DEF Moved, Discards
<1> QED
  BY <1>1, <1>4, <1>9, SendKeeps

LEMMA PushChunkKeeps == ASSUME IInv, NEW s \in Ids, PushChunk(s) PROVE IInv'
<1> DEFINE f == Frame(IF st[s].ws THEN "Message" ELSE "Body", s, st[s].chunk)
           k == [st[s] EXCEPT !.down = "idle", !.chunk = 0]
<1>1. Running(s) /\ st[s].down = "push" /\ Send(s, f, k)
  BY DEF PushChunk
<1>2. /\ st[s] \in Tasks /\ TaskOK(s, st[s]) /\ st[s].task \in {"run", "cancel"}
      /\ Len(st[s].inbound) <= INBOUND /\ Bytes(st[s].inbound, s, Data) \in Nat
      /\ st[s].item \in Nat /\ st[s].window \in Int /\ st[s].chunk \in Nat
  BY <1>1, RunningFacts
<1>3. /\ k \in Tasks /\ k.task = st[s].task /\ k.item = st[s].item /\ k.up = st[s].up
      /\ k.window = st[s].window /\ k.down = "idle" /\ k.inbound = st[s].inbound
      /\ k.ws = st[s].ws
  BY <1>2 DEF Tasks
<1>4. /\ f \in Frames /\ f.stream = s /\ ~IsLast(f, s)
      /\ Weight(f, s, Data) = st[s].chunk /\ Weight(f, s, {"Credit"}) = 0
  BY <1>2 DEF Frame, Frames, IsLast, Weight, Data
<1> HIDE DEF k, f
<1>6. TaskOK(s, k)
  BY <1>2, <1>3 DEF TaskOK
<1>7. Rest(k) = st[s].window /\ Rest(st[s]) = st[s].window + st[s].chunk
  BY <1>1, <1>2, <1>3 DEF Rest
<1>8. /\ Rest(k) + st[s].chunk = Rest(st[s]) /\ Rest(k) + st[s].chunk <= Rest(st[s])
      /\ Bytes(k.inbound, s, Data) + k.item + 0 = Bytes(st[s].inbound, s, Data) + st[s].item
      /\ Bytes(k.inbound, s, Data) + k.item + 0 <= Bytes(st[s].inbound, s, Data) + st[s].item
  BY <1>2, <1>3, <1>7
<1>9. Moved(s, k, st[s].chunk, 0)
  BY <1>1, <1>2, <1>3, <1>6, <1>8 DEF Moved, Discards
<1> QED
  BY <1>1, <1>4, <1>9, SendKeeps

LEMMA PushCreditKeeps == ASSUME IInv, NEW s \in Ids, PushCredit(s) PROVE IInv'
<1> DEFINE f == Frame("Credit", s, st[s].item)
           k == [st[s] EXCEPT !.up = "recv", !.item = 0]
<1>1. Running(s) /\ st[s].up = "credit" /\ Send(s, f, k)
  BY DEF PushCredit
<1>2. /\ st[s] \in Tasks /\ TaskOK(s, st[s]) /\ st[s].task \in {"run", "cancel"}
      /\ Len(st[s].inbound) <= INBOUND /\ Bytes(st[s].inbound, s, Data) \in Nat
      /\ st[s].item \in Nat /\ Rest(st[s]) \in Int
  BY <1>1, RunningFacts
<1>3. /\ k \in Tasks /\ k.task = st[s].task /\ k.item = 0 /\ k.up = "recv"
      /\ k.window = st[s].window /\ k.down = st[s].down /\ k.inbound = st[s].inbound
      /\ k.ws = st[s].ws /\ k.chunk = st[s].chunk
  BY <1>2 DEF Tasks
<1>4. /\ f \in Frames /\ f.stream = s /\ ~IsLast(f, s)
      /\ Weight(f, s, Data) = 0 /\ Weight(f, s, {"Credit"}) = st[s].item
  BY <1>2 DEF Frame, Frames, IsLast, Weight, Data
<1> HIDE DEF k, f
<1>6. TaskOK(s, k)
  BY <1>1, <1>2, <1>3 DEF TaskOK
<1>7. Rest(k) = Rest(st[s])
  BY <1>3 DEF Rest
<1>8. /\ Rest(k) + 0 = Rest(st[s]) /\ Rest(k) + 0 <= Rest(st[s])
      /\ Bytes(k.inbound, s, Data) + k.item + st[s].item = Bytes(st[s].inbound, s, Data) + st[s].item
      /\ Bytes(k.inbound, s, Data) + k.item + st[s].item <= Bytes(st[s].inbound, s, Data) + st[s].item
  BY <1>2, <1>3, <1>7
<1>9. Moved(s, k, 0, st[s].item)
  BY <1>1, <1>2, <1>3, <1>6, <1>8 DEF Moved, Discards
<1> QED
  BY <1>1, <1>4, <1>9, SendKeeps

LEMMA PushLastKeeps == ASSUME IInv, NEW s \in Ids, PushLast(s) PROVE IInv'
<1> DEFINE f == Frame(IF st[s].down = "reset" THEN "Reset"
                      ELSE IF st[s].ws THEN "Close" ELSE "End", s, 0)
           u == Unheard(st[s], "off")
           k == [u EXCEPT !.task = "over"]
<1>1. Running(s) /\ Send(s, f, k)
  BY DEF PushLast, Over
<1>2. /\ st[s] \in Tasks /\ TaskOK(s, st[s])
      /\ Rest(st[s]) \in Int /\ Bytes(st[s].inbound, s, Data) \in Nat /\ st[s].item \in Nat
  BY <1>1, RunningFacts
<1>a. u \in Tasks /\ u.inbound = <<>> /\ u.up = "off" /\ u.item = 0 /\ u.window = st[s].window
      /\ u.chunk = st[s].chunk /\ u.down = st[s].down /\ u.ws = st[s].ws
  BY <1>2, UnheardIs
<1> HIDE DEF u
<1>3. /\ k \in Tasks /\ k.task = "over" /\ k.item = 0 /\ k.up = "off"
      /\ k.window = st[s].window /\ k.down = st[s].down /\ k.inbound = <<>>
      /\ k.ws = st[s].ws /\ k.chunk = st[s].chunk
  BY <1>a DEF Tasks
<1>4. /\ f \in Frames /\ f.stream = s
      /\ Weight(f, s, Data) = 0 /\ Weight(f, s, {"Credit"}) = 0
  BY DEF Frame, Frames, Weight, Data
<1> HIDE DEF k, f
<1>6. TaskOK(s, k)
  BY <1>2, <1>3 DEF TaskOK
<1>7. Rest(k) + 0 <= Rest(st[s])
  BY <1>2, <1>3 DEF Rest
<1>8. /\ Len(k.inbound) <= INBOUND
      /\ Bytes(k.inbound, s, Data) + k.item + 0 <= Bytes(st[s].inbound, s, Data) + st[s].item
  BY <1>2, <1>3, BytesEmpty, TunnelAssumption
<1>9. Moved(s, k, 0, 0)
  BY <1>3, <1>6, <1>7, <1>8 DEF Moved
<1> QED
  BY <1>1, <1>3, <1>4, <1>9, SendKeeps

\* What a task takes is the first of what waits for it.
LEMMA Waiting ==
  ASSUME IInv, NEW s \in Ids, Running(s), st[s].inbound # <<>>
  PROVE  /\ Tail(st[s].inbound) \in Seq(Frames) /\ Head(st[s].inbound) \in Frames
         /\ Head(st[s].inbound).len \in Nat /\ Len(Tail(st[s].inbound)) <= INBOUND
         /\ \A i \in 1..Len(Tail(st[s].inbound)) : Tail(st[s].inbound)[i].stream = s
         /\ Bytes(Tail(st[s].inbound), s, Data) \in Nat
         /\ Bytes(st[s].inbound, s, Data)
              = Bytes(Tail(st[s].inbound), s, Data)
                  + (IF Head(st[s].inbound).kind \in Data THEN Head(st[s].inbound).len ELSE 0)
<1> DEFINE q == st[s].inbound
<1>1. q \in Seq(Frames) /\ Len(q) <= INBOUND /\ \A i \in 1..Len(q) : q[i].stream = s
  BY RunningFacts DEF TaskOK
<1> HIDE DEF q
<1>2. q # <<>>
  BY DEF q
<1>3. /\ Tail(q) \in Seq(Frames) /\ Len(Tail(q)) = Len(q) - 1 /\ Len(q) \in Nat \ {0}
      /\ Head(q) = q[1] /\ \A i \in 1..Len(Tail(q)) : Tail(q)[i] = q[i + 1]
  BY <1>1, <1>2
<1>4. Head(q) \in Frames /\ Bytes(q, s, Data) = Weight(Head(q), s, Data) + Bytes(Tail(q), s, Data)
  BY <1>1, <1>2, BytesTail
<1>5. Head(q).len \in Nat /\ Head(q).stream = s
  BY <1>1, <1>3, <1>4 DEF Frames
<1>6. Len(Tail(q)) <= INBOUND
  BY <1>1, <1>3, TunnelAssumption
<1>7. \A i \in 1..Len(Tail(q)) : Tail(q)[i].stream = s
  BY <1>1, <1>3
<1>8. Bytes(Tail(q), s, Data) \in Nat
  BY <1>3, BytesType
<1>9. Bytes(q, s, Data) = Bytes(Tail(q), s, Data) + (IF Head(q).kind \in Data THEN Head(q).len ELSE 0)
  BY <1>4, <1>5, <1>8 DEF Weight
<1> QED
  BY <1>3, <1>4, <1>5, <1>6, <1>7, <1>8, <1>9 DEF q

\* Nothing waits in a queue that is dropped.
LEMMA NoneWait ==
  <<>> \in Seq(Frames) /\ Len(<<>>) = 0 /\ Len(<<>>) <= INBOUND /\ 1..Len(<<>>) = {}
<1>1. Len(<<>>) = 0
  OBVIOUS
<1>2. 1..0 = {}
  OBVIOUS
<1>3. INBOUND \in Nat
  BY TunnelAssumption
<1> QED
  BY <1>1, <1>2, <1>3

LEMMA TakeKeeps == ASSUME IInv, NEW s \in Ids, Take(s) PROVE IInv'
<1> DEFINE j == st[s]
           q == j.inbound
           i == Head(q)
           rest == [j EXCEPT !.inbound = Tail(@)]
           k == Taken(j)
<1>1. Running(s) /\ j.up = "recv" /\ q # <<>> /\ Step(s, k)
  BY DEF Take
<1>2. /\ j \in Tasks /\ TaskOK(s, j) /\ j.task \in {"run", "cancel"}
      /\ j.item = 0 /\ Rest(j) \in Int /\ j.window \in Int /\ Bytes(q, s, Data) \in Nat
  BY <1>1, RunningFacts DEF TaskOK
<1>3. /\ Tail(q) \in Seq(Frames) /\ i \in Frames /\ i.len \in Nat /\ Len(Tail(q)) <= INBOUND
      /\ \A n \in 1..Len(Tail(q)) : Tail(q)[n].stream = s
      /\ Bytes(Tail(q), s, Data) \in Nat
      /\ Bytes(q, s, Data) = Bytes(Tail(q), s, Data) + (IF i.kind \in Data THEN i.len ELSE 0)
  BY <1>1, Waiting
<1>4. /\ rest \in Tasks /\ rest.task = j.task /\ rest.ws = j.ws /\ rest.up = j.up
      /\ rest.down = j.down /\ rest.item = j.item /\ rest.chunk = j.chunk
      /\ rest.window = j.window /\ rest.inbound = Tail(q)
  BY <1>2, <1>3 DEF Tasks
<1>5. k = IF i.kind = (IF j.ws THEN "Message" ELSE "Body")
            THEN [rest EXCEPT !.up = "send", !.item = i.len]
          ELSE IF ~j.ws /\ i.kind = "End" THEN Unheard(j, "done")
          ELSE IF j.ws /\ i.kind = "Close" THEN [rest EXCEPT !.up = "close"]
          ELSE Failed(rest)
  BY DEF Taken
<1>6. TaskOK(s, rest) /\ Rest(rest) = Rest(j)
  BY <1>1, <1>2, <1>3, <1>4 DEF TaskOK, Rest
<1> HIDE DEF rest, k, i, q, j
<1>7. CASE k = Failed(rest)
  <2>0. /\ rest \in Tasks /\ Len(rest.inbound) <= INBOUND /\ TaskOK(s, rest)
        /\ rest.task \in {"run", "cancel"} /\ rest.task = st[s].task
        /\ Rest(rest) <= Rest(st[s]) /\ Rest(st[s]) \in Int
        /\ Bytes(st[s].inbound, s, Data) \in Nat /\ st[s].item \in Nat
    BY <1>2, <1>3, <1>4, <1>6 DEF j, q
  <2>1. Moved(s, Failed(rest), 0, 0)
    BY <2>0, FailedMoves
  <2> QED
    BY <1>1, <1>7, <2>1, StepKeeps
<1>8. CASE k # Failed(rest)
  <2>1. /\ k \in Tasks /\ k.task = j.task /\ k.ws = j.ws /\ k.up \in {"send", "done", "close"}
        /\ k.down = j.down /\ k.chunk = j.chunk /\ k.window = j.window
        /\ \/ k.inbound = Tail(q) /\ k.item = (IF i.kind \in Data THEN i.len ELSE 0) /\ k.up # "done"
           \/ k.inbound = <<>> /\ k.item = 0 /\ k.up = "done"
    <3>1. CASE i.kind = (IF j.ws THEN "Message" ELSE "Body")
      <4>1. k = [rest EXCEPT !.up = "send", !.item = i.len]
        BY <1>5, <3>1
      <4> QED
        BY <1>3, <1>4, <3>1, <4>1 DEF Tasks, Data
    <3>2. CASE ~j.ws /\ i.kind = "End"
      <4>1. k = Unheard(j, "done")
        BY <1>5, <3>2
      <4> QED
        BY <1>2, <3>2, <4>1, UnheardIs
    <3>3. CASE j.ws /\ i.kind = "Close"
      <4>1. k = [rest EXCEPT !.up = "close"]
        BY <1>5, <3>3
      <4> QED
        BY <1>2, <1>4, <3>3, <4>1 DEF Tasks, Data
    <3> QED
      BY <1>5, <1>8, <3>1, <3>2, <3>3
  <2>a. \A n \in 1..Len(k.inbound) : k.inbound[n].stream = s
    BY <1>3, <2>1, NoneWait
  <2>2. TaskOK(s, k)
    BY <1>1, <1>2, <2>1, <2>a DEF TaskOK
  <2>3. Rest(k) = Rest(j)
    BY <2>1 DEF Rest
  <2>4. Rest(k) + 0 = Rest(j) /\ Rest(k) + 0 <= Rest(j)
    BY <1>2, <2>3
  <2>5. /\ Len(k.inbound) <= INBOUND
        /\ Bytes(k.inbound, s, Data) + k.item + 0 <= Bytes(q, s, Data) + j.item
        /\ k.up # "done" => Bytes(k.inbound, s, Data) + k.item + 0 = Bytes(q, s, Data) + j.item
    <3>1. CASE k.inbound = <<>> /\ k.item = 0 /\ k.up = "done"
      BY <1>2, <3>1, BytesEmpty, NoneWait
    <3>2. CASE k.inbound = Tail(q) /\ k.item = (IF i.kind \in Data THEN i.len ELSE 0)
      BY <1>2, <1>3, <3>2
    <3> QED
      BY <2>1, <3>1, <3>2
  <2>6. Moved(s, k, 0, 0)
    BY <1>1, <1>2, <1>3, <2>1, <2>2, <2>4, <2>5 DEF Moved, Discards, j, q
  <2> QED
    BY <1>1, <2>6, StepKeeps
<1> QED
  BY <1>7, <1>8

LEMMA ForwardKeeps == ASSUME IInv, NEW s \in Ids, Forward(s) PROVE IInv'
<1>1. Running(s) /\ st[s].up \in {"send", "close"}
  BY DEF Forward
<1>2. /\ st[s] \in Tasks /\ TaskOK(s, st[s]) /\ st[s].task \in {"run", "cancel"}
      /\ Len(st[s].inbound) <= INBOUND /\ Bytes(st[s].inbound, s, Data) \in Nat
      /\ st[s].item \in Nat /\ Rest(st[s]) \in Int
  BY <1>1, RunningFacts
<1>3. ASSUME NEW k \in Tasks, Step(s, k), k.task = st[s].task, k.ws = st[s].ws, k.down = st[s].down,
             k.chunk = st[s].chunk, k.window = st[s].window,
             \/ k.inbound = st[s].inbound /\ k.up = "credit" /\ k.item = st[s].item
             \/ k.inbound \in {st[s].inbound, <<>>} /\ k.up \in {"done", "discard"} /\ k.item = 0
      PROVE  IInv'
  <2>1. TaskOK(s, k)
    BY <1>1, <1>2, <1>3 DEF TaskOK
  <2>2. Rest(k) = Rest(st[s])
    BY <1>3 DEF Rest
  <2>3. Rest(k) + 0 = Rest(st[s]) /\ Rest(k) + 0 <= Rest(st[s])
    BY <1>2, <2>2
  <2>4. /\ Len(k.inbound) <= INBOUND
        /\ Bytes(k.inbound, s, Data) + k.item + 0 <= Bytes(st[s].inbound, s, Data) + st[s].item
        /\ k.up \notin Discards =>
             Bytes(k.inbound, s, Data) + k.item + 0 = Bytes(st[s].inbound, s, Data) + st[s].item
    BY <1>2, <1>3, BytesEmpty, TunnelAssumption DEF Discards
  <2>5. Moved(s, k, 0, 0)
    BY <1>1, <1>2, <1>3, <2>1, <2>3, <2>4 DEF Moved, Discards
  <2> QED
    BY <1>1, <1>3, <2>5, StepKeeps
<1>4. CASE Step(s, [st[s] EXCEPT !.up = "credit"])
  BY <1>2, <1>3, <1>4 DEF Tasks
<1>5. CASE Step(s, [Unheard(st[s], "done") EXCEPT !.closing = TRUE])
  <2> DEFINE u == Unheard(st[s], "done")
             k == [u EXCEPT !.closing = TRUE]
  <2>1. /\ u \in Tasks /\ u.up = "done" /\ u.item = 0 /\ u.inbound = <<>> /\ u.task = st[s].task
        /\ u.ws = st[s].ws /\ u.down = st[s].down /\ u.chunk = st[s].chunk /\ u.window = st[s].window
    BY <1>2, UnheardIs
  <2> HIDE DEF u
  <2>2. /\ k \in Tasks /\ k.up = "done" /\ k.item = 0 /\ k.inbound = <<>> /\ k.task = st[s].task
        /\ k.ws = st[s].ws /\ k.down = st[s].down /\ k.chunk = st[s].chunk /\ k.window = st[s].window
    BY <2>1 DEF Tasks
  <2>3. Step(s, k)
    BY <1>5 DEF u
  <2> HIDE DEF k
  <2> QED
    BY <1>3, <2>2, <2>3
<1>6. CASE Step(s, [st[s] EXCEPT !.up = "discard", !.item = 0])
  BY <1>2, <1>3, <1>6 DEF Tasks
<1> QED
  BY <1>1, <1>4, <1>5, <1>6, FailingKeeps DEF Forward

LEMMA DiscardKeeps == ASSUME IInv, NEW s \in Ids, Discard(s) PROVE IInv'
<1> DEFINE k == IF Head(st[s].inbound).kind = "End" THEN Unheard(st[s], "discarded")
                ELSE [st[s] EXCEPT !.inbound = Tail(@)]
<1>1. Running(s) /\ st[s].up = "discard" /\ st[s].inbound # <<>> /\ Step(s, k)
  BY DEF Discard
<1>2. st[s] \in Tasks /\ TaskOK(s, st[s]) /\ Rest(st[s]) \in Int /\ st[s].task \in {"run", "cancel"}
      /\ Bytes(st[s].inbound, s, Data) \in Nat /\ st[s].item \in Nat
  BY <1>1, RunningFacts
<1>3. /\ Tail(st[s].inbound) \in Seq(Frames) /\ Len(Tail(st[s].inbound)) <= INBOUND
      /\ \A i \in 1..Len(Tail(st[s].inbound)) : Tail(st[s].inbound)[i].stream = s
      /\ Bytes(Tail(st[s].inbound), s, Data) \in Nat
      /\ Bytes(Tail(st[s].inbound), s, Data) <= Bytes(st[s].inbound, s, Data)
  BY <1>1, Waiting
<1>4. /\ k \in Tasks /\ k.task = st[s].task /\ k.ws = st[s].ws /\ k.up \in Discards
      /\ k.down = st[s].down /\ k.chunk = st[s].chunk /\ k.window = st[s].window
      /\ \/ k.inbound = Tail(st[s].inbound) /\ k.item = st[s].item
         \/ k.inbound = <<>> /\ k.item = 0
  <2>1. CASE Head(st[s].inbound).kind = "End"
    BY <1>2, <2>1, UnheardIs DEF Discards
  <2>2. CASE Head(st[s].inbound).kind # "End"
    BY <1>1, <1>2, <1>3, <2>2 DEF Tasks, Discards
  <2> QED
    BY <2>1, <2>2
<1> HIDE DEF k
<1>a. \A n \in 1..Len(k.inbound) : k.inbound[n].stream = s
  BY <1>3, <1>4, NoneWait
<1>5. TaskOK(s, k)
  BY <1>1, <1>2, <1>4, <1>a DEF TaskOK, Discards
<1>6. Rest(k) = Rest(st[s])
  BY <1>4 DEF Rest
<1>7. Rest(k) + 0 = Rest(st[s]) /\ Rest(k) + 0 <= Rest(st[s])
  BY <1>2, <1>6
<1>8. /\ Len(k.inbound) <= INBOUND
      /\ Bytes(k.inbound, s, Data) + k.item + 0 <= Bytes(st[s].inbound, s, Data) + st[s].item
  <2>1. CASE k.inbound = <<>> /\ k.item = 0
    BY <1>2, <2>1, BytesEmpty, NoneWait
  <2>2. CASE k.inbound = Tail(st[s].inbound) /\ k.item = st[s].item
    BY <1>2, <1>3, <2>2
  <2> QED
    BY <1>4, <2>1, <2>2
<1>9. Moved(s, k, 0, 0)
  BY <1>2, <1>4, <1>5, <1>7, <1>8 DEF Moved
<1> QED
  BY <1>1, <1>9, StepKeeps

LEMMA TasksKeep ==
  ASSUME IInv, NEW s \in Ids, Working(s) \/ LocalServer(s) PROVE IInv'
BY PushResponseKeeps, SpendWindowKeeps, PushChunkKeeps, PushLastKeeps, TakeKeeps, PushCreditKeeps,
   DiscardKeeps, CancelKeeps, RespondKeeps, ProduceKeeps, LocalEndsKeeps, ForwardKeeps
   DEF Working, LocalServer

----------------------------------------------------------------------------
(* The run loop and the serve loop.                                        *)

\* Between two sessions, and at the start of one, there are no streams.
LEMMA FreshKeeps ==
  ASSUME Fresh, status' \in {"Connecting", "Online", "Retrying", "Rejected"},
         serve' \in {"select", "beat"}, sessions' \in 0..MaxSessions
  PROVE  IInv'
<1>n. NoTask \in Tasks /\ Unknown \in Peers /\ TaskOK(0, NoTask)
  <2>1. WINDOW \in Int /\ <<>> \in Seq(Frames) /\ Len(<<>>) = 0
    BY TunnelAssumption
  <2>2. NoTask \in Tasks
    BY <2>1 DEF NoTask, Tasks
  <2>3. \A n \in Sizes : WINDOW + n > 0
    BY TunnelAssumption
  <2>4. TaskOK(0, NoTask)
    BY <2>1, <2>3 DEF TaskOK, NoTask
  <2> QED
    BY <2>2, <2>4 DEF Unknown, Peers
<1>e. /\ outbox' = <<>> /\ wire' = <<>> /\ open' = {} /\ overrun' = {} /\ Len(<<>>) = 0
      /\ <<>> \in Seq(Frames) /\ st' = [s \in Ids |-> NoTask] /\ relay' = [s \in Ids |-> Unknown]
      /\ \A s, kinds : Bytes(<<>>, s, kinds) = 0
  BY BytesEmpty DEF Fresh
<1>1. TypeOK'
  <2>1. 0 \in 0..SILENCE /\ 0 <= OUTBOX /\ 0 <= MaxWire /\ 0 <= INBOUND /\ NoId \in Ids \cup {NoId}
    BY TunnelAssumption
  <2>2. \A s \in Ids : Len(st'[s].inbound) <= INBOUND
    BY <1>e, <2>1 DEF NoTask
  <2> QED
    BY <1>n, <1>e, <2>1, <2>2 DEF TypeOK, Fresh
<1>2. TasksOK'
  <2>1. \A s \in Ids : TaskOK(s, NoTask)
    BY <1>n, <1>e DEF TaskOK, NoTask
  <2> QED
    BY <1>e, <2>1 DEF TasksOK, TaskOK, Largest
<1>3. WindowOK'
  <2> SUFFICES ASSUME NEW s \in Ids PROVE Down(s)' = WINDOW
    BY TunnelAssumption DEF WindowOK
  <2>1. st'[s] = NoTask /\ relay'[s] = Unknown
    BY <1>e
  <2>2. Rest(st'[s]) = WINDOW + 0 /\ relay'[s].held = 0
    BY <2>1 DEF Rest, NoTask, Unknown
  <2>3. Down(s)' = WINDOW + 0 + 0 + 0 + 0
    BY <1>e, <2>2 DEF Down, Rest
  <2> QED
    BY <2>3, TunnelAssumption
<1>4. UploadsCredited'
  <2> SUFFICES ASSUME NEW t \in Ids PROVE Uploading(t)' = 0 /\ relay'[t].sent = 0
    BY DEF UploadsCredited
  <2> QED
    BY <1>e DEF Uploading, NoTask, Unknown
<1>5. StartsOK'
  BY <1>e DEF StartsOK, AsksNamed, UnstartedOK, AskedOK, NoTask, Unknown
<1>6. EndsOK'
  BY <1>e DEF EndsOK, EndingOK, Unknown
<1> QED
  BY <1>1, <1>2, <1>3, <1>4, <1>5, <1>6 DEF IInv

LEMMA EndSessionKeeps ==
  ASSUME IInv, NEW outcome \in {"Retrying", "Rejected"}, EndSession(outcome) PROVE IInv'
BY FreshKeeps DEF EndSession, IInv, TypeOK

\* The streams do not see a step of the loops that leaves their state alone.
LEMMA IdleKeeps ==
  ASSUME IInv, UNCHANGED <<refused, outbox, open, st, wire, relay, overrun>>, TypeOK',
         serve' = "reset" => serve = "reset"
  PROVE  IInv'
<1>1. TasksOK'
  BY DEF IInv, TasksOK, TaskOK, Largest
<1>2. WindowOK'
  BY DEF IInv, WindowOK, Down, Rest, Sound
<1>3. UploadsCredited'
  BY DEF IInv, UploadsCredited, Uploading, Taking, Sound
<1>4. StartsOK'
  <2> SUFFICES ASSUME NEW s \in Ids PROVE UnstartedOK(s)' /\ AskedOK(s)'
    BY DEF IInv, StartsOK, AsksNamed
  <2>1. UnstartedOK(s) /\ AskedOK(s)
    BY DEF IInv, StartsOK
  <2>2. UnstartedOK(s)'
    BY <2>1 DEF UnstartedOK, IsAsk, NoTask
  <2>3. AskedOK(s)'
    BY <2>1 DEF AskedOK, IsAsk
  <2> QED
    BY <2>2, <2>3
<1>5. EndsOK'
  BY DEF IInv, EndsOK, EndingOK, IsLast
<1> QED
  BY <1>1, <1>2, <1>3, <1>4, <1>5 DEF IInv

\* The serve loop's own frames carry no bytes; the Reset is of an overrun stream.
LEMMA PutKeeps ==
  ASSUME IInv, NEW f \in Frames, Put(f), UNCHANGED <<open, st, wire, relay, overrun>>,
         f.kind \notin Data \cup {"Credit"}, f.stream \in {NoId} \cup overrun,
         UNCHANGED <<status, quiet, hung, sessions>>,
         serve' \in {"select", "beat"}, refused' \in Ids \cup {NoId}
  PROVE  IInv'
<1>t. TypeOK /\ outbox \in Seq(Frames)
  BY DEF IInv, TypeOK
<1>a. /\ outbox' = Append(outbox, f) /\ Len(outbox) < OUTBOX /\ Len(outbox) \in Nat
      /\ outbox' \in Seq(Frames) /\ Len(outbox') = Len(outbox) + 1 /\ Len(outbox') <= OUTBOX
  BY <1>t, TunnelAssumption DEF Put, Room
<1>b. \A i \in 1..Len(outbox') : \/ (i \in 1..Len(outbox) /\ outbox'[i] = outbox[i])
                                 \/ outbox'[i] = f
  BY <1>t, <1>a
<1>c. ASSUME NEW s \in Ids
      PROVE  /\ Bytes(outbox', s, Data) = Bytes(outbox, s, Data)
             /\ Bytes(outbox', s, {"Credit"}) = Bytes(outbox, s, {"Credit"})
  <2>1. Weight(f, s, Data) = 0 /\ Weight(f, s, {"Credit"}) = 0
    BY DEF Weight
  <2>2. Bytes(outbox, s, Data) \in Nat /\ Bytes(outbox, s, {"Credit"}) \in Nat
    BY <1>t, StreamType
  <2>3. /\ Bytes(outbox', s, Data) = Bytes(outbox, s, Data) + Weight(f, s, Data)
        /\ Bytes(outbox', s, {"Credit"}) = Bytes(outbox, s, {"Credit"}) + Weight(f, s, {"Credit"})
    BY <1>t, <1>a, BytesAppend
  <2> QED
    BY <2>1, <2>2, <2>3
<1>1. TypeOK'
  BY <1>t, <1>a DEF TypeOK
<1>2. TasksOK'
  BY DEF IInv, TasksOK, TaskOK, Largest
<1>3. WindowOK'
  <2>1. \A s \in Ids : Down(s)' = Down(s) /\ Sound(s)' = Sound(s)
    BY <1>c DEF Down, Rest, Sound
  <2> QED
    BY <2>1 DEF IInv, WindowOK
<1>4. UploadsCredited'
  <2>1. \A s \in Ids : Uploading(s)' = Uploading(s) /\ Taking(s)' = Taking(s)
    BY <1>c DEF Uploading, Taking, Sound
  <2> QED
    BY <2>1 DEF IInv, UploadsCredited
<1>5. StartsOK'
  <2> SUFFICES ASSUME NEW s \in Ids PROVE UnstartedOK(s)' /\ AskedOK(s)'
    BY DEF IInv, StartsOK, AsksNamed
  <2>1. UnstartedOK(s) /\ AskedOK(s) /\ s # NoId
    BY TunnelAssumption DEF IInv, StartsOK
  <2>2. AskedOK(s)'
    BY <2>1 DEF AskedOK, IsAsk
  <2>3. st[s].task = "none" => s \notin overrun /\ \A i \in 1..Len(outbox') : outbox'[i].stream # s
    BY <2>1, <1>b DEF UnstartedOK
  <2>4. UnstartedOK(s)'
    BY <2>1, <2>3, <1>c DEF UnstartedOK, IsAsk, NoTask
  <2> QED
    BY <2>2, <2>4
<1>6. EndsOK'
  <2> SUFFICES ASSUME NEW s \in Ids, s \notin overrun PROVE EndingOK(s)'
    BY DEF EndsOK, EndingOK
  <2>1. EndingOK(s) /\ s # NoId
    BY TunnelAssumption DEF IInv, EndsOK
  <2>2. \A i \in 1..Len(outbox') : outbox'[i].stream = s =>
          i \in 1..Len(outbox) /\ outbox'[i] = outbox[i]
    BY <2>1, <1>b
  <2> QED
    BY <2>1, <2>2 DEF EndingOK, IsLast
<1> QED
  BY <1>1, <1>2, <1>3, <1>4, <1>5, <1>6 DEF IInv

LEMMA RunLoopKeeps ==
  ASSUME IInv, Connect \/ ConnectFails \/ Retry \/ ConnectionLost \/ Tick \/ RelayHangs PROVE IInv'
<1>t. TypeOK
  BY DEF IInv
<1>1. CASE Connect
  <2>1. sessions' \in 0..MaxSessions
    BY <1>1, <1>t, TunnelAssumption DEF Connect, TypeOK
  <2> QED
    BY <1>1, <2>1, FreshKeeps DEF Connect
<1>2. CASE ConnectFails \/ Retry
  <2>1. TypeOK'
    BY <1>2, <1>t DEF ConnectFails, Retry, TypeOK
  <2> QED
    BY <1>2, <2>1, IdleKeeps DEF ConnectFails, Retry
<1>3. CASE ConnectionLost
  BY <1>3, EndSessionKeeps DEF ConnectionLost
<1>4. CASE Tick
  <2>1. CASE EndSession("Retrying")
    BY <2>1, EndSessionKeeps
  <2>2. CASE /\ quiet + 1 <= SILENCE /\ quiet' = quiet + 1 /\ serve' = "ping"
             /\ UNCHANGED <<status, refused, outbox, open, st, wire, relay, hung, sessions, overrun>>
    <3>1. quiet' \in 0..SILENCE
      BY <2>2, <1>t, TunnelAssumption DEF TypeOK
    <3>2. TypeOK'
      BY <2>2, <3>1, <1>t DEF TypeOK
    <3> QED
      BY <2>2, <3>2, IdleKeeps
  <2> QED
    BY <1>4, <2>1, <2>2 DEF Tick
<1>5. CASE RelayHangs
  <2>1. TypeOK'
    BY <1>5, <1>t DEF RelayHangs, TypeOK
  <2> QED
    BY <1>5, <2>1, IdleKeeps DEF RelayHangs
<1> QED
  BY <1>1, <1>2, <1>3, <1>4, <1>5

LEMMA PushesKeep == ASSUME IInv, PushPing \/ Beat \/ PushReset PROVE IInv'
<1>t. TypeOK
  BY DEF IInv
<1>1. CASE PushPing
  <2>1. Frame("Ping", NoId, 0) \in Frames /\ Frame("Ping", NoId, 0).stream = NoId
          /\ Frame("Ping", NoId, 0).kind = "Ping"
    BY DEF Frame, Frames
  <2> QED
    BY <1>1, <1>t, <2>1, PutKeeps DEF PushPing, TypeOK, Data
<1>2. CASE Beat
  <2>1. Frame("Health", NoId, 0) \in Frames /\ Frame("Health", NoId, 0).stream = NoId
          /\ Frame("Health", NoId, 0).kind = "Health"
    BY DEF Frame, Frames
  <2>2. CASE Put(Frame("Health", NoId, 0))
    BY <1>2, <1>t, <2>1, <2>2, PutKeeps DEF Beat, TypeOK, Data
  <2>3. CASE outbox' = outbox
    <3>1. TypeOK'
      BY <1>2, <1>t, <2>3 DEF Beat, TypeOK
    <3> QED
      BY <1>2, <2>3, <3>1, IdleKeeps DEF Beat
  <2> QED
    BY <1>2, <2>2, <2>3 DEF Beat
<1>3. CASE PushReset
  <2>1. refused \in overrun /\ refused \in Ids \cup {NoId} /\ NoId \in Ids \cup {NoId}
    BY <1>3, <1>t DEF PushReset, IInv, EndsOK, TypeOK
  <2>2. Frame("Reset", refused, 0) \in Frames /\ Frame("Reset", refused, 0).stream = refused
          /\ Frame("Reset", refused, 0).kind = "Reset"
    BY <2>1 DEF Frame, Frames
  <2> QED
    BY <1>3, <2>1, <2>2, PutKeeps DEF PushReset, Data
<1> QED
  BY <1>1, <1>2, <1>3

\* A task that returned is joined: its stream leaves the table.
LEMMA FinishKeeps == ASSUME IInv, NEW s \in Ids, Finish(s) PROVE IInv'
<1> DEFINE k == [st[s] EXCEPT !.task = "gone"]
<1>t. TypeOK /\ st[s] \in Tasks /\ st[s].task = "over"
  BY DEF IInv, TypeOK, Finish
<1>k. /\ k \in Tasks /\ k.task = "gone" /\ k.up = st[s].up /\ k.item = st[s].item
      /\ k.window = st[s].window /\ k.chunk = st[s].chunk /\ k.down = st[s].down
      /\ k.inbound = st[s].inbound /\ k.ws = st[s].ws
  BY <1>t DEF Tasks
<1>u. /\ st' = [st EXCEPT ![s] = k] /\ open' = open \ {s}
      /\ UNCHANGED <<status, serve, refused, outbox, wire, quiet, relay, hung, sessions, overrun>>
  BY <1>t DEF Finish, TypeOK
<1> HIDE DEF k
<1>n. st'[s] = k /\ \A t \in Ids \ {s} : st'[t] = st[t]
  BY <1>u, <1>t DEF TypeOK
<1>1. TypeOK'
  <2>1. st' \in [Ids -> Tasks] /\ \A t \in Ids : Len(st'[t].inbound) <= INBOUND
    BY <1>t, <1>k, <1>n, <1>u DEF TypeOK
  <2> QED
    BY <2>1, <1>t, <1>u DEF TypeOK
<1>2. TasksOK'
  <2>1. TaskOK(s, k)
    BY <1>k DEF TaskOK, IInv, TasksOK
  <2>2. \A t \in Ids : TaskOK(t, st'[t])
    BY <2>1, <1>n DEF IInv, TasksOK
  <2> QED
    BY <2>2 DEF TasksOK, TaskOK, Largest
<1>3. WindowOK'
  <2> SUFFICES ASSUME NEW t \in Ids PROVE Down(t)' = Down(t) /\ (Sound(t)' => Sound(t))
    BY DEF IInv, WindowOK
  <2>1. Rest(st'[t]) = Rest(st[t])
    BY <1>n, <1>k DEF Rest
  <2>2. Down(t)' = Down(t)
    BY <2>1, <1>u DEF Down, Rest
  <2> QED
    BY <2>2, <1>u, <1>n, <1>k DEF Sound
<1>4. UploadsCredited'
  <2> SUFFICES ASSUME NEW t \in Ids PROVE Uploading(t)' = Uploading(t) /\ (Taking(t)' => Taking(t))
    BY <1>u DEF IInv, UploadsCredited
  <2>1. st'[t].inbound = st[t].inbound /\ st'[t].item = st[t].item
    BY <1>n, <1>k
  <2> QED
    BY <2>1, <1>u, <1>n DEF Uploading, Taking, Sound
<1>5. StartsOK'
  <2> SUFFICES ASSUME NEW t \in Ids PROVE UnstartedOK(t)' /\ AskedOK(t)'
    BY <1>u DEF IInv, StartsOK, AsksNamed
  <2>1. UnstartedOK(t) /\ AskedOK(t)
    BY DEF IInv, StartsOK
  <2>2. (st'[t].task = "none") = (st[t].task = "none") /\ (st[t].task = "none" => st'[t] = st[t])
    BY <1>n, <1>k, <1>t
  <2>3. AskedOK(t)'
    BY <2>1, <2>2, <1>u DEF AskedOK, IsAsk
  <2>4. UnstartedOK(t)'
    BY <2>1, <2>2, <1>u DEF UnstartedOK, IsAsk, NoTask
  <2> QED
    BY <2>3, <2>4
<1>6. EndsOK'
  <2> SUFFICES ASSUME NEW t \in Ids PROVE EndingOK(t)'
    BY <1>u DEF EndsOK, IInv
  <2>1. st[t].task \in {"over", "gone"} => st'[t].task \in {"over", "gone"}
    BY <1>n, <1>k
  <2> QED
    BY <2>1, <1>u DEF IInv, EndsOK, EndingOK, IsLast
<1> QED
  BY <1>1, <1>2, <1>3, <1>4, <1>5, <1>6 DEF IInv

----------------------------------------------------------------------------
(* The writer and the relay.                                               *)

\* The relay takes a frame out of the outbox: data is held, credit is counted.
LEMMA WriteKeeps == ASSUME IInv, Write PROVE IInv'
<1> DEFINE f == Head(outbox)
<1>t. TypeOK /\ outbox \in Seq(Frames) /\ outbox # <<>> /\ outbox' = Tail(outbox)
  BY DEF IInv, TypeOK, Write
<1>a. /\ outbox' \in Seq(Frames) /\ Len(outbox') = Len(outbox) - 1 /\ Len(outbox) \in Nat \ {0}
      /\ f = outbox[1] /\ f \in Frames /\ \A i \in 1..Len(outbox') : outbox'[i] = outbox[i + 1]
  BY <1>t
<1>b. \A t, kinds : Bytes(outbox, t, kinds) = Weight(f, t, kinds) + Bytes(outbox', t, kinds)
  BY <1>t, BytesTail
<1>u. UNCHANGED <<status, serve, refused, open, st, wire, quiet, hung, sessions, overrun>>
  BY DEF Write
<1>r. relay' = IF f.stream = NoId THEN relay ELSE [relay EXCEPT ![f.stream] = Heard(@, f)]
  BY DEF Write
<1> HIDE DEF f
<1>h. \A t \in Ids : /\ t # f.stream => relay'[t] = relay[t]
                     /\ t = f.stream => relay'[t] = Heard(relay[t], f)
  BY <1>r, <1>t, TunnelAssumption DEF TypeOK
<1>w. \A t, kinds : Weight(f, t, kinds) \in Nat /\ Bytes(outbox', t, kinds) \in Nat
  BY <1>a, WeightType, BytesType
\* What the relay knows of a stream afterwards.
<1>p. ASSUME NEW t \in Ids
      PROVE  /\ relay'[t] \in Peers /\ relay'[t].asked = relay[t].asked
             /\ relay'[t].held = relay[t].held + Weight(f, t, Data)
             /\ relay'[t].sent = relay[t].sent - Weight(f, t, {"Credit"})
             /\ relay'[t].ended = (relay[t].ended \/ IsLast(f, t))
             /\ relay'[t].late = (relay[t].late \/ (f.stream = t /\ relay[t].ended))
  <2>1. /\ relay[t] \in Peers /\ relay[t].held \in Nat /\ relay[t].sent \in Int
        /\ relay[t].ended \in BOOLEAN /\ relay[t].late \in BOOLEAN
    BY <1>t, StreamType DEF Peers
  <2>2. CASE t # f.stream
    <3>1. Weight(f, t, Data) = 0 /\ Weight(f, t, {"Credit"}) = 0 /\ ~IsLast(f, t)
      BY <2>2 DEF Weight, IsLast
    <3> QED
      BY <2>1, <2>2, <3>1, <1>h
  <2>3. CASE t = f.stream
    <3>1. /\ Weight(f, t, Data) = (IF f.kind \in {"Body", "Message"} THEN f.len ELSE 0)
          /\ Weight(f, t, {"Credit"}) = (IF f.kind = "Credit" THEN f.len ELSE 0)
          /\ IsLast(f, t) = (f.kind \in {"End", "Close", "Reset"})
      BY <2>3 DEF Weight, Data, IsLast
    <3>2. /\ relay[t].held + Weight(f, t, Data) \in Nat
          /\ relay[t].sent - Weight(f, t, {"Credit"}) \in Int
      BY <2>1, <1>w
    <3>3. relay'[t] = [relay[t] EXCEPT
                         !.held = @ + (IF f.kind \in {"Body", "Message"} THEN f.len ELSE 0),
                         !.sent = @ - (IF f.kind = "Credit" THEN f.len ELSE 0),
                         !.ended = @ \/ f.kind \in {"End", "Close", "Reset"},
                         !.late = @ \/ relay[t].ended]
      BY <2>3, <1>h DEF Heard
    <3>5. relay'[t] \in Peers
      <4> DEFINE h == relay[t].held + (IF f.kind \in {"Body", "Message"} THEN f.len ELSE 0)
                 n == relay[t].sent - (IF f.kind = "Credit" THEN f.len ELSE 0)
                 e == relay[t].ended \/ f.kind \in {"End", "Close", "Reset"}
                 l == relay[t].late \/ relay[t].ended
      <4>1. h \in Nat /\ n \in Int
        BY <3>1, <3>2
      <4>2. e \in BOOLEAN /\ l \in BOOLEAN
        OBVIOUS
      <4>3. relay'[t] = [relay[t] EXCEPT !.held = h, !.sent = n, !.ended = e, !.late = l]
        BY <3>3
      <4> HIDE DEF h, n, e, l
      <4> QED
        BY <2>1, <4>1, <4>2, <4>3 DEF Peers
    <3>6. /\ relay'[t].asked = relay[t].asked
          /\ relay'[t].held = relay[t].held + Weight(f, t, Data)
          /\ relay'[t].sent = relay[t].sent - Weight(f, t, {"Credit"})
      BY <2>1, <3>1, <3>3 DEF Peers
    <3>7. /\ relay'[t].ended = (relay[t].ended \/ IsLast(f, t))
          /\ relay'[t].late = (relay[t].late \/ relay[t].ended)
      BY <2>1, <3>1, <3>3 DEF Peers
    <3> QED
      BY <2>3, <3>5, <3>6, <3>7
  <2> QED
    BY <2>2, <2>3
<1>1. TypeOK'
  <2>1. relay' \in [Ids -> Peers]
    <3>1. DOMAIN relay' = Ids /\ relay' = [t \in Ids |-> relay'[t]]
      BY <1>r, <1>t DEF TypeOK
    <3> QED
      BY <3>1, <1>p
  <2>2. Len(outbox') <= OUTBOX
    BY <1>a, <1>t, TunnelAssumption DEF TypeOK
  <2> QED
    BY <2>1, <2>2, <1>a, <1>t, <1>u DEF TypeOK
<1>2. TasksOK'
  BY <1>u DEF IInv, TasksOK, TaskOK, Largest
<1>3. WindowOK'
  <2> SUFFICES ASSUME NEW t \in Ids PROVE Down(t)' = Down(t) /\ Sound(t)' = Sound(t)
    BY DEF IInv, WindowOK
  <2>1. /\ Rest(st[t]) \in Int /\ relay[t].held \in Nat /\ Bytes(wire, t, {"Credit"}) \in Nat
        /\ Bytes(outbox', t, Data) \in Nat /\ Weight(f, t, Data) \in Nat
    BY <1>t, <1>w, StreamType
  <2>2. Down(t) = Rest(st[t]) + (Weight(f, t, Data) + Bytes(outbox', t, Data)) + relay[t].held
                    + Bytes(wire, t, {"Credit"})
    BY <1>b DEF Down
  <2>3. Down(t)' = Rest(st[t]) + Bytes(outbox', t, Data) + (relay[t].held + Weight(f, t, Data))
                    + Bytes(wire, t, {"Credit"})
    BY <1>p, <1>u DEF Down, Rest
  <2>4. Down(t)' = Down(t)
    BY <2>1, <2>2, <2>3
  <2> QED
    BY <2>4, <1>u DEF Sound
<1>4. UploadsCredited'
  <2> SUFFICES ASSUME NEW t \in Ids
               PROVE  /\ Uploading(t)' + relay[t].sent = Uploading(t) + relay'[t].sent
                      /\ Taking(t)' = Taking(t)
    <3>1. \A t \in Ids : /\ Uploading(t) \in Nat /\ relay[t].sent \in Int
                         /\ Uploading(t)' \in Nat
      BY <1>1, <1>t, UploadingType, UploadingNext
    <3> QED
      BY <1>1, <3>1, CreditedOn
  <2> DEFINE w == Bytes(wire, t, Data)
             a == Bytes(st[t].inbound, t, Data)
             o == Bytes(outbox', t, {"Credit"})
             c == Weight(f, t, {"Credit"})
  <2>1. Uploading(t) = w + a + st[t].item + (c + o) /\ Uploading(t)' = w + a + st[t].item + o
    BY <1>b, <1>u DEF Uploading
  <2>2. /\ w \in Nat /\ a \in Nat /\ st[t].item \in Nat /\ o \in Nat /\ c \in Nat
        /\ relay[t].sent \in Int
    BY <1>t, <1>w, StreamType, UploadingType
  <2>3. relay'[t].sent = relay[t].sent - c
    BY <1>p
  <2>4. Taking(t)' = Taking(t)
    BY <1>u DEF Taking, Sound
  <2> HIDE DEF w, a, o, c
  <2> QED
    BY <2>1, <2>2, <2>3, <2>4
<1>5. StartsOK'
  <2> SUFFICES ASSUME NEW t \in Ids PROVE UnstartedOK(t)' /\ AskedOK(t)'
    BY <1>u DEF IInv, StartsOK, AsksNamed
  <2>1. UnstartedOK(t) /\ AskedOK(t)
    BY DEF IInv, StartsOK
  <2>2. AskedOK(t)'
    BY <2>1, <1>p, <1>u DEF AskedOK, IsAsk
  <2>3. ASSUME st[t].task = "none" PROVE UnstartedOK(t)'
    <3>1. \A i \in 1..Len(outbox) : outbox[i].stream # t
      BY <2>1, <2>3 DEF UnstartedOK
    <3>2. f.stream # t /\ \A i \in 1..Len(outbox') : outbox'[i].stream # t
      BY <3>1, <1>a
    <3>3. Weight(f, t, Data) = 0 /\ Weight(f, t, {"Credit"}) = 0
      BY <3>2 DEF Weight
    <3>4. /\ relay'[t] = relay[t] /\ Bytes(outbox', t, Data) = Bytes(outbox, t, Data)
          /\ Bytes(outbox', t, {"Credit"}) = Bytes(outbox, t, {"Credit"})
      BY <3>2, <3>3, <1>b, <1>h, <1>w
    <3> QED
      BY <2>1, <2>3, <3>2, <3>4, <1>u DEF UnstartedOK, IsAsk, NoTask
  <2>4. UnstartedOK(t)'
    BY <2>3, <1>u DEF UnstartedOK
  <2> QED
    BY <2>2, <2>4
<1>6. EndsOK'
  <2> SUFFICES ASSUME NEW t \in Ids, t \notin overrun PROVE EndingOK(t)'
    BY <1>u DEF EndsOK, EndingOK, IInv
  <2>1. /\ ~relay[t].late
        /\ relay[t].ended => /\ st[t].task \in {"over", "gone"}
                             /\ \A i \in 1..Len(outbox) : outbox[i].stream # t
        /\ \A i \in 1..Len(outbox) : IsLast(outbox[i], t) =>
             /\ st[t].task \in {"over", "gone"}
             /\ \A j \in 1..Len(outbox) : i < j => outbox[j].stream # t
    BY DEF IInv, EndsOK, EndingOK
  <2>2. 1 \in 1..Len(outbox) /\ \A i \in 1..Len(outbox') : i + 1 \in 1..Len(outbox) /\ 1 < i + 1
    BY <1>a
  <2>3. ~relay'[t].late
    BY <2>1, <2>2, <1>a, <1>p
  <2>4. relay'[t].ended => /\ st[t].task \in {"over", "gone"}
                           /\ \A i \in 1..Len(outbox') : outbox'[i].stream # t
    <3>1. CASE relay[t].ended
      BY <2>1, <2>2, <3>1, <1>a
    <3>2. CASE IsLast(outbox[1], t)
      <4>1. st[t].task \in {"over", "gone"} /\ \A j \in 1..Len(outbox) : 1 < j => outbox[j].stream # t
        BY <2>1, <2>2, <3>2
      <4> QED
        BY <2>2, <4>1, <1>a
    <3> QED
      BY <3>1, <3>2, <1>a, <1>p
  <2>5. ASSUME NEW i \in 1..Len(outbox'), IsLast(outbox'[i], t)
        PROVE  /\ st[t].task \in {"over", "gone"}
               /\ \A j \in 1..Len(outbox') : i < j => outbox'[j].stream # t
    <3>1. i + 1 \in 1..Len(outbox) /\ IsLast(outbox[i + 1], t)
      BY <2>2, <2>5, <1>a
    <3>2. \A j \in 1..Len(outbox') : i < j => i + 1 < j + 1
      BY <1>a
    <3> QED
      BY <2>1, <2>2, <3>1, <3>2, <1>a
  <2> QED
    BY <2>3, <2>4, <2>5, <1>u DEF EndingOK, IsLast
<1> QED
  BY <1>1, <1>2, <1>3, <1>4, <1>5, <1>6 DEF IInv

\* What the relay may note about a stream as it sends a frame of it.
Noted(r, q, f, s) ==
  /\ r.ended = q.ended /\ r.late = q.late /\ r.asked
  /\ r.held + Weight(f, s, {"Credit"}) = q.held /\ r.sent = q.sent + Weight(f, s, Data)
  /\ IsAsk(f, s) => ~q.asked
  /\ ~IsAsk(f, s) => q.asked

LEMMA SaysKeeps ==
  ASSUME IInv, NEW f \in Frames, RelaySays(f), relay' \in [Ids -> Peers],
         \A t \in Ids : t # f.stream => relay'[t] = relay[t],
         \A t \in Ids : t = f.stream => Noted(relay'[t], relay[t], f, t),
         f.kind \in {"Request", "Websocket"} => f.stream \in Ids
  PROVE  IInv'
<1>t. TypeOK /\ wire \in Seq(Frames) /\ wire' = Append(wire, f) /\ Len(wire) < MaxWire
  BY DEF IInv, TypeOK, RelaySays
<1>a. /\ wire' \in Seq(Frames) /\ Len(wire') = Len(wire) + 1 /\ Len(wire) \in Nat
      /\ wire'[Len(wire')] = f /\ \A i \in 1..Len(wire) : wire'[i] = wire[i]
  BY <1>t
<1>c. \A i \in 1..Len(wire') : i \in 1..Len(wire) \/ i = Len(wire')
  BY <1>a
<1>d. \A i \in 1..Len(wire) : i \in 1..Len(wire') /\ i # Len(wire')
  BY <1>a
<1>e. Len(wire') \in 1..Len(wire')
  BY <1>a
<1>b. \A t, kinds : Bytes(wire', t, kinds) = Bytes(wire, t, kinds) + Weight(f, t, kinds)
  BY <1>t, BytesAppend
<1>w. \A t, kinds : /\ Weight(f, t, kinds) \in Nat
                    /\ t # f.stream => Weight(f, t, kinds) = 0
  BY WeightType
<1>u. UNCHANGED <<status, serve, refused, outbox, open, st, quiet, hung, sessions, overrun>>
  BY DEF RelaySays
<1>1. TypeOK'
  <2>1. Len(wire') <= MaxWire
    BY <1>a, <1>t, TunnelAssumption
  <2> QED
    BY <2>1, <1>a, <1>t, <1>u DEF TypeOK
<1>2. TasksOK'
  BY <1>u DEF IInv, TasksOK, TaskOK, Largest
<1>h. ASSUME NEW t \in Ids
      PROVE  /\ relay'[t].held + Weight(f, t, {"Credit"}) = relay[t].held
             /\ relay'[t].sent = relay[t].sent + Weight(f, t, Data)
             /\ relay'[t].ended = relay[t].ended /\ relay'[t].late = relay[t].late
             /\ relay'[t].held \in Nat
  <2>1. relay'[t].held \in Nat /\ relay[t].held \in Nat /\ relay[t].sent \in Int
    BY <1>t, StreamType DEF Peers
  <2> QED
    BY <2>1, <1>w DEF Noted
<1>3. WindowOK'
  <2> SUFFICES ASSUME NEW t \in Ids PROVE Down(t)' = Down(t) /\ Sound(t)' = Sound(t)
    BY DEF IInv, WindowOK
  <2>1. /\ Rest(st[t]) \in Int /\ Bytes(wire, t, {"Credit"}) \in Nat
        /\ Bytes(outbox, t, Data) \in Nat /\ Weight(f, t, {"Credit"}) \in Nat
        /\ relay'[t].held \in Nat
    BY <1>t, <1>w, <1>h, StreamType
  <2>2. Down(t) = Rest(st[t]) + Bytes(outbox, t, Data) + (relay'[t].held + Weight(f, t, {"Credit"}))
                    + Bytes(wire, t, {"Credit"})
    BY <1>h DEF Down
  <2>3. Down(t)' = Rest(st[t]) + Bytes(outbox, t, Data) + relay'[t].held
                    + (Bytes(wire, t, {"Credit"}) + Weight(f, t, {"Credit"}))
    BY <1>b, <1>u DEF Down, Rest
  <2>4. Down(t)' = Down(t)
    BY <2>1, <2>2, <2>3
  <2> QED
    BY <2>4, <1>u DEF Sound
<1>4. UploadsCredited'
  <2> SUFFICES ASSUME NEW t \in Ids
               PROVE  /\ Uploading(t)' + relay[t].sent = Uploading(t) + relay'[t].sent
                      /\ Taking(t)' = Taking(t)
    <3>1. \A t \in Ids : /\ Uploading(t) \in Nat /\ relay[t].sent \in Int
                         /\ Uploading(t)' \in Nat
      BY <1>1, <1>t, UploadingType, UploadingNext
    <3> QED
      BY <1>1, <3>1, CreditedOn
  <2> DEFINE w == Bytes(wire, t, Data)
             a == Bytes(st[t].inbound, t, Data)
             o == Bytes(outbox, t, {"Credit"})
             n == Weight(f, t, Data)
  <2>1. Uploading(t) = w + a + st[t].item + o /\ Uploading(t)' = (w + n) + a + st[t].item + o
    BY <1>b, <1>u DEF Uploading
  <2>2. /\ w \in Nat /\ a \in Nat /\ st[t].item \in Nat /\ o \in Nat /\ n \in Nat
        /\ relay[t].sent \in Int
    BY <1>t, <1>w, StreamType, UploadingType
  <2>3. relay'[t].sent = relay[t].sent + n
    BY <1>h
  <2>4. Taking(t)' = Taking(t)
    BY <1>u DEF Taking, Sound
  <2> HIDE DEF w, a, o, n
  <2> QED
    BY <2>1, <2>2, <2>3, <2>4
<1>5. StartsOK'
  <2>n. AsksNamed'
    BY <1>a, <1>c DEF IInv, StartsOK, AsksNamed
  <2> SUFFICES ASSUME NEW t \in Ids PROVE UnstartedOK(t)' /\ AskedOK(t)'
    BY <2>n DEF StartsOK
  <2>1. UnstartedOK(t) /\ AskedOK(t)
    BY DEF IInv, StartsOK
  <2>2. CASE t # f.stream
    <3>1. /\ relay'[t] = relay[t] /\ Weight(f, t, Data) = 0 /\ Weight(f, t, {"Credit"}) = 0
          /\ Bytes(wire, t, Data) \in Nat /\ Bytes(wire, t, {"Credit"}) \in Nat
      BY <2>2, <1>w, <1>t, StreamType
    <3>2. \A i \in 1..Len(wire') : wire'[i].stream = t => i \in 1..Len(wire) /\ wire'[i] = wire[i]
      BY <2>2, <1>a, <1>c
    <3>3. \A i \in 1..Len(wire') : IsAsk(wire'[i], t) => i \in 1..Len(wire) /\ IsAsk(wire[i], t)
      BY <3>2 DEF IsAsk
    <3>4. AskedOK(t)'
      BY <2>1, <3>1, <3>2, <3>3, <1>u DEF AskedOK, IsAsk
    <3>5. ASSUME st[t].task = "none" PROVE UnstartedOK(t)'
      <4>1. /\ Bytes(wire', t, {"Credit"}) = Bytes(wire, t, {"Credit"})
            /\ Bytes(wire', t, Data) = Bytes(wire, t, Data)
        BY <3>1, <1>b
      <4>2. \A j \in 1..Len(wire') : wire'[j].stream = t => \E i \in 1..j : IsAsk(wire'[i], t)
        <5> SUFFICES ASSUME NEW j \in 1..Len(wire'), wire'[j].stream = t
                     PROVE  \E i \in 1..j : IsAsk(wire'[i], t)
          OBVIOUS
        <5>1. j \in 1..Len(wire) /\ wire[j].stream = t
          BY <3>2
        <5>2. PICK i \in 1..j : IsAsk(wire[i], t)
          BY <2>1, <3>5, <5>1 DEF UnstartedOK
        <5>3. i \in 1..Len(wire)
          BY <5>1, <1>a
        <5> QED
          BY <5>2, <5>3, <1>a
      <4>3. relay[t].asked => \E i \in 1..Len(wire') : IsAsk(wire'[i], t)
        BY <2>1, <3>5, <1>a, <1>d DEF UnstartedOK
      <4> QED
        BY <2>1, <3>1, <3>5, <4>1, <4>2, <4>3, <1>u DEF UnstartedOK, IsAsk, NoTask
    <3> QED
      BY <3>4, <3>5, <1>u DEF UnstartedOK
  <2>3. CASE t = f.stream
    <3>1. Noted(relay'[t], relay[t], f, t)
      BY <2>3
    <3>2. CASE IsAsk(f, t)
      <4>1. /\ ~relay[t].asked /\ st[t].task = "none" /\ relay'[t].asked
            /\ \A i \in 1..Len(wire) : wire[i].stream # t
        BY <2>1, <3>1, <3>2 DEF AskedOK, Noted
      <4>2. Weight(f, t, Data) = 0 /\ Weight(f, t, {"Credit"}) = 0
        BY <3>2 DEF Weight, IsAsk, Data
      <4>3. \A i \in 1..Len(wire') : wire'[i].stream = t => i = Len(wire')
        BY <4>1, <1>a, <1>c
      <4>4. IsAsk(wire'[Len(wire')], t)
        BY <3>2, <1>a
      <4>5. \A i \in 1..Len(wire') : IsAsk(wire'[i], t) => i = Len(wire')
        BY <4>3 DEF IsAsk
      <4>6. AskedOK(t)'
        BY <4>1, <4>5, <1>u DEF AskedOK, IsAsk
      <4>7. \A j \in 1..Len(wire') : wire'[j].stream = t => \E i \in 1..j : IsAsk(wire'[i], t)
        BY <4>3, <4>4
      <4>8. /\ Bytes(wire', t, {"Credit"}) = 0 /\ relay'[t].sent = Bytes(wire', t, Data)
            /\ relay'[t].held = 0 /\ ~relay'[t].ended
        <5>1. /\ Bytes(wire, t, {"Credit"}) = 0 /\ relay[t].sent = Bytes(wire, t, Data)
              /\ relay[t].held = 0 /\ ~relay[t].ended
          BY <2>1, <4>1 DEF UnstartedOK
        <5>2. Bytes(wire, t, Data) \in Nat
          BY <1>t, StreamType
        <5> QED
          BY <4>2, <5>1, <5>2, <1>b, <1>h
      <4> QED
        BY <2>1, <4>1, <4>4, <4>6, <4>7, <4>8, <1>e, <1>u DEF UnstartedOK, IsAsk, NoTask
    <3>3. CASE ~IsAsk(f, t)
      <4>1. relay[t].asked /\ relay'[t].asked
        BY <3>1, <3>3 DEF Noted
      <4>2. \A i \in 1..Len(wire') : IsAsk(wire'[i], t) => i \in 1..Len(wire) /\ IsAsk(wire[i], t)
        BY <3>3, <1>a, <1>c
      <4>3. AskedOK(t)'
        BY <2>1, <4>1, <4>2, <1>u DEF AskedOK, IsAsk
      <4>4. ASSUME st[t].task = "none" PROVE UnstartedOK(t)'
        <5>1. PICK a \in 1..Len(wire) : IsAsk(wire[a], t)
          BY <2>1, <4>1, <4>4 DEF UnstartedOK
        <5>2. a \in 1..Len(wire') /\ IsAsk(wire'[a], t)
          BY <5>1, <1>a, <1>d
        <5>3. \A j \in 1..Len(wire') : wire'[j].stream = t => \E i \in 1..j : IsAsk(wire'[i], t)
          <6> SUFFICES ASSUME NEW j \in 1..Len(wire'), wire'[j].stream = t
                       PROVE  \E i \in 1..j : IsAsk(wire'[i], t)
            OBVIOUS
          <6>1. CASE j = Len(wire')
            BY <6>1, <5>2
          <6>2. CASE j \in 1..Len(wire)
            <7>1. PICK i \in 1..j : IsAsk(wire[i], t)
              BY <2>1, <4>4, <6>2, <1>a DEF UnstartedOK
            <7>2. i \in 1..Len(wire)
              BY <6>2, <1>a
            <7> QED
              BY <7>1, <7>2, <1>a
          <6> QED
            BY <6>1, <6>2, <1>c
        <5>4. /\ Bytes(wire, t, {"Credit"}) = 0 /\ relay[t].sent = Bytes(wire, t, Data)
              /\ relay[t].held = 0 /\ ~relay[t].ended
          BY <2>1, <4>4 DEF UnstartedOK
        <5>5. /\ Bytes(wire, t, Data) \in Nat /\ Weight(f, t, {"Credit"}) \in Nat
              /\ relay'[t].held \in Nat /\ relay'[t].held + Weight(f, t, {"Credit"}) = relay[t].held
              /\ relay'[t].sent = relay[t].sent + Weight(f, t, Data)
              /\ relay'[t].ended = relay[t].ended
          BY <1>t, <1>w, <1>h, StreamType
        <5>6. /\ Bytes(wire', t, {"Credit"}) = 0 /\ relay'[t].sent = Bytes(wire', t, Data)
              /\ relay'[t].held = 0 /\ ~relay'[t].ended
          BY <5>4, <5>5, <1>b
        <5> QED
          BY <2>1, <4>4, <5>2, <5>3, <5>6, <1>u DEF UnstartedOK, IsAsk, NoTask
      <4> QED
        BY <4>3, <4>4, <1>u DEF UnstartedOK
    <3> QED
      BY <3>2, <3>3
  <2> QED
    BY <2>2, <2>3
<1>6. EndsOK'
  BY <1>h, <1>u DEF IInv, EndsOK, EndingOK, IsLast
<1> QED
  BY <1>1, <1>2, <1>3, <1>4, <1>5, <1>6 DEF IInv

LEMMA RelayKeeps == ASSUME IInv, Relay PROVE IInv'
<1>t. TypeOK /\ relay \in [Ids -> Peers]
  BY DEF IInv, TypeOK
<1>1. CASE RelaySpeaks
  <2>1. PICK kind \in Speaks \ {"Hang"} : RelaySays(Frame(kind, NoId, 0)) /\ relay' = relay
    BY <1>1 DEF RelaySpeaks
  <2> DEFINE f == Frame(kind, NoId, 0)
  <2>2. kind \in {"Pong", "Health", "Goodbye", "Rejection"}
    BY TunnelAssumption
  <2>3. f \in Frames /\ f.stream = NoId /\ f.kind \notin {"Request", "Websocket"}
    BY <2>2 DEF Frame, Frames
  <2> HIDE DEF f
  <2>4. \A t \in Ids : t # f.stream
    BY <2>3, TunnelAssumption
  <2> QED
    BY <2>1, <2>3, <2>4, <1>t, SaysKeeps DEF f
<1>2. ASSUME NEW s \in Ids, RelayAsks(s) PROVE IInv'
  <2>1. PICK kind \in Asks : RelaySays(Frame(kind, s, 0))
    BY <1>2 DEF RelayAsks
  <2> DEFINE f == Frame(kind, s, 0)
             r == [relay[s] EXCEPT !.asked = TRUE]
  <2>2. kind \in {"Request", "Websocket"}
    BY TunnelAssumption
  <2>3. /\ f \in Frames /\ f.stream = s /\ IsAsk(f, s)
        /\ Weight(f, s, Data) = 0 /\ Weight(f, s, {"Credit"}) = 0
    BY <2>2 DEF Frame, Frames, IsAsk, Weight, Data
  <2>4. /\ relay[s] \in Peers /\ relay[s].held \in Nat /\ relay[s].sent \in Int
    BY <1>t, StreamType
  <2>5. /\ r \in Peers /\ r.asked /\ r.held = relay[s].held /\ r.sent = relay[s].sent
        /\ r.ended = relay[s].ended /\ r.late = relay[s].late
    BY <2>4 DEF Peers
  <2>6. ~relay[s].asked /\ relay' = [relay EXCEPT ![s] = r]
    BY <1>2 DEF RelayAsks
  <2> HIDE DEF f, r
  <2>7. Noted(r, relay[s], f, s)
    <3>1. /\ r.held + Weight(f, s, {"Credit"}) = relay[s].held
          /\ r.sent = relay[s].sent + Weight(f, s, Data)
      BY <2>3, <2>4, <2>5
    <3> QED
      BY <2>3, <2>5, <2>6, <3>1 DEF Noted
  <2>8. relay' \in [Ids -> Peers] /\ relay'[s] = r /\ \A t \in Ids : t # s => relay'[t] = relay[t]
    BY <2>5, <2>6, <1>t
  <2> QED
    BY <2>1, <2>3, <2>7, <2>8, SaysKeeps DEF f
<1>3. ASSUME NEW s \in Ids, RelaySends(s) PROVE IInv'
  <2> DEFINE Size(kind, n) == IF kind \in {"Body", "Message"} THEN n ELSE 0
  <2>1. PICK kind \in Kinds, n \in Sizes :
          /\ relay' = [relay EXCEPT ![s].sent = @ + Size(kind, n), ![s].count = @ + 1]
          /\ RelaySays(Frame(kind, s, Size(kind, n)))
    BY <1>3 DEF RelaySends
  <2> DEFINE len == Size(kind, n)
             f == Frame(kind, s, len)
             r == [relay[s] EXCEPT !.sent = @ + len, !.count = @ + 1]
  <2>2. kind \in {"Body", "Message", "End", "Close"} /\ n \in Nat /\ len \in Nat
    BY TunnelAssumption
  <2>3. /\ f \in Frames /\ f.stream = s /\ ~IsAsk(f, s) /\ f.kind \notin {"Request", "Websocket"}
        /\ Weight(f, s, Data) = len /\ Weight(f, s, {"Credit"}) = 0
    BY <2>2 DEF Frame, Frames, IsAsk, Weight, Data
  <2>6. relay[s].asked /\ relay' = [relay EXCEPT ![s] = r]
    BY <1>3, <1>t, <2>1 DEF RelaySends
  <2> HIDE DEF len
  <2>4. /\ relay[s] \in Peers /\ relay[s].held \in Nat /\ relay[s].sent + len \in Int
        /\ relay[s].count + 1 \in Nat
    BY <1>t, <2>2, StreamType DEF Peers
  <2>5. /\ r \in Peers /\ r.asked = relay[s].asked /\ r.held = relay[s].held
        /\ r.sent = relay[s].sent + len /\ r.ended = relay[s].ended /\ r.late = relay[s].late
    BY <2>4 DEF Peers
  <2> HIDE DEF f, r
  <2>7. Noted(r, relay[s], f, s)
    <3>1. /\ r.held + Weight(f, s, {"Credit"}) = relay[s].held
          /\ r.sent = relay[s].sent + Weight(f, s, Data)
      BY <2>3, <2>4, <2>5
    <3> QED
      BY <2>3, <2>5, <2>6, <3>1 DEF Noted
  <2>8. relay' \in [Ids -> Peers] /\ relay'[s] = r /\ \A t \in Ids : t # s => relay'[t] = relay[t]
    BY <2>5, <2>6, <1>t
  <2> QED
    BY <2>1, <2>3, <2>7, <2>8, SaysKeeps DEF f, len
<1>4. ASSUME NEW s \in Ids, RelayCredits(s) PROVE IInv'
  <2> DEFINE f == Frame("Credit", s, relay[s].held)
             r == [relay[s] EXCEPT !.held = 0]
  <2>4. /\ relay[s] \in Peers /\ relay[s].held \in Nat /\ relay[s].sent \in Int
    BY <1>t, StreamType
  <2>3. /\ f \in Frames /\ f.stream = s /\ ~IsAsk(f, s) /\ f.kind \notin {"Request", "Websocket"}
        /\ Weight(f, s, Data) = 0 /\ Weight(f, s, {"Credit"}) = relay[s].held
    BY <2>4 DEF Frame, Frames, IsAsk, Weight, Data
  <2>5. /\ r \in Peers /\ r.asked = relay[s].asked /\ r.held = 0 /\ r.sent = relay[s].sent
        /\ r.ended = relay[s].ended /\ r.late = relay[s].late
    BY <2>4 DEF Peers
  <2>6. RelaySays(f) /\ relay' = [relay EXCEPT ![s] = r]
    BY <1>4 DEF RelayCredits
  <2>9. relay[s].asked
    <3>1. relay[s].held # 0
      BY <1>4, <2>4 DEF RelayCredits
    <3> QED
      BY <3>1 DEF IInv, StartsOK, UnstartedOK, AskedOK
  <2> HIDE DEF f, r
  <2>7. Noted(r, relay[s], f, s)
    <3>1. /\ r.held + Weight(f, s, {"Credit"}) = relay[s].held
          /\ r.sent = relay[s].sent + Weight(f, s, Data)
      BY <2>3, <2>4, <2>5
    <3> QED
      BY <2>3, <2>5, <2>9, <3>1 DEF Noted
  <2>8. relay' \in [Ids -> Peers] /\ relay'[s] = r /\ \A t \in Ids : t # s => relay'[t] = relay[t]
    BY <2>5, <2>6, <1>t
  <2> QED
    BY <2>3, <2>6, <2>7, <2>8, SaysKeeps
<1>5. ASSUME NEW s \in Ids, RelayResets(s) PROVE IInv'
  <2> DEFINE f == Frame("Reset", s, 0)
             r == [relay[s] EXCEPT !.quit = TRUE]
  <2>4. /\ relay[s] \in Peers /\ relay[s].held \in Nat /\ relay[s].sent \in Int
    BY <1>t, StreamType
  <2>3. /\ f \in Frames /\ f.stream = s /\ ~IsAsk(f, s) /\ f.kind \notin {"Request", "Websocket"}
        /\ Weight(f, s, Data) = 0 /\ Weight(f, s, {"Credit"}) = 0
    BY DEF Frame, Frames, IsAsk, Weight, Data
  <2>5. /\ r \in Peers /\ r.asked = relay[s].asked /\ r.held = relay[s].held
        /\ r.sent = relay[s].sent /\ r.ended = relay[s].ended /\ r.late = relay[s].late
    BY <2>4 DEF Peers
  <2>6. relay[s].asked /\ RelaySays(f) /\ relay' = [relay EXCEPT ![s] = r]
    BY <1>5 DEF RelayResets
  <2> HIDE DEF f, r
  <2>7. Noted(r, relay[s], f, s)
    <3>1. /\ r.held + Weight(f, s, {"Credit"}) = relay[s].held
          /\ r.sent = relay[s].sent + Weight(f, s, Data)
      BY <2>3, <2>4, <2>5
    <3> QED
      BY <2>3, <2>5, <2>6, <3>1 DEF Noted
  <2>8. relay' \in [Ids -> Peers] /\ relay'[s] = r /\ \A t \in Ids : t # s => relay'[t] = relay[t]
    BY <2>5, <2>6, <1>t
  <2> QED
    BY <2>3, <2>6, <2>7, <2>8, SaysKeeps
<1> QED
  BY <1>1, <1>2, <1>3, <1>4, <1>5, RunLoopKeeps DEF Relay

----------------------------------------------------------------------------
(* Reading a frame.                                                        *)

\* The wire without its first frame.
LEMMA WireTail ==
  ASSUME IInv, wire # <<>>, wire' = Tail(wire)
  PROVE  /\ wire \in Seq(Frames) /\ wire' \in Seq(Frames) /\ Head(wire) \in Frames
         /\ Len(wire') = Len(wire) - 1 /\ Len(wire) \in Nat \ {0} /\ Head(wire) = wire[1]
         /\ 1 \in 1..Len(wire) /\ Len(wire') <= MaxWire
         /\ \A i \in 1..Len(wire') : wire'[i] = wire[i + 1] /\ i + 1 \in 1..Len(wire)
         /\ \A i \in 1..Len(wire) : i = 1 \/ (i - 1 \in 1..Len(wire') /\ wire'[i - 1] = wire[i])
         /\ \A t, kinds : /\ Bytes(wire, t, kinds) = Weight(Head(wire), t, kinds) + Bytes(wire', t, kinds)
                          /\ Weight(Head(wire), t, kinds) \in Nat /\ Bytes(wire', t, kinds) \in Nat
<1>1. wire \in Seq(Frames) /\ Len(wire) <= MaxWire
  BY DEF IInv, TypeOK
<1>2. /\ wire' \in Seq(Frames) /\ Head(wire) \in Frames /\ Len(wire') = Len(wire) - 1
      /\ Len(wire) \in Nat \ {0} /\ Head(wire) = wire[1]
      /\ \A i \in 1..Len(wire') : wire'[i] = wire[i + 1]
  BY <1>1
<1>3. /\ 1 \in 1..Len(wire) /\ Len(wire') <= MaxWire
      /\ \A i \in 1..Len(wire') : i + 1 \in 1..Len(wire)
  BY <1>1, <1>2, TunnelAssumption
<1>4. \A i \in 1..Len(wire) : i = 1 \/ (i - 1 \in 1..Len(wire') /\ wire'[i - 1] = wire[i])
  <2> SUFFICES ASSUME NEW i \in 1..Len(wire), i # 1
               PROVE  i - 1 \in 1..Len(wire') /\ wire'[i - 1] = wire[i]
    OBVIOUS
  <2>1. i - 1 \in 1..Len(wire') /\ (i - 1) + 1 = i
    BY <1>2
  <2> QED
    BY <2>1, <1>2
<1>5. \A t, kinds : /\ Bytes(wire, t, kinds) = Weight(Head(wire), t, kinds) + Bytes(wire', t, kinds)
                    /\ Weight(Head(wire), t, kinds) \in Nat /\ Bytes(wire', t, kinds) \in Nat
  BY <1>1, <1>2, BytesTail, BytesType, WeightType
<1> QED
  BY <1>1, <1>2, <1>3, <1>4, <1>5

\* Taking any frame off the wire leaves the order of another stream's frames, and
\* so does taking one that does not ask for a stream that is served already.
LEMMA OthersKeepTheirOrder ==
  ASSUME IInv, wire # <<>>, wire' = Tail(wire), NEW t \in Ids, st'[t] = st[t], relay' = relay,
         outbox' = outbox, t # Head(wire).stream,
         t \in open' => t \in open, t \in overrun' => t \in overrun
  PROVE  UnstartedOK(t)' /\ AskedOK(t)'
<1> USE WireTail
<1>1. UnstartedOK(t) /\ AskedOK(t)
  BY DEF IInv, StartsOK
<1>2. AskedOK(t)'
  <2>1. \A i \in 1..Len(wire') : IsAsk(wire'[i], t) => relay'[t].asked /\ st'[t].task = "none"
    BY <1>1 DEF AskedOK
  <2>2. ASSUME NEW i \in 1..Len(wire'), NEW j \in 1..Len(wire'), IsAsk(wire'[i], t), IsAsk(wire'[j], t)
        PROVE  i = j
    <3>1. i + 1 = j + 1
      BY <1>1, <2>2 DEF AskedOK
    <3> QED
      BY <3>1
  <2>3. ~relay'[t].asked => st'[t].task = "none" /\ \A i \in 1..Len(wire') : wire'[i].stream # t
    BY <1>1 DEF AskedOK
  <2> QED
    BY <2>1, <2>2, <2>3 DEF AskedOK, IsAsk
<1>3. ASSUME st[t].task = "none" PROVE UnstartedOK(t)'
  <2>1. /\ Weight(Head(wire), t, Data) = 0 /\ Weight(Head(wire), t, {"Credit"}) = 0
    BY DEF Weight
  <2>2. /\ Bytes(wire', t, Data) = Bytes(wire, t, Data)
        /\ Bytes(wire', t, {"Credit"}) = Bytes(wire, t, {"Credit"})
    <3>1. /\ Bytes(wire, t, Data) = Weight(Head(wire), t, Data) + Bytes(wire', t, Data)
          /\ Bytes(wire, t, {"Credit"})
               = Weight(Head(wire), t, {"Credit"}) + Bytes(wire', t, {"Credit"})
          /\ Bytes(wire', t, Data) \in Nat /\ Bytes(wire', t, {"Credit"}) \in Nat
      OBVIOUS
    <3> QED
      BY <2>1, <3>1
  <2>3. ~IsAsk(wire[1], t)
    BY DEF IsAsk
  <2>4. ASSUME NEW j \in 1..Len(wire'), wire'[j].stream = t
        PROVE  \E i \in 1..j : IsAsk(wire'[i], t)
    <3>1. j + 1 \in 1..Len(wire) /\ wire[j + 1].stream = t
      BY <2>4
    <3>2. PICK i \in 1..(j + 1) : IsAsk(wire[i], t)
      BY <1>1, <1>3, <3>1 DEF UnstartedOK
    <3>3. i \in 1..Len(wire) /\ i # 1
      BY <2>3, <3>1, <3>2
    <3>4. i - 1 \in 1..j /\ IsAsk(wire'[i - 1], t)
      BY <3>2, <3>3
    <3> QED
      BY <3>4
  <2>5. ASSUME relay[t].asked PROVE \E i \in 1..Len(wire') : IsAsk(wire'[i], t)
    <3>1. PICK i \in 1..Len(wire) : IsAsk(wire[i], t)
      BY <1>1, <1>3, <2>5 DEF UnstartedOK
    <3>2. i # 1
      BY <2>3, <3>1
    <3> QED
      BY <3>1, <3>2
  <2> QED
    BY <1>1, <1>3, <2>2, <2>4, <2>5 DEF UnstartedOK, IsAsk, NoTask
<1>4. UnstartedOK(t)'
  BY <1>3 DEF UnstartedOK
<1> QED
  BY <1>2, <1>4

\* What a frame that is no ask may do to the task of its stream.
Got(t, k, f) ==
  /\ TaskOK(t, k)
  /\ k.task = "none" => st[t].task = "none"
  /\ st[t].task \in {"over", "gone"} => k.task \in {"over", "gone"}
  /\ Rest(k) <= Rest(st[t]) + Weight(f, t, {"Credit"})
  /\ Bytes(k.inbound, t, Data) + k.item
       <= Bytes(st[t].inbound, t, Data) + st[t].item + Weight(f, t, Data)
  /\ t \in open' /\ k.task = "run" /\ k.down # "reset" =>
       /\ Sound(t) /\ Rest(k) = Rest(st[t]) + Weight(f, t, {"Credit"})
       /\ k.up \notin Discards =>
            /\ st[t].up \notin Discards
            /\ Bytes(k.inbound, t, Data) + k.item
                 = Bytes(st[t].inbound, t, Data) + st[t].item + Weight(f, t, Data)

LEMMA GotKeeps ==
  ASSUME IInv, wire # <<>>, wire' = Tail(wire), NEW f, f = Head(wire), quiet' = 0,
         f.kind \notin {"Request", "Websocket"}, UNCHANGED <<status, outbox, relay, hung, sessions>>,
         st' \in [Ids -> Tasks], \A t \in Ids : Len(st'[t].inbound) <= INBOUND,
         \A t \in Ids : t # f.stream => st'[t] = st[t],
         \A t \in Ids : t = f.stream => Got(t, st'[t], f),
         open' \subseteq open, overrun \subseteq overrun', overrun' \subseteq Ids,
         \A t \in overrun' : t \in overrun \/ t = f.stream,
         serve' \in {"select", "ping", "beat", "reset"}, refused' \in Ids \cup {NoId},
         serve' = "reset" => refused' \in overrun'
  PROVE  IInv'
<1>t. TypeOK
  BY DEF IInv
<1>w. /\ wire' \in Seq(Frames) /\ Len(wire') <= MaxWire /\ f \in Frames /\ f = wire[1]
      /\ 1 \in 1..Len(wire) /\ Len(wire) \in Nat
      /\ \A i \in 1..Len(wire') : wire'[i] = wire[i + 1] /\ i + 1 \in 1..Len(wire)
      /\ \A t, kinds : /\ Bytes(wire, t, kinds) = Weight(f, t, kinds) + Bytes(wire', t, kinds)
                       /\ Weight(f, t, kinds) \in Nat /\ Bytes(wire', t, kinds) \in Nat
                       /\ t # f.stream => Weight(f, t, kinds) = 0
  BY WireTail, WeightType
<1>1. TypeOK'
  <2>1. 0 \in 0..SILENCE
    BY TunnelAssumption
  <2> QED
    BY <2>1, <1>t, <1>w DEF TypeOK
<1>2. TasksOK'
  <2>1. \A t \in Ids : TaskOK(t, st'[t])
    BY DEF IInv, TasksOK, Got
  <2> QED
    BY <2>1 DEF TasksOK, TaskOK, Largest
<1>3. WindowOK'
  <2> SUFFICES ASSUME NEW t \in Ids PROVE Down(t)' <= WINDOW /\ (Sound(t)' => Down(t)' = WINDOW)
    BY DEF WindowOK
  <2> DEFINE c == Weight(f, t, {"Credit"})
  <2>1. /\ Down(t) <= WINDOW /\ (Sound(t) => Down(t) = WINDOW) /\ WINDOW \in Nat
        /\ Rest(st[t]) \in Int /\ Bytes(outbox, t, Data) \in Nat /\ relay[t].held \in Nat
        /\ Bytes(wire', t, {"Credit"}) \in Nat /\ c \in Nat
    BY <1>t, <1>w, StreamType, TunnelAssumption DEF IInv, WindowOK
  <2>2. Down(t)' = Rest(st'[t]) + Bytes(outbox, t, Data) + relay[t].held + Bytes(wire', t, {"Credit"})
    BY DEF Down, Rest
  <2>3. Down(t) = Rest(st[t]) + Bytes(outbox, t, Data) + relay[t].held + (c + Bytes(wire', t, {"Credit"}))
    BY <1>w DEF Down
  <2>4. /\ Rest(st'[t]) \in Int /\ Rest(st'[t]) <= Rest(st[t]) + c
        /\ Sound(t)' => Sound(t) /\ Rest(st'[t]) = Rest(st[t]) + c
    <3>1. Rest(st'[t]) \in Int
      <4>1. st'[t] \in Tasks
        OBVIOUS
      <4>2. st'[t].window \in Int /\ st'[t].chunk \in Nat
        BY <4>1 DEF Tasks
      <4> QED
        BY <4>2 DEF Rest
    <3>2. CASE t # f.stream
      BY <2>1, <3>1, <3>2, <1>w DEF Sound
    <3>3. CASE t = f.stream
      BY <3>1, <3>3 DEF Got, Sound
    <3> QED
      BY <3>2, <3>3
  <2> HIDE DEF c
  <2> QED
    BY <2>1, <2>2, <2>3, <2>4
<1>4. UploadsCredited'
  <2> SUFFICES ASSUME NEW t \in Ids
               PROVE  /\ Uploading(t)' + relay[t].sent <= Uploading(t) + relay'[t].sent
                      /\ Taking(t)' => /\ Taking(t)
                                       /\ Uploading(t)' + relay[t].sent
                                            = Uploading(t) + relay'[t].sent
    BY <1>1, CreditedOn
  <2> DEFINE a == Bytes(st'[t].inbound, t, Data)
             b == st'[t].item
             c == Bytes(st[t].inbound, t, Data)
             d == st[t].item
             w == Weight(f, t, Data)
             x == Bytes(wire', t, Data)
             o == Bytes(outbox, t, {"Credit"})
  <2>1. a \in Nat /\ b \in Nat /\ c \in Nat /\ d \in Nat /\ w \in Nat /\ x \in Nat /\ o \in Nat
    <3>1. st'[t] \in Tasks
      OBVIOUS
    <3>2. st'[t].item \in Nat /\ st'[t].inbound \in Seq(Frames)
      BY <3>1 DEF Tasks
    <3> QED
      BY <3>2, <1>t, <1>w, StreamType, BytesType
  <2>2. Uploading(t)' = x + a + b + o /\ Uploading(t) = (w + x) + c + d + o
    BY <1>w DEF Uploading
  <2>3. a + b <= c + d + w /\ (Taking(t)' => Taking(t) /\ a + b = c + d + w)
    <3>1. CASE t # f.stream
      <4>1. w = 0 /\ a = c /\ b = d
        BY <3>1, <1>w
      <4>2. Taking(t)' => Taking(t)
        BY <3>1 DEF Taking, Sound
      <4> HIDE DEF a, b, c, d, w
      <4> QED
        BY <4>1, <4>2, <2>1
    <3>2. CASE t = f.stream
      BY <3>2 DEF Got, Taking, Sound, Discards
    <3> QED
      BY <3>1, <3>2
  <2>4. relay[t].sent \in Int /\ relay'[t].sent = relay[t].sent
    BY <1>t, UploadingType
  <2> HIDE DEF a, b, c, d, w, x, o
  <2> QED
    BY <2>1, <2>2, <2>3, <2>4
<1>5. StartsOK'
  <2>n. AsksNamed'
    BY <1>w DEF IInv, StartsOK, AsksNamed
  <2> SUFFICES ASSUME NEW t \in Ids PROVE UnstartedOK(t)' /\ AskedOK(t)'
    BY <2>n DEF StartsOK
  <2>1. CASE t # f.stream
    BY <2>1, OthersKeepTheirOrder
  <2>2. CASE t = f.stream
    <3>1. UnstartedOK(t) /\ AskedOK(t)
      BY DEF IInv, StartsOK
    <3>2. st[t].task # "none"
      <4> SUFFICES ASSUME st[t].task = "none" PROVE FALSE
        OBVIOUS
      <4>1. PICK i \in 1..1 : IsAsk(wire[i], t)
        BY <2>2, <3>1, <1>w DEF UnstartedOK
      <4> QED
        BY <4>1, <1>w DEF IsAsk
    <3>3. st'[t].task # "none"
      BY <2>2, <3>2 DEF Got
    <3>4. AskedOK(t)'
      <4>1. \A i \in 1..Len(wire') : ~IsAsk(wire'[i], t)
        BY <3>1, <3>2, <1>w DEF AskedOK
      <4>2. relay[t].asked
        BY <3>1, <3>2 DEF AskedOK
      <4> QED
        BY <4>1, <4>2 DEF AskedOK, IsAsk
    <3> QED
      BY <3>3, <3>4 DEF UnstartedOK
  <2> QED
    BY <2>1, <2>2
<1>6. EndsOK'
  <2> SUFFICES ASSUME NEW t \in Ids, t \notin overrun' PROVE EndingOK(t)'
    BY DEF EndsOK, EndingOK
  <2>1. EndingOK(t) /\ t \notin overrun
    BY DEF IInv, EndsOK
  <2>2. st[t].task \in {"over", "gone"} => st'[t].task \in {"over", "gone"}
    BY DEF Got
  <2> QED
    BY <2>1, <2>2 DEF EndingOK, IsLast
<1> QED
  BY <1>1, <1>2, <1>3, <1>4, <1>5, <1>6 DEF IInv

\* A task that is left alone may lose its frame once its stream is not served.
LEMMA UnservedGot ==
  ASSUME IInv, NEW t \in Ids, NEW f \in Frames, t \notin open' PROVE Got(t, st[t], f)
<1>1. /\ Rest(st[t]) \in Int /\ Weight(f, t, {"Credit"}) \in Nat /\ Weight(f, t, Data) \in Nat
      /\ Bytes(st[t].inbound, t, Data) \in Nat /\ st[t].item \in Nat
  BY StreamType, WeightType DEF IInv
<1>2. /\ Rest(st[t]) <= Rest(st[t]) + Weight(f, t, {"Credit"})
      /\ Bytes(st[t].inbound, t, Data) + st[t].item
           <= Bytes(st[t].inbound, t, Data) + st[t].item + Weight(f, t, Data)
  BY <1>1
<1> QED
  BY <1>2 DEF Got, IInv, TasksOK

\* An aborted task keeps what it has until it is dropped.
LEMMA AbortGot ==
  ASSUME IInv, NEW t \in Ids, NEW f \in Frames, t \notin open'
  PROVE  /\ Got(t, Abort(st[t]), f) /\ Abort(st[t]) \in Tasks
         /\ Len(Abort(st[t]).inbound) <= INBOUND
<1> DEFINE k == Abort(st[t])
<1>1. st[t] \in Tasks /\ Len(st[t].inbound) <= INBOUND /\ TaskOK(t, st[t])
  BY DEF IInv, TypeOK, TasksOK
<1>2. /\ k \in Tasks /\ k.task = (IF st[t].task = "run" THEN "cancel" ELSE st[t].task)
      /\ k.up = st[t].up /\ k.item = st[t].item /\ k.window = st[t].window
      /\ k.chunk = st[t].chunk /\ k.down = st[t].down /\ k.inbound = st[t].inbound
      /\ k.ws = st[t].ws
  BY <1>1 DEF Abort, Tasks
<1> HIDE DEF k
<1>3. TaskOK(t, k) /\ Rest(k) = Rest(st[t])
  BY <1>1, <1>2 DEF TaskOK, Rest
<1>4. /\ Rest(st[t]) \in Int /\ Weight(f, t, {"Credit"}) \in Nat /\ Weight(f, t, Data) \in Nat
      /\ Bytes(st[t].inbound, t, Data) \in Nat /\ st[t].item \in Nat
  BY StreamType, WeightType DEF IInv
<1>5. /\ Rest(k) <= Rest(st[t]) + Weight(f, t, {"Credit"})
      /\ Bytes(k.inbound, t, Data) + k.item
           <= Bytes(st[t].inbound, t, Data) + st[t].item + Weight(f, t, Data)
  BY <1>2, <1>3, <1>4
<1> QED
  BY <1>1, <1>2, <1>3, <1>5 DEF Got, k

LEMMA GrantGot ==
  ASSUME IInv, NEW t \in Ids, NEW f \in Frames, f.stream = t, f.kind = "Credit",
         t \in open' => t \in open
  PROVE  /\ Got(t, Grant(st[t], f.len), f) /\ Grant(st[t], f.len) \in Tasks
         /\ Len(Grant(st[t], f.len).inbound) <= INBOUND
<1> DEFINE k == Grant(st[t], f.len)
<1>1. /\ st[t] \in Tasks /\ Len(st[t].inbound) <= INBOUND /\ TaskOK(t, st[t])
      /\ f.len \in Nat /\ st[t].window \in Int /\ st[t].window + f.len \in Int
      /\ st[t].chunk \in Nat /\ st[t].item \in Nat /\ Bytes(st[t].inbound, t, Data) \in Nat
  <2>1. f.len \in Nat
    BY DEF Frames
  <2>2. /\ st[t].window \in Int /\ st[t].chunk \in Nat /\ st[t].item \in Nat /\ st[t] \in Tasks
        /\ Bytes(st[t].inbound, t, Data) \in Nat
    BY StreamType DEF IInv
  <2>3. Len(st[t].inbound) <= INBOUND /\ TaskOK(t, st[t])
    BY DEF IInv, TypeOK, TasksOK
  <2> QED
    BY <2>1, <2>2, <2>3
<1>2. /\ k \in Tasks /\ k.task = st[t].task
      /\ k.up = st[t].up /\ k.item = st[t].item /\ k.window = st[t].window + f.len
      /\ k.chunk = st[t].chunk /\ k.down = st[t].down /\ k.inbound = st[t].inbound
      /\ k.ws = st[t].ws
  BY <1>1 DEF Grant, Tasks
<1> HIDE DEF k
<1>3. \A n \in Sizes : n \in Nat /\ (st[t].window + n > 0 => k.window + n > 0)
  BY <1>1, <1>2, TunnelAssumption
<1>4. TaskOK(t, k)
  BY <1>1, <1>2, <1>3 DEF TaskOK
<1>5. Weight(f, t, {"Credit"}) = f.len /\ Weight(f, t, Data) = 0
  BY DEF Weight, Data
<1>6. Rest(k) = Rest(st[t]) + f.len /\ Rest(k) <= Rest(st[t]) + f.len
  BY <1>1, <1>2 DEF Rest
<1>7. /\ Bytes(k.inbound, t, Data) + k.item = Bytes(st[t].inbound, t, Data) + st[t].item + 0
      /\ Bytes(k.inbound, t, Data) + k.item <= Bytes(st[t].inbound, t, Data) + st[t].item + 0
  BY <1>1, <1>2
<1> QED
  BY <1>1, <1>2, <1>4, <1>5, <1>6, <1>7 DEF Got, Sound, k

LEMMA DeliveredGot ==
  ASSUME IInv, NEW t \in Ids, NEW f \in Frames, f.stream = t, ~Overrun(st[t]),
         f.kind \in {"Body", "Message", "End", "Close"}, t \in open' => t \in open
  PROVE  /\ Got(t, Delivered(st[t], f), f) /\ Delivered(st[t], f) \in Tasks
         /\ Len(Delivered(st[t], f).inbound) <= INBOUND
<1> DEFINE k == Delivered(st[t], f)
           q == st[t].inbound
<1>1. /\ st[t] \in Tasks /\ Len(q) <= INBOUND /\ TaskOK(t, st[t]) /\ Rest(st[t]) \in Int
      /\ st[t].item \in Nat /\ Bytes(q, t, Data) \in Nat /\ q \in Seq(Frames)
      /\ Weight(f, t, Data) \in Nat
  BY StreamType, WeightType DEF IInv, TypeOK, TasksOK
<1>2. Weight(f, t, {"Credit"}) = 0
  BY DEF Weight
<1>3. CASE ~Listening(st[t])
  <2>1. k = st[t]
    BY <1>3 DEF Delivered
  <2>2. /\ Rest(st[t]) <= Rest(st[t]) + 0 /\ Rest(st[t]) = Rest(st[t]) + 0
        /\ Bytes(q, t, Data) + st[t].item <= Bytes(q, t, Data) + st[t].item + Weight(f, t, Data)
    BY <1>1
  <2>3. st[t].task = "run" /\ st[t].down # "reset" => st[t].up \in Discards
    BY <1>3 DEF Listening, Discards
  <2> QED
    BY <1>1, <1>2, <2>1, <2>2, <2>3 DEF Got, Sound
<1>4. CASE Listening(st[t])
  <2>1. /\ Append(q, f) \in Seq(Frames) /\ Len(Append(q, f)) = Len(q) + 1 /\ Len(q) \in Nat
        /\ \A i \in 1..Len(Append(q, f)) :
             \/ (i \in 1..Len(q) /\ Append(q, f)[i] = q[i])
             \/ Append(q, f)[i] = f
    <3> HIDE DEF q
    <3> QED
      BY <1>1
  <2>2. Bytes(Append(q, f), t, Data) = Bytes(q, t, Data) + Weight(f, t, Data)
    BY <1>1, BytesAppend
  <2>3. /\ k \in Tasks /\ k.task = st[t].task
        /\ k.up = st[t].up /\ k.item = st[t].item /\ k.window = st[t].window
        /\ k.chunk = st[t].chunk /\ k.down = st[t].down /\ k.inbound = Append(q, f)
        /\ k.ws = st[t].ws
    <3>1. k = [st[t] EXCEPT !.inbound = Append(q, f)]
      BY <1>4 DEF Delivered
    <3> HIDE DEF k, q
    <3> QED
      BY <1>1, <2>1, <3>1 DEF Tasks
  <2>4. Len(Append(q, f)) <= INBOUND
    BY <1>1, <1>4, <2>1, TunnelAssumption DEF Overrun
  <2>5. \A i \in 1..Len(Append(q, f)) : Append(q, f)[i].stream = t
    BY <1>1, <2>1 DEF TaskOK
  <2> HIDE DEF k, q
  <2>6. TaskOK(t, k)
    BY <1>1, <2>3, <2>5 DEF TaskOK
  <2>7. Rest(k) = Rest(st[t])
    BY <2>3 DEF Rest
  <2>8. Rest(k) = Rest(st[t]) + 0 /\ Rest(k) <= Rest(st[t]) + 0
    BY <1>1, <2>7
  <2>9. /\ Bytes(k.inbound, t, Data) + k.item = Bytes(q, t, Data) + st[t].item + Weight(f, t, Data)
        /\ Bytes(k.inbound, t, Data) + k.item <= Bytes(q, t, Data) + st[t].item + Weight(f, t, Data)
    BY <1>1, <2>2, <2>3
  <2> QED
    BY <1>2, <2>3, <2>4, <2>6, <2>8, <2>9 DEF Got, Sound, k, q
<1> QED
  BY <1>3, <1>4

\* The relay's ask starts the task of a stream nobody has seen yet.
LEMMA StartKeeps ==
  ASSUME IInv, wire # <<>>, wire' = Tail(wire), NEW f, f = Head(wire), quiet' = 0,
         f.kind \in {"Request", "Websocket"}, UNCHANGED <<status, outbox, relay, hung, sessions>>,
         st' = [st EXCEPT ![f.stream] = Started(f)], open' = open \cup {f.stream},
         UNCHANGED <<serve, refused, overrun>>
  PROVE  IInv'
<1> DEFINE s == f.stream
           k == Started(f)
<1>t. TypeOK
  BY DEF IInv
<1>w. /\ wire' \in Seq(Frames) /\ Len(wire') <= MaxWire /\ f \in Frames /\ f = wire[1]
      /\ 1 \in 1..Len(wire) /\ Len(wire) \in Nat
      /\ \A i \in 1..Len(wire') : wire'[i] = wire[i + 1] /\ i + 1 \in 1..Len(wire)
      /\ \A t, kinds : /\ Bytes(wire, t, kinds) = Weight(f, t, kinds) + Bytes(wire', t, kinds)
                       /\ Weight(f, t, kinds) \in Nat /\ Bytes(wire', t, kinds) \in Nat
                       /\ t # f.stream => Weight(f, t, kinds) = 0
  BY WireTail, WeightType
<1>s. s \in Ids /\ IsAsk(wire[1], s)
  BY <1>w DEF IInv, StartsOK, AsksNamed, IsAsk
<1>k. /\ k \in Tasks /\ k.task = "run" /\ k.down = "request" /\ k.item = 0 /\ k.inbound = <<>>
      /\ k.window = WINDOW /\ (k.ws => k.up = "off") /\ k.up \in {"off", "recv"} /\ k.chunk = 0
  <2>1. WINDOW \in Int /\ <<>> \in Seq(Frames)
    BY TunnelAssumption
  <2>2. NoTask \in Tasks
    BY <2>1 DEF NoTask, Tasks
  <2> QED
    BY <2>1, <2>2 DEF Started, NoTask, Tasks
<1> HIDE DEF s, k
<1>o. /\ relay[s].asked /\ st[s].task = "none" /\ s \notin overrun /\ relay[s].held = 0
      /\ ~relay[s].ended /\ Bytes(outbox, s, Data) = 0 /\ Bytes(outbox, s, {"Credit"}) = 0
      /\ Bytes(wire, s, {"Credit"}) = 0 /\ relay[s].sent = Bytes(wire, s, Data)
      /\ \A i \in 1..Len(outbox) : outbox[i].stream # s
      /\ \A i \in 1..Len(wire) : IsAsk(wire[i], s) => i = 1
  <2>1. UnstartedOK(s) /\ AskedOK(s)
    BY <1>s DEF IInv, StartsOK
  <2>2. /\ relay[s].asked /\ st[s].task = "none"
        /\ \A i \in 1..Len(wire) : IsAsk(wire[i], s) => i = 1
    BY <2>1, <1>s, <1>w DEF AskedOK
  <2> QED
    BY <2>1, <2>2 DEF UnstartedOK
<1>n. st'[s] = k /\ \A t \in Ids \ {s} : st'[t] = st[t]
  BY <1>s, <1>t DEF TypeOK, s, k
<1>1. TypeOK'
  <2>1. 0 \in 0..SILENCE /\ Len(<<>>) <= INBOUND
    BY TunnelAssumption
  <2>2. st' \in [Ids -> Tasks] /\ \A t \in Ids : Len(st'[t].inbound) <= INBOUND
    BY <2>1, <1>t, <1>k, <1>n DEF TypeOK, k, s
  <2>3. open' \subseteq Ids
    BY <1>s, <1>t DEF TypeOK, s
  <2> QED
    BY <2>1, <2>2, <2>3, <1>t, <1>w DEF TypeOK
<1>2. TasksOK'
  <2>1. TaskOK(s, k)
    <3>1. \A n \in Sizes : WINDOW + n > 0
      BY TunnelAssumption
    <3> QED
      BY <3>1, <1>k DEF TaskOK
  <2>2. \A t \in Ids : TaskOK(t, st'[t])
    BY <2>1, <1>n DEF IInv, TasksOK
  <2> QED
    BY <2>2 DEF TasksOK, TaskOK, Largest
<1>3. WindowOK'
  <2> SUFFICES ASSUME NEW t \in Ids PROVE Down(t)' <= WINDOW /\ (Sound(t)' => Down(t)' = WINDOW)
    BY DEF WindowOK
  <2>1. /\ Down(t)' = Rest(st'[t]) + Bytes(outbox, t, Data) + relay[t].held + Bytes(wire', t, {"Credit"})
        /\ Bytes(wire', t, {"Credit"}) \in Nat
        /\ Bytes(wire, t, {"Credit"}) = Weight(f, t, {"Credit"}) + Bytes(wire', t, {"Credit"})
    BY <1>w DEF Down, Rest
  <2>2. CASE t = s
    <3>1. Weight(f, s, {"Credit"}) = 0
      BY <1>s, <1>w DEF Weight, s
    <3>2. Bytes(wire', s, {"Credit"}) = 0
      BY <2>1, <2>2, <3>1, <1>o
    <3>3. Rest(st'[s]) = WINDOW + 0
      BY <1>n, <1>k DEF Rest
    <3>4. Down(t)' = WINDOW
      BY <2>1, <2>2, <3>2, <3>3, <1>o, TunnelAssumption
    <3> QED
      BY <3>4, TunnelAssumption
  <2>3. CASE t # s
    <3>1. Weight(f, t, {"Credit"}) = 0
      BY <2>3, <1>w DEF s
    <3>2. Bytes(wire', t, {"Credit"}) = Bytes(wire, t, {"Credit"})
      BY <2>1, <3>1
    <3>3. Down(t)' = Down(t) /\ (Sound(t)' => Sound(t))
      BY <2>1, <2>3, <3>2, <1>n DEF Down, Sound, s
    <3> QED
      BY <3>3 DEF IInv, WindowOK
  <2> QED
    BY <2>2, <2>3
<1>4. UploadsCredited'
  <2> SUFFICES ASSUME NEW t \in Ids
               PROVE  /\ Uploading(t)' <= relay'[t].sent
                      /\ Taking(t)' => Uploading(t)' = relay'[t].sent
    BY DEF UploadsCredited
  <2>1. /\ Bytes(wire', t, Data) \in Nat
        /\ Bytes(wire, t, Data) = Weight(f, t, Data) + Bytes(wire', t, Data)
    BY <1>w
  <2>2. Weight(f, t, Data) = 0
    BY <1>w DEF Weight, Data
  <2>3. Bytes(wire', t, Data) = Bytes(wire, t, Data)
    BY <2>1, <2>2
  <2>4. CASE t = s
    <3>1. Bytes(st'[s].inbound, s, Data) = 0 /\ st'[s].item = 0
      BY <1>n, <1>k, BytesEmpty
    <3>2. Uploading(t)' = Bytes(wire', t, Data) + 0 + 0 + 0
      BY <2>4, <3>1, <1>o DEF Uploading
    <3> QED
      BY <2>1, <2>3, <2>4, <3>2, <1>o
  <2>5. CASE t # s
    <3>1. Uploading(t)' = Uploading(t) /\ (Taking(t)' => Taking(t))
      BY <2>3, <2>5, <1>n DEF Uploading, Taking, Sound, s
    <3> QED
      BY <3>1 DEF IInv, UploadsCredited
  <2> QED
    BY <2>4, <2>5
<1>5. StartsOK'
  <2>n. AsksNamed'
    BY <1>w DEF IInv, StartsOK, AsksNamed
  <2> SUFFICES ASSUME NEW t \in Ids PROVE UnstartedOK(t)' /\ AskedOK(t)'
    BY <2>n DEF StartsOK
  <2>1. CASE t # s
    <3>1. /\ st'[t] = st[t] /\ relay' = relay /\ outbox' = outbox /\ t # Head(wire).stream
          /\ (t \in open' => t \in open) /\ (t \in overrun' => t \in overrun)
      BY <2>1, <1>n DEF s
    <3> QED
      BY <3>1, OthersKeepTheirOrder
  <2>2. CASE t = s
    <3>1. \A i \in 1..Len(wire') : ~IsAsk(wire'[i], s)
      <4> SUFFICES ASSUME NEW i \in 1..Len(wire'), IsAsk(wire'[i], s) PROVE FALSE
        OBVIOUS
      <4>1. i + 1 = 1 /\ i \in Nat \ {0}
        BY <1>o, <1>w
      <4> QED
        BY <4>1
    <3>2. AskedOK(t)'
      BY <2>2, <3>1, <1>o DEF AskedOK, IsAsk
    <3> QED
      BY <2>2, <3>2, <1>n, <1>k DEF UnstartedOK
  <2> QED
    BY <2>1, <2>2
<1>6. EndsOK'
  <2> SUFFICES ASSUME NEW t \in Ids, t \notin overrun PROVE EndingOK(t)'
    BY DEF IInv, EndsOK, EndingOK
  <2>1. EndingOK(t)
    BY DEF IInv, EndsOK
  <2>2. CASE t = s
    BY <2>1, <2>2, <1>o DEF EndingOK, IsLast
  <2>3. CASE t # s
    BY <2>1, <2>3, <1>n DEF EndingOK, IsLast
  <2> QED
    BY <2>2, <2>3
<1> QED
  BY <1>1, <1>2, <1>3, <1>4, <1>5, <1>6 DEF IInv

\* A step of Read that changes the record of one stream.
LEMMA ChangedGot ==
  ASSUME IInv, NEW f \in Frames, f.stream \in Ids, NEW k \in Tasks, Len(k.inbound) <= INBOUND,
         Got(f.stream, k, f), st' = [st EXCEPT ![f.stream] = k]
  PROVE  /\ st' \in [Ids -> Tasks] /\ \A t \in Ids : Len(st'[t].inbound) <= INBOUND
         /\ \A t \in Ids : t # f.stream => st'[t] = st[t]
         /\ \A t \in Ids : t = f.stream => Got(t, st'[t], f)
<1>1. st \in [Ids -> Tasks] /\ \A t \in Ids : Len(st[t].inbound) <= INBOUND
  BY DEF IInv, TypeOK
<1>2. st'[f.stream] = k /\ \A t \in Ids : t # f.stream => st'[t] = st[t]
  BY <1>1
<1>3. st' \in [Ids -> Tasks]
  BY <1>1
<1>4. \A t \in Ids : Len(st'[t].inbound) <= INBOUND
  BY <1>1, <1>2
<1> QED
  BY <1>2, <1>3, <1>4

LEMMA ReadKeeps == ASSUME IInv, Read PROVE IInv'
<1> DEFINE f == Head(wire)
           s == f.stream
<1>1. /\ wire # <<>> /\ wire' = Tail(wire) /\ quiet' = 0 /\ serve = "select"
      /\ UNCHANGED <<status, outbox, relay, hung, sessions>> /\ Handle(f)
  BY DEF Read, Selecting
<1>t. /\ TypeOK /\ f \in Frames /\ refused \in Ids \cup {NoId} /\ overrun \subseteq Ids /\ open \subseteq Ids
      /\ st \in [Ids -> Tasks] /\ \A t \in Ids : Len(st[t].inbound) <= INBOUND
      /\ s \in Ids \cup {NoId}
  <2>1. f \in Frames
    BY <1>1, WireTail
  <2>2. s \in Ids \cup {NoId}
    BY <2>1 DEF Frames
  <2> QED
    BY <2>1, <2>2 DEF IInv, TypeOK
<1> HIDE DEF f
\* Nothing happens to the streams, and the frame's stream is not served.
<1>2. ASSUME f.kind \notin {"Request", "Websocket"}, s \notin open,
             UNCHANGED <<serve, refused, open, st, overrun>>
      PROVE  IInv'
  <2>1. \A t \in Ids : t = s => Got(t, st'[t], f)
    BY <1>2, <1>t, UnservedGot
  <2> QED
    BY <1>1, <1>2, <1>t, <2>1, GotKeeps DEF f
<1>3. CASE /\ f.kind \in {"Request", "Websocket"}
           /\ st' = [st EXCEPT ![s] = Started(f)] /\ open' = open \cup {s}
           /\ UNCHANGED <<serve, refused, overrun>>
  BY <1>1, <1>3, StartKeeps DEF f
<1>4. CASE f.kind \in {"Body", "Message", "End", "Close"} /\ Deliver(f)
  <2>1. CASE s \notin open /\ UNCHANGED <<serve, refused, open, st, overrun>>
    BY <1>2, <1>4, <2>1
  <2>2. CASE /\ s \in open /\ ~Overrun(st[s])
             /\ st' = [st EXCEPT ![s] = Delivered(@, f)]
             /\ UNCHANGED <<serve, refused, open, overrun>>
    <3> DEFINE k == Delivered(st[s], f)
    <3>1. s \in Ids /\ st' = [st EXCEPT ![s] = k]
      BY <2>2, <1>t
    <3>2. Got(s, k, f) /\ k \in Tasks /\ Len(k.inbound) <= INBOUND
      BY <1>4, <1>t, <2>2, <3>1, DeliveredGot
    <3> HIDE DEF k
    <3>3. /\ st' \in [Ids -> Tasks] /\ \A t \in Ids : Len(st'[t].inbound) <= INBOUND
          /\ \A t \in Ids : t # f.stream => st'[t] = st[t]
          /\ \A t \in Ids : t = f.stream => Got(t, st'[t], f)
      BY <3>1, <3>2, <1>t, ChangedGot
    <3> HIDE DEF s
    <3> QED
      BY <1>1, <1>4, <1>t, <2>2, <3>3, GotKeeps DEF f
  <2>3. CASE /\ s \in open /\ Overrun(st[s])
             /\ st' = [st EXCEPT ![s] = Abort(@)]
             /\ open' = open \ {s} /\ overrun' = overrun \cup {s}
             /\ serve' = "reset" /\ refused' = s
    <3> DEFINE k == Abort(st[s])
    <3>1. s \in Ids /\ st' = [st EXCEPT ![s] = k] /\ s \notin open'
      BY <2>3, <1>t
    <3>2. Got(s, k, f) /\ k \in Tasks /\ Len(k.inbound) <= INBOUND
      BY <1>t, <3>1, AbortGot
    <3> HIDE DEF k
    <3>3. /\ st' \in [Ids -> Tasks] /\ \A t \in Ids : Len(st'[t].inbound) <= INBOUND
          /\ \A t \in Ids : t # f.stream => st'[t] = st[t]
          /\ \A t \in Ids : t = f.stream => Got(t, st'[t], f)
      BY <3>1, <3>2, <1>t, ChangedGot
    <3>4. /\ open' \subseteq open /\ overrun \subseteq overrun' /\ overrun' \subseteq Ids
          /\ (\A t \in overrun' : t \in overrun \/ t = f.stream)
          /\ serve' \in {"select", "ping", "beat", "reset"} /\ refused' \in Ids \cup {NoId}
          /\ (serve' = "reset" => refused' \in overrun')
      BY <2>3, <3>1, <1>t
    <3> QED
      BY <1>1, <1>4, <3>3, <3>4, GotKeeps DEF f
  <2> QED
    BY <1>4, <2>1, <2>2, <2>3 DEF Deliver
<1>5. CASE /\ f.kind = "Credit"
           /\ st' = IF s \in open THEN [st EXCEPT ![s] = Grant(@, f.len)] ELSE st
           /\ UNCHANGED <<serve, refused, open, overrun>>
  <2>1. CASE s \notin open
    BY <1>2, <1>5, <2>1
  <2>2. CASE s \in open
    <3> DEFINE k == Grant(st[s], f.len)
    <3>1. s \in Ids /\ st' = [st EXCEPT ![s] = k]
      BY <2>2, <1>5, <1>t
    <3>2. Got(s, k, f) /\ k \in Tasks /\ Len(k.inbound) <= INBOUND
      BY <1>5, <1>t, <2>2, <3>1, GrantGot
    <3> HIDE DEF k
    <3>3. /\ st' \in [Ids -> Tasks] /\ \A t \in Ids : Len(st'[t].inbound) <= INBOUND
          /\ \A t \in Ids : t # f.stream => st'[t] = st[t]
          /\ \A t \in Ids : t = f.stream => Got(t, st'[t], f)
      BY <3>1, <3>2, <1>t, ChangedGot
    <3> HIDE DEF s
    <3> QED
      BY <1>1, <1>5, <1>t, <3>3, GotKeeps DEF f
  <2> QED
    BY <2>1, <2>2
<1>6. CASE /\ f.kind = "Reset"
           /\ st' = IF s \in open THEN [st EXCEPT ![s] = Abort(@)] ELSE st
           /\ open' = open \ {s}
           /\ UNCHANGED <<serve, refused, overrun>>
  <2>1. CASE s \notin open
    <3>1. open' = open
      BY <1>6, <2>1
    <3> QED
      BY <1>2, <1>6, <2>1, <3>1
  <2>2. CASE s \in open
    <3> DEFINE k == Abort(st[s])
    <3>1. s \in Ids /\ st' = [st EXCEPT ![s] = k] /\ s \notin open' /\ open' \subseteq open
      BY <2>2, <1>6, <1>t
    <3>2. Got(s, k, f) /\ k \in Tasks /\ Len(k.inbound) <= INBOUND
      BY <1>t, <3>1, AbortGot
    <3> HIDE DEF k
    <3>3. /\ st' \in [Ids -> Tasks] /\ \A t \in Ids : Len(st'[t].inbound) <= INBOUND
          /\ \A t \in Ids : t # f.stream => st'[t] = st[t]
          /\ \A t \in Ids : t = f.stream => Got(t, st'[t], f)
      BY <3>1, <3>2, <1>t, ChangedGot
    <3> QED
      BY <1>1, <1>6, <1>t, <3>1, <3>3, GotKeeps DEF f
  <2> QED
    BY <2>1, <2>2
<1>7. CASE f.kind = "Pong" /\ UNCHANGED <<serve, refused, open, st, overrun>>
  <2>1. ASSUME NEW t \in Ids PROVE Got(t, st'[t], f)
    <3>1. Weight(f, t, Data) = 0 /\ Weight(f, t, {"Credit"}) = 0
      BY <1>7 DEF Weight, Data
    <3>2. Rest(st[t]) \in Int /\ Bytes(st[t].inbound, t, Data) \in Nat /\ st[t].item \in Nat
      BY <1>t, StreamType
    <3>3. /\ Rest(st[t]) = Rest(st[t]) + 0 /\ Rest(st[t]) <= Rest(st[t]) + 0
          /\ Bytes(st[t].inbound, t, Data) + st[t].item
               = Bytes(st[t].inbound, t, Data) + st[t].item + 0
          /\ Bytes(st[t].inbound, t, Data) + st[t].item
               <= Bytes(st[t].inbound, t, Data) + st[t].item + 0
      BY <3>2
    <3> QED
      BY <1>7, <3>1, <3>3 DEF Got, Sound, IInv, TasksOK
  <2> HIDE DEF s
  <2> QED
    BY <1>1, <1>7, <1>t, <2>1, GotKeeps DEF f
<1> QED
  BY <1>1, <1>3, <1>4, <1>5, <1>6, <1>7 DEF Handle

----------------------------------------------------------------------------
(* The theorems.                                                           *)

LEMMA InitOK == Init => IInv
<1> SUFFICES ASSUME Init PROVE IInv
  OBVIOUS
<1>n. NoTask \in Tasks /\ Unknown \in Peers /\ \A s \in Ids : TaskOK(s, NoTask)
  <2>1. WINDOW \in Int /\ <<>> \in Seq(Frames) /\ Len(<<>>) = 0
    BY TunnelAssumption
  <2>2. NoTask \in Tasks
    BY <2>1 DEF NoTask, Tasks
  <2>3. \A n \in Sizes : WINDOW + n > 0
    BY TunnelAssumption
  <2>4. \A s \in Ids : TaskOK(s, NoTask)
    BY <2>1, <2>3 DEF TaskOK, NoTask
  <2> QED
    BY <2>2, <2>4 DEF Unknown, Peers
<1>e. /\ outbox = <<>> /\ wire = <<>> /\ open = {} /\ overrun = {} /\ Len(<<>>) = 0
      /\ <<>> \in Seq(Frames) /\ st = [s \in Ids |-> NoTask] /\ relay = [s \in Ids |-> Unknown]
      /\ \A s, kinds : Bytes(<<>>, s, kinds) = 0
  BY BytesEmpty DEF Init
<1>1. TypeOK
  <2>1. 0 \in 0..SILENCE /\ 0 \in 0..MaxSessions /\ 0 <= OUTBOX /\ 0 <= MaxWire /\ 0 <= INBOUND
    BY TunnelAssumption
  <2>2. \A s \in Ids : Len(st[s].inbound) <= INBOUND
    BY <1>e, <2>1 DEF NoTask
  <2> QED
    BY <1>n, <1>e, <2>1, <2>2 DEF TypeOK, Init
<1>2. TasksOK
  BY <1>n, <1>e DEF TasksOK
<1>3. WindowOK
  <2> SUFFICES ASSUME NEW s \in Ids PROVE Down(s) = WINDOW
    BY TunnelAssumption DEF WindowOK
  <2>1. Rest(st[s]) = WINDOW + 0 /\ relay[s].held = 0
    BY <1>e DEF Rest, NoTask, Unknown
  <2>2. Down(s) = WINDOW + 0 + 0 + 0 + 0
    BY <1>e, <2>1 DEF Down
  <2> QED
    BY <2>2, TunnelAssumption
<1>4. UploadsCredited
  <2> SUFFICES ASSUME NEW t \in Ids PROVE Uploading(t) = 0 /\ relay[t].sent = 0
    BY DEF UploadsCredited
  <2> QED
    BY <1>e DEF Uploading, NoTask, Unknown
<1>5. StartsOK
  BY <1>e DEF StartsOK, AsksNamed, UnstartedOK, AskedOK, NoTask, Unknown
<1>6. EndsOK
  BY <1>e DEF EndsOK, EndingOK, Unknown, Init
<1> QED
  BY <1>1, <1>2, <1>3, <1>4, <1>5, <1>6 DEF IInv

LEMMA NextKeeps == ASSUME IInv, [Next]_vars PROVE IInv'
<1>1. CASE ReadLast
  <2>1. PICK outcome \in {"Retrying", "Rejected"} : EndSession(outcome)
    BY <1>1 DEF ReadLast
  <2> QED
    BY <2>1, EndSessionKeeps
<1>2. CASE UNCHANGED vars
  <2>1. TypeOK'
    BY <1>2 DEF IInv, TypeOK, vars
  <2> QED
    BY <1>2, <2>1, IdleKeeps DEF vars
<1> QED
  BY <1>1, <1>2, RunLoopKeeps, ReadKeeps, PushesKeep, WriteKeeps, RelayKeeps, FinishKeeps, TasksKeep
     DEF Next, Loop

\* The inductive invariant holds: each stream's bytes are accounted for both
\* ways, streams start once, and they end with their last frame.
THEOREM TunnelInvariant == Spec => []IInv
BY InitOK, NextKeeps, PTL DEF Spec

\* Every part of the tunnel's state has its type; outbox and inbound queues stay
\* within the capacities of their channels.
THEOREM TunnelTypeCorrect == Spec => []TypeOK
<1>1. IInv => TypeOK
  BY DEF IInv
<1> QED
  BY <1>1, TunnelInvariant, PTL

\* No credit is lost or made up on the way down: Window, outbox, relay and the
\* credits it sent make up the window of every sound stream (send_counted, grant).
THEOREM NoCreditIsLost == Spec => []CreditConserved
<1>1. IInv => CreditConserved
  <2> SUFFICES ASSUME IInv, NEW s \in Ids, Sound(s)
               PROVE  WINDOW = st[s].window + (IF st[s].down = "push" THEN st[s].chunk ELSE 0)
                                 + Bytes(outbox, s, Data) + relay[s].held + Bytes(wire, s, {"Credit"})
    BY DEF CreditConserved
  <2>1. Down(s) = WINDOW
    BY DEF IInv, WindowOK
  <2> QED
    BY <2>1 DEF Down, Rest
<1> QED
  BY <1>1, TunnelInvariant, PTL

\* The relay never has more of a stream to hold than the window and the message
\* that overdrew it, whatever the sizes of messages and however late its credits.
THEOREM RelayIsNotFlooded == Spec => []RelayNotFlooded
<1>1. IInv => RelayNotFlooded
  <2> SUFFICES ASSUME IInv, NEW s \in Ids, NEW n \in Sizes, \A m \in Sizes : m <= n
               PROVE  Bytes(outbox, s, Data) + relay[s].held < WINDOW + n
    BY DEF RelayNotFlooded
  <2>1. Down(s) <= WINDOW /\ st[s].window + n > 0
    BY DEF IInv, WindowOK, TasksOK, TaskOK, Largest
  <2>2. Down(s) = Rest(st[s]) + Bytes(outbox, s, Data) + relay[s].held + Bytes(wire, s, {"Credit"})
    BY DEF Down
  <2>3. /\ st[s].window \in Int /\ st[s].chunk \in Nat /\ Bytes(outbox, s, Data) \in Nat
        /\ relay[s].held \in Nat /\ Bytes(wire, s, {"Credit"}) \in Nat /\ Rest(st[s]) \in Int
        /\ WINDOW \in Nat /\ n \in Nat
    BY StreamType, TunnelAssumption DEF IInv
  <2>4. Rest(st[s]) >= st[s].window
    BY <2>3 DEF Rest
  <2> QED
    BY <2>1, <2>2, <2>3, <2>4
<1> QED
  BY <1>1, TunnelInvariant, PTL

\* No credit is lost or made up on the way up: what upload and to_local have
\* passed on is credited once, and nothing else is.
THEOREM UploadsAreCredited == Spec => []UploadsCredited
<1>1. IInv => UploadsCredited
  BY DEF IInv
<1> QED
  BY <1>1, TunnelInvariant, PTL

\* The relay hears nothing of a stream after the frame that ended it, unless the
\* serve loop reset the stream while its task was being polled.
THEOREM LastWordIsLast == Spec => []LastWord
<1>1. IInv => LastWord
  <2> SUFFICES ASSUME IInv, NEW s \in Ids, relay[s].late PROVE s \in overrun
    BY DEF LastWord
  <2> QED
    BY DEF IInv, EndsOK, EndingOK
<1> QED
  BY <1>1, TunnelInvariant, PTL
=============================================================================
