------------------------------- MODULE Outbox --------------------------------
(***************************************************************************)
(* The queue between one browser's WebSocket and everything the server has *)
(* to tell it (crates/server/src/ws/outbox.rs), with the tasks that fill   *)
(* it (crates/server/src/ws.rs): the session that starts and stops         *)
(* streams, one forwarder per stream, the event and the decoded-record     *)
(* tasks, and the writer that empties it into the socket.                  *)
(*                                                                         *)
(* Control messages are never dropped but may close the connection, decoded*)
(* records shed their oldest and say how many, frames are dropped when     *)
(* they are old, in the way or replaced.  How old a frame is when the      *)
(* queue is touched is left open: any prefix of a frame lane may have      *)
(* expired.                                                                *)
(***************************************************************************)
EXTENDS Integers, SequencesExt, Sums

CONSTANTS
  AudioStreams, VisualStreams,   \* stream ids, by the lane their frames take
  SpectrumStreams,               \* those of spawn_spectrum; the other visual ones are
                                 \* symbols, iq and video
  ControlLimit, DecodedLimit, AudioLimit, MediaLimit, ByteLimit, FrameLimit,
  FrameSizes,                    \* sizes of frames; other messages have size 1
  MaxFrames,                     \* bound: frames a stream has to forward
  MaxRecords,                    \* bound: decoded records
  MaxEvents                      \* bound: events of the engine

ASSUME OutboxAssumption ==
  /\ AudioStreams \cap VisualStreams = {} /\ SpectrumStreams \subseteq VisualStreams
  /\ \A limit \in {ControlLimit, DecodedLimit, AudioLimit, MediaLimit, ByteLimit,
                   FrameLimit} : limit \in Nat \ {0}
  /\ FrameSizes \subseteq Nat \ {0}
  /\ MaxFrames \in Nat /\ MaxRecords \in Nat /\ MaxEvents \in Nat

Streams == AudioStreams \cup VisualStreams
Tasks == Streams \cup {"session", "events", "decoded"}
NoStream == "no stream"

VARIABLES
  q,        \* Queue
  permit,   \* Notify: a wakeup is stored for the writer
  writer,   \* where write_output is
  task,     \* where each task is; the holders of an Outbox are those not over
  aborted,  \* tasks whose handle was aborted
  subs,     \* streams in the session's maps
  \* history
  pushed,   \* per stream the frames that came, in total those put in or counted as
            \* dropped; records and events made so far, and records missed
  stops,    \* streams a StreamStopped was put in for
  heard     \* what the socket was given

vars == <<q, permit, writer, task, aborted, subs, pushed, stops, heard>>

Control(what, id) == [what |-> what, id |-> id, size |-> 1]
Record(n) == [what |-> "record", n |-> n, size |-> 1]
Frame(id, size) == [what |-> "frame", id |-> id, size |-> size, late |-> id \in stops]

Bytes(packets) == Total([i \in 1..Len(packets) |-> packets[i].size])
Without(packets, n) == SubSeq(packets, n + 1, Len(packets))

----------------------------------------------------------------------------
(* Queue: expire, push, pop.                                               *)

\* The first i audio frames and the first j others are too old.
Expired(k, i, j) ==
  [k EXCEPT !.audio = Without(@, i), !.media = Without(@, j),
            !.bytes = @ - Bytes(SubSeq(k.audio, 1, i)) - Bytes(SubSeq(k.media, 1, j)),
            !.dropped = @ + i + j]

PushControlFreely(k, p) == [k EXCEPT !.control = Append(@, p), !.bytes = @ + p.size]

\* Frames make way for control, pictures before sound; if they do not make
\* enough, or too much control is waiting, the connection is given up.
PushControl(k, p) ==
  LET frames == k.media \o k.audio
      Fits(n) == k.bytes - Bytes(SubSeq(frames, 1, n)) + p.size <= ByteLimit
      n == Min({Len(frames)} \cup {m \in 0..Len(frames) : Fits(m)})
      cleared == [k EXCEPT !.media = Without(@, n),
                           !.audio = IF n > Len(k.media) THEN Without(@, n - Len(k.media)) ELSE @,
                           !.bytes = @ - Bytes(SubSeq(frames, 1, n)),
                           !.dropped = @ + n]
  IN IF Len(k.control) >= ControlLimit \/ p.size > ByteLimit
     THEN [k EXCEPT !.closed = TRUE]
     ELSE IF Fits(n)
     THEN [cleared EXCEPT !.control = Append(@, p), !.bytes = @ + p.size]
     ELSE [cleared EXCEPT !.closed = TRUE]

ReplacedKeepsBytes(k, f) ==
  LET same == {i \in 1..Len(k.media) : k.media[i].id = f.id}
  IN IF f.id \in AudioStreams \/ same = {} THEN k
     ELSE [k EXCEPT !.media = RemoveAt(@, Min(same)), !.dropped = @ + 1]

ReplacedUncounted(k, f) ==
  LET same == {i \in 1..Len(k.media) : k.media[i].id = f.id}
  IN IF f.id \in AudioStreams \/ same = {} THEN k
     ELSE [k EXCEPT !.media = RemoveAt(@, Min(same)), !.bytes = @ - k.media[Min(same)].size]

\* A picture replaces the one of its stream that is still waiting.
Replaced(k, f) ==
  LET same == {i \in 1..Len(k.media) : k.media[i].id = f.id}
  IN IF f.id \in AudioStreams \/ same = {} THEN k
     ELSE [k EXCEPT !.media = RemoveAt(@, Min(same)), !.bytes = @ - k.media[Min(same)].size,
                    !.dropped = @ + 1]

PushFrame(k, f) ==
  LET r == Replaced(k, f)
      audio == f.id \in AudioStreams
      full == IF audio THEN Len(r.audio) >= AudioLimit ELSE Len(r.media) >= MediaLimit
  IN IF f.size > FrameLimit \/ r.bytes + f.size > ByteLimit \/ full
     THEN [r EXCEPT !.dropped = @ + 1]
     ELSE IF audio
     THEN [r EXCEPT !.audio = Append(@, f), !.bytes = @ + f.size]
     ELSE [r EXCEPT !.media = Append(@, f), !.bytes = @ + f.size]

ShedSilently(k, n) ==
  [k EXCEPT !.decoded = Without(@, n), !.bytes = @ - Bytes(SubSeq(k.decoded, 1, n)),
            !.dropped = @ + n]

\* forget_lossy for the n oldest records.
Shed(k, n) ==
  [k EXCEPT !.decoded = Without(@, n), !.bytes = @ - Bytes(SubSeq(k.decoded, 1, n)),
            !.dropped = @ + n, !.lost = @ + n]

PushLossy(k, p) ==
  LET Fits(n) == /\ Len(k.decoded) - n < DecodedLimit
                 /\ k.bytes - Bytes(SubSeq(k.decoded, 1, n)) + p.size <= ByteLimit
      all == Shed(k, Len(k.decoded))
      enough == {n \in 0..Len(k.decoded) : Fits(n)}
  IN IF enough # {}
     THEN [Shed(k, Min(enough)) EXCEPT !.decoded = Append(@, p), !.bytes = @ + p.size]
     ELSE [all EXCEPT !.dropped = @ + 1, !.lost = @ + 1]

\* Queue::push: closed it takes nothing; otherwise frames expire first (the first
\* i of sound and j others), and the packet goes to its lane.
Push(k, p, i, j) ==
  LET e == Expired(k, i, j)
  IN IF k.closed THEN k
     ELSE IF p.what = "record" THEN PushLossy(e, p)
     ELSE IF p.what = "frame" THEN PushFrame(e, p)
     ELSE PushControl(e, p)

WaitsForNothing(k, p) == FALSE

\* A StreamStopped stays behind the frames of its stream.
Waits(k, p) ==
  /\ p.what = "stopped"
  /\ \E i \in 1..Len(k.audio \o k.media) : (k.audio \o k.media)[i].id = p.id

LaneSoundFirst(k) ==
  LET ready == {i \in 1..Len(k.control) : ~Waits(k, k.control[i])}
  IN IF k.lost > 0 THEN <<"lost", 0>>
     ELSE IF k.audio # <<>> THEN <<"audio", 1>>
     ELSE IF ready # {} THEN <<"control", Min(ready)>>
     ELSE IF k.decoded # <<>> THEN <<"decoded", 1>>
     ELSE IF k.media # <<>> THEN <<"media", 1>>
     ELSE <<"none", 0>>

\* What pop hands out, and the lane it takes it from.
Lane(k) ==
  LET ready == {i \in 1..Len(k.control) : ~Waits(k, k.control[i])}
  IN IF k.lost > 0 THEN <<"lost", 0>>
     ELSE IF ready # {} THEN <<"control", Min(ready)>>
     ELSE IF k.audio # <<>> THEN <<"audio", 1>>
     ELSE IF k.decoded # <<>> THEN <<"decoded", 1>>
     ELSE IF k.media # <<>> THEN <<"media", 1>>
     ELSE <<"none", 0>>

Popped(k) ==
  LET lane == Lane(k)[1]
      i == Lane(k)[2]
  IN IF lane = "lost" THEN [k EXCEPT !.lost = 0]
     ELSE IF lane = "control" THEN [k EXCEPT !.control = RemoveAt(@, i), !.bytes = @ - k.control[i].size]
     ELSE IF lane = "audio" THEN [k EXCEPT !.audio = Tail(@), !.bytes = @ - k.audio[1].size]
     ELSE IF lane = "decoded" THEN [k EXCEPT !.decoded = Tail(@), !.bytes = @ - k.decoded[1].size]
     ELSE [k EXCEPT !.media = Tail(@), !.bytes = @ - k.media[1].size]

Told(k) ==
  LET lane == Lane(k)[1]
      p == k.control[Lane(k)[2]]
      f == IF lane = "audio" THEN k.audio[1] ELSE k.media[1]
  IN IF lane = "lost" THEN [heard EXCEPT !.lost = @ + k.lost]
     ELSE IF lane = "control"
     THEN [heard EXCEPT !.started = IF p.what = "started" THEN @ \cup {p.id} ELSE @,
                        !.stopped = IF p.what = "stopped" THEN @ \cup {p.id} ELSE @,
                        !.lost = IF p.what = "missed" THEN @ + 1 ELSE @]
     ELSE IF lane = "decoded"
     THEN [heard EXCEPT !.records = @ + 1, !.last = k.decoded[1].n]
     ELSE [heard EXCEPT !.frames = @ + 1,
                        !.early = @ \cup ({f.id} \ heard.started),
                        !.after = @ \cup ({f.id} \cap heard.stopped)]

----------------------------------------------------------------------------

Init ==
  /\ q = [control |-> <<>>, decoded |-> <<>>, audio |-> <<>>, media |-> <<>>,
          bytes |-> 0, dropped |-> 0, lost |-> 0, closed |-> FALSE]
  /\ permit = FALSE /\ writer = "check"
  /\ task = [t \in Tasks |-> IF t \in Streams THEN "none" ELSE "await"]
  /\ aborted = {} /\ subs = {}
  /\ pushed = [frames |-> [s \in Streams |-> 0], total |-> 0, records |-> 0, missed |-> 0,
               events |-> 0]
  /\ stops = {}
  /\ heard = [started |-> {}, stopped |-> {}, records |-> 0, last |-> 0, lost |-> 0,
              frames |-> 0, early |-> {}, after |-> {}]

DropSilently == UNCHANGED permit

\* An Outbox that is dropped wakes the writer.
DropNotifies == permit' = TRUE

NotifyForgotten == UNCHANGED permit

\* notify_one after a push.
NotifyOne == permit' = TRUE

\* Outbox::enqueue: push under the lock, then notify_one.
Enqueue(p) ==
  /\ \E i \in 0..Len(q.audio), j \in 0..Len(q.media) : q' = Push(q, p, i, j)
  /\ NotifyOne

----------------------------------------------------------------------------
(* The session.                                                            *)

Subscribe(s) ==
  /\ task["session"] = "await"
  /\ task[s] = "none"
  /\ Enqueue(Control("started", s))
  /\ task' = [task EXCEPT ![s] = "await"]
  /\ subs' = subs \cup {s}
  /\ UNCHANGED <<writer, aborted, pushed, stops, heard>>

Unsubscribe(s) ==
  /\ task["session"] = "await"
  /\ s \in subs
  /\ subs' = subs \ {s}
  /\ aborted' = aborted \cup {s}
  /\ Enqueue(Control("stopped", s))
  /\ stops' = stops \cup {s}
  /\ UNCHANGED <<writer, task, pushed, heard>>

\* handle_socket leaves its loop: the client left, the writer stopped or the
\* phone was revoked, which is said first; every task is aborted and the
\* session's outbox dropped.
Disconnect(revoked) ==
  /\ task["session"] = "await"
  /\ IF revoked
     THEN Enqueue(Control("event", NoStream))
     ELSE DropNotifies /\ UNCHANGED q
  /\ task' = [task EXCEPT !["session"] = "over"]
  /\ aborted' = Tasks
  /\ UNCHANGED <<writer, subs, pushed, stops, heard>>

----------------------------------------------------------------------------
(* The tasks.  An abort takes effect where a task awaits; a forwarder that *)
(* was handed a frame still sends it, and may find the next one waiting.   *)

\* recv returned, with a frame, a lag or the end of the source.
Receive(s) ==
  /\ task[s] = "await"
  /\ s \notin aborted
  /\ task' = [task EXCEPT ![s] = "busy"]
  /\ UNCHANGED <<q, permit, writer, aborted, subs, pushed, stops, heard>>

\* A frame was put in or reported with Outbox::dropped, or passed over unnoticed.
Forwarded(s) == [pushed EXCEPT !.frames[s] = @ + 1, !.total = @ + 1]
Unnoticed(s) == [pushed EXCEPT !.frames[s] = @ + 1]

\* Back to recv, which may have the next one at once.
Again(s) == \E next \in {"await", "busy"} : task' = [task EXCEPT ![s] = next]

SendFrame(s, size) ==
  /\ task[s] \in {"busy", "hold"}
  /\ pushed.frames[s] < MaxFrames
  /\ IF q.closed
     THEN /\ task' = [task EXCEPT ![s] = "over"]
          /\ DropNotifies
          /\ UNCHANGED <<q, pushed>>
     ELSE /\ Enqueue(Frame(s, size))
          /\ pushed' = Forwarded(s)
          /\ Again(s)
  /\ UNCHANGED <<writer, aborted, subs, stops, heard>>

\* recv says that the forwarder lagged, or sound is old or one of many: counted
\* (Outbox::dropped, which wakes nobody) and not sent.
SkipFrame(s) ==
  /\ task[s] = "busy"
  /\ pushed.frames[s] < MaxFrames
  /\ q' = [q EXCEPT !.dropped = @ + 1]
  /\ pushed' = Forwarded(s)
  /\ Again(s)
  /\ UNCHANGED <<permit, writer, aborted, subs, stops, heard>>

\* The loop of try_recv in which a forwarder of pictures looks for a newer one
\* than it holds.  The held one is counted, unless it is of a spectrum.
Drain(s) ==
  /\ s \in VisualStreams
  /\ task[s] \in {"busy", "hold"}
  /\ pushed.frames[s] + 1 < MaxFrames
  /\ IF s \in SpectrumStreams
     THEN pushed' = Unnoticed(s) /\ UNCHANGED q
     ELSE pushed' = Forwarded(s) /\ q' = [q EXCEPT !.dropped = @ + 1]
  /\ task' = [task EXCEPT ![s] = "hold"]
  /\ UNCHANGED <<permit, writer, aborted, subs, stops, heard>>

\* In that loop a lag is passed over and counted nowhere, whatever the stream.
DrainLagged(s) ==
  /\ s \in VisualStreams
  /\ task[s] \in {"busy", "hold"}
  /\ pushed.frames[s] + 1 < MaxFrames
  /\ pushed' = Unnoticed(s)
  /\ task' = [task EXCEPT ![s] = "hold"]
  /\ UNCHANGED <<q, permit, writer, aborted, subs, stops, heard>>

\* A spectrum comes faster than the client asked for: let go of, uncounted.
Throttled(s) ==
  /\ s \in SpectrumStreams
  /\ task[s] \in {"busy", "hold"}
  /\ pushed.frames[s] < MaxFrames
  /\ pushed' = Unnoticed(s)
  /\ Again(s)
  /\ UNCHANGED <<q, permit, writer, aborted, subs, stops, heard>>

\* The source of a spectrum closed: its forwarder first asks for another one, on
\* a thread it awaits.
Reopen(s) ==
  /\ s \in SpectrumStreams
  /\ task[s] = "busy"
  /\ task' = [task EXCEPT ![s] = "reopen"]
  /\ UNCHANGED <<q, permit, writer, aborted, subs, pushed, stops, heard>>

Reopened(s) ==
  /\ task[s] = "reopen"
  /\ s \notin aborted
  /\ \E next \in {"await", "closed"} : task' = [task EXCEPT ![s] = next]
  /\ UNCHANGED <<q, permit, writer, aborted, subs, pushed, stops, heard>>

\* The stream's source is gone: the forwarder says so and ends.
SourceClosed(s) ==
  /\ task[s] = IF s \in SpectrumStreams THEN "closed" ELSE "busy"
  /\ Enqueue(Control("stopped", s))
  /\ stops' = stops \cup {s}
  /\ task' = [task EXCEPT ![s] = "over"]
  /\ UNCHANGED <<writer, aborted, subs, pushed, heard>>

\* spawn_events; an outbox that is closed ends the task.
SendEvent ==
  /\ task["events"] = "await"
  /\ "events" \notin aborted
  /\ pushed.events < MaxEvents
  /\ Enqueue(Control("event", NoStream))
  /\ pushed' = [pushed EXCEPT !.events = @ + 1]
  /\ task' = [task EXCEPT !["events"] = IF q'.closed THEN "over" ELSE "await"]
  /\ UNCHANGED <<writer, aborted, subs, stops, heard>>

\* spawn_decoded; records are numbered as the decoder made them.
SendDecoded ==
  LET record == Record(pushed.records + 1)
  IN /\ task["decoded"] = "await"
     /\ "decoded" \notin aborted
     /\ pushed.records < MaxRecords
     /\ Enqueue(record)
     /\ pushed' = IF q.closed THEN pushed ELSE [pushed EXCEPT !.records = @ + 1]
     /\ task' = [task EXCEPT !["decoded"] = IF q.closed THEN "over" ELSE "await"]
     /\ UNCHANGED <<writer, aborted, subs, stops, heard>>

\* spawn_decoded lagged behind the decoder: the loss is said at once, as control
\* that overtakes the records still waiting.  One record; a longer lag is a run
\* of these.
MissDecoded ==
  /\ task["decoded"] = "await"
  /\ "decoded" \notin aborted
  /\ pushed.records < MaxRecords
  /\ Enqueue(Control("missed", NoStream))
  /\ pushed' = [pushed EXCEPT !.records = @ + 1, !.missed = @ + 1]
  /\ task' = [task EXCEPT !["decoded"] = IF q'.closed THEN "over" ELSE "await"]
  /\ UNCHANGED <<writer, aborted, subs, stops, heard>>

Cancel(t) ==
  /\ t \in aborted
  /\ task[t] \in {"await", "reopen"}
  /\ task' = [task EXCEPT ![t] = "over"]
  /\ DropNotifies
  /\ UNCHANGED <<q, writer, aborted, subs, pushed, stops, heard>>

----------------------------------------------------------------------------
(* The writer: write_output and Output::recv.                              *)

NoSenders == \A t \in Tasks : task[t] \in {"none", "over"}

Recv ==
  /\ writer = "check"
  /\ IF q.closed
     THEN writer' = "done" /\ UNCHANGED <<q, heard>>
     ELSE \E i \in 0..Len(q.audio), j \in 0..Len(q.media) :
            LET k == Expired(q, i, j)
            IN IF Lane(k)[1] # "none"
               THEN q' = Popped(k) /\ heard' = Told(k) /\ writer' = "write"
               ELSE /\ q' = [k EXCEPT !.closed = NoSenders]
                    /\ writer' = IF NoSenders THEN "done" ELSE "wait"
                    /\ UNCHANGED heard
  /\ UNCHANGED <<permit, task, aborted, subs, pushed, stops>>

Woken ==
  /\ writer = "wait"
  /\ permit
  /\ permit' = FALSE
  /\ writer' = "check"
  /\ UNCHANGED <<q, task, aborted, subs, pushed, stops, heard>>

\* The socket took the message.
Written ==
  /\ writer = "write"
  /\ writer' = "check"
  /\ UNCHANGED <<q, permit, task, aborted, subs, pushed, stops, heard>>

\* The socket failed, took longer than WRITE_TIMEOUT, or the connection is over
\* and CLOSE_FLUSH passed: the writer ends and its Output closes the queue.
WriterGivesUp ==
  /\ \/ writer = "write"
     \/ task["session"] = "over" /\ writer # "done"
  /\ writer' = "done"
  /\ q' = [q EXCEPT !.closed = TRUE]
  /\ UNCHANGED <<permit, task, aborted, subs, pushed, stops, heard>>

Session == \/ \E s \in Streams : Subscribe(s) \/ Unsubscribe(s)
           \/ \E revoked \in BOOLEAN : Disconnect(revoked)

Forward(s) == \/ SkipFrame(s) \/ Drain(s) \/ DrainLagged(s) \/ Throttled(s)
              \/ \E size \in FrameSizes : SendFrame(s, size)
              \/ Reopen(s) \/ Reopened(s) \/ SourceClosed(s)

Next == \/ Session
        \/ \E s \in Streams : Receive(s) \/ Forward(s)
        \/ SendEvent \/ SendDecoded \/ MissDecoded
        \/ \E t \in Tasks : Cancel(t)
        \/ Recv \/ Woken \/ Written \/ WriterGivesUp

\* The runtime polls every task that is ready, and a write ends, if only by its
\* timeout; nothing makes a client, a stream or an event come.  CLOSE_FLUSH may
\* end the writer but is not relied on.
Fairness == /\ WF_vars(Recv \/ Woken)
            /\ WF_vars(writer = "write" /\ (Written \/ WriterGivesUp))
            /\ \A s \in Streams : WF_vars(Forward(s))
            /\ \A t \in Tasks : WF_vars(Cancel(t))

Spec == Init /\ [][Next]_vars /\ Fairness

----------------------------------------------------------------------------
(* Properties.                                                             *)

Controls == [what : {"started", "stopped"}, id : Streams, size : {1}]
              \cup [what : {"event", "missed"}, id : {NoStream}, size : {1}]
Records == [what : {"record"}, n : Nat, size : {1}]
Frames == [what : {"frame"}, id : Streams, size : FrameSizes, late : BOOLEAN]

Queues == [control : Seq(Controls), decoded : Seq(Records), audio : Seq(Frames), media : Seq(Frames),
           bytes : Nat, dropped : Nat, lost : Nat, closed : BOOLEAN]

\* The limits of the four lanes and of what is in them together.
Within(k) ==
  /\ Len(k.control) <= ControlLimit /\ Len(k.decoded) <= DecodedLimit
  /\ Len(k.audio) <= AudioLimit /\ Len(k.media) <= MediaLimit /\ k.bytes <= ByteLimit

\* Every part of the state has its type, and the queue keeps its limits.
TypeOK ==
  /\ q \in Queues /\ Within(q) /\ permit \in BOOLEAN
  /\ writer \in {"check", "wait", "write", "done"}
  /\ task \in [Tasks -> {"none", "await", "busy", "hold", "reopen", "closed", "over"}]
  /\ aborted \subseteq Tasks /\ subs \subseteq Streams /\ stops \subseteq Streams
  /\ pushed \in [frames : [Streams -> 0..MaxFrames], total : Nat, records : 0..MaxRecords,
                 missed : 0..MaxRecords, events : 0..MaxEvents]
  /\ heard \in [started : SUBSET Streams, stopped : SUBSET Streams, records : Nat, last : Nat,
                lost : Nat, frames : Nat, early : SUBSET Streams, after : SUBSET Streams]

\* The byte budget is what is really queued, however packets came and went.
BytesExact ==
  q.bytes = Bytes(q.control) + Bytes(q.decoded) + Bytes(q.audio) + Bytes(q.media)

\* Every frame that was put in or reported with Outbox::dropped, and every record
\* that was put in, was sent, is waiting, or is in the count of dropped packets
\* clients are shown, exactly once.  Pictures that were passed over unnoticed
\* (Drain of a spectrum, DrainLagged, Throttled) are in no count.
EveryPacketAccounted ==
  pushed.total + pushed.records - pushed.missed =
    heard.frames + heard.records + q.dropped
      + Len(q.audio) + Len(q.media) + Len(q.decoded)

\* A client that counts the records it gets and the losses it is told of never
\* takes a record for the successor of the last one when it is not: whatever was
\* lost, in the queue or on the way to it, is reported before the record that
\* follows the gap.
GapsExplained ==
  [][heard'.records # heard.records => heard'.last <= heard'.records + heard'.lost]_vars

\* A client hears that a stream started before it gets a frame of it.
StartComesFirst == heard.early = {}

\* Once StreamStopped was sent, no frame that was queued before it is left.
StopsBehindItsFrames ==
  \A i \in 1..Len(q.audio \o q.media) :
    LET f == (q.audio \o q.media)[i] IN f.id \in heard.stopped => f.late

\* What outbox.rs names "a stream stops behind its own frames": after its
\* StreamStopped a client gets no frame of the stream.
NoFrameAfterStop == heard.after = {}

\* Control is sent, or the connection is given up: no wakeup is lost, and no
\* StreamStopped waits for a frame that never leaves.
ControlDelivered == q.control # <<>> ~> (q.control = <<>> \/ q.closed)

\* Once the connection is over the writer ends too, without being cut off: the
\* last of the tasks to let go of the outbox wakes it.
WriterEnds == task["session"] = "over" ~> writer = "done"

=============================================================================
