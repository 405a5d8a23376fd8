------------------------------- MODULE Tunnel --------------------------------
(***************************************************************************)
(* The outbound tunnel to the relay of app.sdrmm.com (crates/tunnel): the  *)
(* run loop that dials and retries, the serve loop of one session, the     *)
(* writer, and a task per relayed HTTP request or WebSocket.  All of them  *)
(* share one bounded outbox.  Each stream has a byte window each way: the  *)
(* task may not send while the window is used up, and tells the relay how  *)
(* much it passed on to the local server.                                  *)
(*                                                                         *)
(* The relay and the local server are the environment.  The relay gives    *)
(* every request of a session a number of its own and never has more than  *)
(* WINDOW bytes of a stream on the way, which is what its stand-in in      *)
(* crates/tunnel/tests/relay.rs does.                                      *)
(***************************************************************************)
EXTENDS Integers, Sequences, Sums

CONSTANTS
  Ids,           \* stream numbers
  OUTBOX,        \* frames the outbox holds
  INBOUND,       \* items a stream's task may have waiting
  WINDOW,        \* bytes a stream may have on the way, each way
  SILENCE,       \* keepalive ticks after which a quiet relay may be given up
  Sizes,         \* sizes of bodies and messages
  Asks,          \* what the relay asks for: "Request", "Websocket"
  Kinds,         \* what it sends on a stream
  Speaks,        \* what it sends to the session
  Keepalive,     \* FALSE: behaviours between two keepalive ticks
  MaxIn, MaxOut, \* bound: frames per stream from the relay, from the local server
  MaxWire,       \* bound: frames of the relay that are not read yet
  MaxSessions    \* bound: sessions

NoId == 0        \* of a frame that belongs to no stream

ASSUME TunnelAssumption ==
  /\ NoId \notin Ids
  /\ OUTBOX \in Nat \ {0} /\ INBOUND \in Nat \ {0} /\ WINDOW \in Nat \ {0}
  /\ SILENCE \in Nat \ {0} /\ Sizes \subseteq Nat
  /\ Kinds \subseteq {"Body", "Message", "End", "Close"}
  /\ Asks \subseteq {"Request", "Websocket"}
  /\ Speaks \subseteq {"Pong", "Health", "Goodbye", "Rejection", "Hang"}
  /\ Keepalive \in BOOLEAN
  /\ MaxIn \in Nat /\ MaxOut \in Nat /\ MaxWire \in Nat \ {0} /\ MaxSessions \in Nat

VARIABLES
  status,    \* what the run loop publishes
  serve,     \* where the serve loop is; anything but "select" is a push it waits in
  refused,   \* the stream whose overrun reset it pushes
  outbox,    \* frames for the writer
  open,      \* Streams::open
  st,        \* the streams' tasks
  wire,      \* frames of the relay that are not read yet
  quiet,     \* keepalive ticks since the relay was heard
  relay,     \* what the relay knows of each stream
  hung,      \* the relay neither reads nor writes any more
  sessions,  \* sessions so far
  overrun    \* history: streams reset for overrunning their window

vars == <<status, serve, refused, outbox, open, st, wire, quiet, relay, hung, sessions, overrun>>

Frame(kind, s, len) == [kind |-> kind, stream |-> s, len |-> len]

\* task: "cancel" is an aborted task that may still be in its last poll, "over"
\* one that returned and is not joined yet.  up: upload or to_local; down: the
\* request and relay_response or to_relay.  closing: to_local gave the relay's
\* Close to the local server.
NoTask ==
  [task |-> "none", ws |-> FALSE, up |-> "off", down |-> "request", item |-> 0, chunk |-> 0,
   made |-> 0, window |-> WINDOW, inbound |-> <<>>, closing |-> FALSE]

Unknown == [asked |-> FALSE, count |-> 0, sent |-> 0, held |-> 0, ended |-> FALSE,
            quit |-> FALSE, late |-> FALSE]

Fresh ==
  /\ refused' = NoId /\ outbox' = <<>> /\ open' = {} /\ wire' = <<>> /\ quiet' = 0
  /\ st' = [s \in Ids |-> NoTask] /\ relay' = [s \in Ids |-> Unknown]
  /\ hung' = FALSE /\ overrun' = {}

Init ==
  /\ status = "Connecting" /\ serve = "select" /\ refused = NoId /\ outbox = <<>>
  /\ open = {} /\ st = [s \in Ids |-> NoTask] /\ wire = <<>> /\ quiet = 0
  /\ relay = [s \in Ids |-> Unknown] /\ hung = FALSE /\ sessions = 0 /\ overrun = {}

----------------------------------------------------------------------------
(* The run loop.                                                           *)

\* connect and handshake.  A session starts with a health report.
Connect ==
  /\ status = "Connecting" /\ sessions < MaxSessions
  /\ status' = "Online" /\ serve' = "beat" /\ sessions' = sessions + 1
  /\ Fresh

ConnectFails ==
  /\ status = "Connecting"
  /\ \E outcome \in {"Retrying", "Rejected"} : status' = outcome
  /\ UNCHANGED <<serve, refused, outbox, open, st, wire, quiet, relay, hung, sessions, overrun>>

Retry ==
  /\ status = "Retrying" /\ status' = "Connecting"
  /\ UNCHANGED <<serve, refused, outbox, open, st, wire, quiet, relay, hung, sessions, overrun>>

\* serve returns: dropping Streams and the writer ends every task of the session.
EndSession(outcome) ==
  /\ status' = outcome /\ serve' = "select" /\ Fresh
  /\ UNCHANGED sessions

\* The socket or the writer fails, whatever the serve loop is waiting for.
ConnectionLost ==
  /\ status = "Online"
  /\ EndSession("Retrying")

----------------------------------------------------------------------------
(* Window and Link.                                                        *)

Room == Len(outbox) < OUTBOX
PutAnyway(frame) == outbox' = Append(outbox, frame)
Put(frame) == Room /\ outbox' = Append(outbox, frame)

GrantAnew(k, n) == [k EXCEPT !.window = n]
Grant(k, n) == [k EXCEPT !.window = @ + n]

\* A sender waits for an open window and may then overdraw it.
MaySpendAlways(k) == TRUE
MaySpendCovered(k) == k.window >= k.chunk
MaySpend(k) == k.window > 0
Spend(k) == [k EXCEPT !.window = @ - k.chunk, !.down = "push"]

----------------------------------------------------------------------------
(* The serve loop.                                                         *)

Abort(k) == [k EXCEPT !.task = IF @ = "run" THEN "cancel" ELSE @]

Selecting == status = "Online" /\ serve = "select"

\* A frame that does not decode, that only a device sends, or that opens a
\* stream twice ends the session; "Health" stands for the first two.
Broken(frame) ==
  \/ frame.kind = "Health"
  \/ frame.kind \in {"Request", "Websocket"} /\ frame.stream \in open

\* Streams::start.  An HTTP upload is read from the start, a WebSocket's
\* messages once the local server has accepted it.
Started(frame) ==
  [NoTask EXCEPT !.task = "run", !.ws = frame.kind = "Websocket",
                 !.up = IF frame.kind = "Websocket" THEN "off" ELSE "recv"]

\* The receiver of a stream's queue is dropped when upload, to_local or
\* discard_until_end returns, or exchange fails.  A response that ends and a
\* socket that is not accepted hold on to it.
Listening(k) == k.task = "run" /\ k.down # "reset" /\ k.up \notin {"done", "discarded"}

\* Dropping it, with what is queued.
Unheard(k, up) == [k EXCEPT !.up = up, !.item = 0, !.inbound = <<>>]

\* try_send: full, or closed, when the item is lost and nobody is told.
Overrun(k) == Listening(k) /\ Len(k.inbound) >= INBOUND
Delivered(k, frame) ==
  IF Listening(k) THEN [k EXCEPT !.inbound = Append(@, frame)] ELSE k

Deliver(frame) ==
  LET s == frame.stream
  IN \/ /\ s \notin open
        /\ UNCHANGED <<serve, refused, open, st, overrun>>
     \/ /\ s \in open /\ ~Overrun(st[s])
        /\ st' = [st EXCEPT ![s] = Delivered(@, frame)]
        /\ UNCHANGED <<serve, refused, open, overrun>>
     \/ /\ s \in open /\ Overrun(st[s])
        /\ st' = [st EXCEPT ![s] = Abort(@)]
        /\ open' = open \ {s} /\ overrun' = overrun \cup {s}
        /\ serve' = "reset" /\ refused' = s

\* Streams::handle, for the frames that do not end the session.
Handle(frame) ==
  LET s == frame.stream
  IN \/ /\ frame.kind \in {"Request", "Websocket"}
        /\ st' = [st EXCEPT ![s] = Started(frame)] /\ open' = open \cup {s}
        /\ UNCHANGED <<serve, refused, overrun>>
     \/ /\ frame.kind \in {"Body", "Message", "End", "Close"}
        /\ Deliver(frame)
     \/ /\ frame.kind = "Credit"
        /\ st' = IF s \in open THEN [st EXCEPT ![s] = Grant(@, frame.len)] ELSE st
        /\ UNCHANGED <<serve, refused, open, overrun>>
     \/ /\ frame.kind = "Reset"
        /\ st' = IF s \in open THEN [st EXCEPT ![s] = Abort(@)] ELSE st
        /\ open' = open \ {s}
        /\ UNCHANGED <<serve, refused, overrun>>
     \/ /\ frame.kind = "Pong"
        /\ UNCHANGED <<serve, refused, open, st, overrun>>

Read ==
  /\ Selecting /\ wire # <<>>
  /\ wire' = Tail(wire) /\ quiet' = 0
  /\ Head(wire).kind \notin {"Goodbye", "Rejection"} /\ ~Broken(Head(wire))
  /\ Handle(Head(wire))
  /\ UNCHANGED <<status, outbox, relay, hung, sessions>>

ReadLast ==
  /\ Selecting /\ wire # <<>>
  /\ \/ Head(wire).kind = "Goodbye" \/ Broken(Head(wire))
     \/ Head(wire).kind = "Rejection"
  /\ EndSession(IF Head(wire).kind = "Rejection" THEN "Rejected" ELSE "Retrying")

\* Streams::finish, of a task that returned.
Finish(s) ==
  /\ Selecting /\ st[s].task = "over"
  /\ open' = open \ {s} /\ st' = [st EXCEPT ![s].task = "gone"]
  /\ UNCHANGED <<status, serve, refused, outbox, wire, quiet, relay, hung, sessions, overrun>>

TickTrusting ==
  /\ Selecting /\ Keepalive /\ serve' = "ping"
  /\ UNCHANGED <<status, refused, outbox, open, st, wire, quiet, relay, hung, sessions, overrun>>

\* A tick later than SILENCE ends the session; the tick that falls on it may.  A
\* frame may lie unread then: ticks missed in a long push come all at once.
Tick ==
  /\ Selecting /\ Keepalive
  /\ LET waited == quiet + 1
     IN \/ /\ waited <= SILENCE
           /\ quiet' = waited /\ serve' = "ping"
           /\ UNCHANGED <<status, refused, outbox, open, st, wire, relay, hung, sessions, overrun>>
        \/ /\ waited >= SILENCE
           /\ EndSession("Retrying")

\* What the serve loop waits for the outbox with: ping, health report, reset.
PushPing ==
  /\ status = "Online" /\ serve = "ping" /\ Put(Frame("Ping", NoId, 0))
  /\ serve' = "beat"
  /\ UNCHANGED <<status, refused, open, st, wire, quiet, relay, hung, sessions, overrun>>

Beat ==
  /\ status = "Online" /\ serve = "beat" /\ serve' = "select"
  /\ outbox' = outbox \/ Put(Frame("Health", NoId, 0))
  /\ UNCHANGED <<status, refused, open, st, wire, quiet, relay, hung, sessions, overrun>>

PushReset ==
  /\ status = "Online" /\ serve = "reset" /\ Put(Frame("Reset", refused, 0))
  /\ serve' = "select" /\ refused' = NoId
  /\ UNCHANGED <<status, open, st, wire, quiet, relay, hung, sessions, overrun>>

----------------------------------------------------------------------------
(* A stream's task.                                                        *)

Running(s) == status = "Online" /\ st[s].task \in {"run", "cancel"}

\* The rest of the session while a task takes a step of its own.
Elsewhere ==
  UNCHANGED <<status, serve, refused, open, wire, quiet, relay, hung, sessions, overrun>>

Step(s, k) == st' = [st EXCEPT ![s] = k] /\ outbox' = outbox /\ Elsewhere
Send(s, frame, k) == Put(frame) /\ st' = [st EXCEPT ![s] = k] /\ Elsewhere

FailedSilently(k) == [Unheard(k, "off") EXCEPT !.task = "over"]

\* exchange fails: both halves are dropped and a Reset is sent.
Failed(k) == [Unheard(k, "off") EXCEPT !.down = "reset"]

\* An aborted task is dropped at one of its awaits.
Cancel(s) ==
  /\ status = "Online" /\ st[s].task = "cancel"
  /\ Step(s, [Unheard(st[s], "off") EXCEPT !.task = "gone"])

\* send_request: the local server answers, accepting an upgrade or not.
Respond(s) ==
  /\ Running(s) /\ st[s].down = "request"
  /\ \/ \E accepted \in BOOLEAN : Step(s, [st[s] EXCEPT !.down = "response", !.ws = @ /\ accepted])
     \/ Step(s, Failed(st[s]))

PushResponse(s) ==
  /\ Running(s) /\ st[s].down = "response"
  /\ Send(s, Frame("Response", s, 0),
          [st[s] EXCEPT !.down = "idle", !.up = IF st[s].ws THEN "recv" ELSE @])

\* The local server has a chunk of its response, or a message.
Produce(s) ==
  /\ Running(s) /\ st[s].down = "idle" /\ st[s].made < MaxOut
  /\ \E n \in Sizes : Step(s, [st[s] EXCEPT !.down = "spend", !.chunk = n, !.made = @ + 1])

\* Its response ends, its socket closes, or the connection to it breaks.  A
\* break after the relay's Close was passed on is answered with that Close.
LocalEnds(s) ==
  /\ Running(s) /\ st[s].down = "idle"
  /\ Step(s, [st[s] EXCEPT !.down = "last"])

LocalBreaks(s) ==
  /\ Running(s) /\ st[s].down = "idle"
  /\ Step(s, IF st[s].ws /\ st[s].closing THEN [st[s] EXCEPT !.down = "last"] ELSE Failed(st[s]))

\* send_counted
SpendWindow(s) ==
  /\ Running(s) /\ st[s].down = "spend" /\ MaySpend(st[s])
  /\ Step(s, Spend(st[s]))

PushChunk(s) ==
  /\ Running(s) /\ st[s].down = "push"
  /\ Send(s, Frame(IF st[s].ws THEN "Message" ELSE "Body", s, st[s].chunk),
          [st[s] EXCEPT !.down = "idle", !.chunk = 0])

OverOnceUploaded(k) ==
  IF k.up \in {"recv", "send", "credit"} THEN [k EXCEPT !.down = "idle"]
  ELSE [k EXCEPT !.task = "over"]

\* The last frame of a stream; the select drops what the upload was doing.
Over(k) == [Unheard(k, "off") EXCEPT !.task = "over"]

PushLast(s) ==
  /\ Running(s) /\ st[s].down \in {"last", "reset"}
  /\ Send(s, Frame(IF st[s].down = "reset" THEN "Reset"
                   ELSE IF st[s].ws THEN "Close" ELSE "End", s, 0),
          Over(st[s]))

\* upload and to_local: take an item.
Taken(k) ==
  LET i == Head(k.inbound)
      rest == [k EXCEPT !.inbound = Tail(@)]
  IN IF i.kind = (IF k.ws THEN "Message" ELSE "Body")
       THEN [rest EXCEPT !.up = "send", !.item = i.len]
     ELSE IF ~k.ws /\ i.kind = "End" THEN Unheard(k, "done")
     ELSE IF k.ws /\ i.kind = "Close" THEN [rest EXCEPT !.up = "close"]
     ELSE Failed(rest)

Take(s) ==
  /\ Running(s) /\ st[s].up = "recv" /\ st[s].inbound # <<>>
  /\ Step(s, Taken(st[s]))

ForwardUncredited(s) ==
  /\ Running(s) /\ st[s].up \in {"send", "close"}
  /\ Step(s, [st[s] EXCEPT !.up = "recv", !.item = 0])

\* The local server takes it, or has stopped taking.  An upload it has closed is
\* thrown away to its end; a socket it has closed is an error.
Forward(s) ==
  /\ Running(s) /\ st[s].up \in {"send", "close"}
  /\ \/ Step(s, IF st[s].up = "send" THEN [st[s] EXCEPT !.up = "credit"]
                ELSE [Unheard(st[s], "done") EXCEPT !.closing = TRUE])
     \/ Step(s, IF st[s].ws THEN Failed(st[s]) ELSE [st[s] EXCEPT !.up = "discard", !.item = 0])

PushCredit(s) ==
  /\ Running(s) /\ st[s].up = "credit"
  /\ Send(s, Frame("Credit", s, st[s].item), [st[s] EXCEPT !.up = "recv", !.item = 0])

\* discard_until_end
Discard(s) ==
  /\ Running(s) /\ st[s].up = "discard" /\ st[s].inbound # <<>>
  /\ Step(s, IF Head(st[s].inbound).kind = "End" THEN Unheard(st[s], "discarded")
             ELSE [st[s] EXCEPT !.inbound = Tail(@)])

----------------------------------------------------------------------------
(* The writer and the relay.                                               *)

\* What the relay makes of a frame.
Heard(r, frame) ==
  [r EXCEPT !.held = @ + (IF frame.kind \in {"Body", "Message"} THEN frame.len ELSE 0),
            !.sent = @ - (IF frame.kind = "Credit" THEN frame.len ELSE 0),
            !.ended = @ \/ frame.kind \in {"End", "Close", "Reset"},
            !.late = @ \/ r.ended]

Write ==
  /\ status = "Online" /\ ~hung /\ outbox # <<>>
  /\ outbox' = Tail(outbox)
  /\ relay' = LET f == Head(outbox)
              IN IF f.stream = NoId THEN relay ELSE [relay EXCEPT ![f.stream] = Heard(@, f)]
  /\ UNCHANGED <<status, serve, refused, open, st, wire, quiet, hung, sessions, overrun>>

RelaySays(frame) ==
  /\ status = "Online" /\ ~hung /\ Len(wire) < MaxWire
  /\ wire' = Append(wire, frame)
  /\ UNCHANGED <<status, serve, refused, outbox, open, st, quiet, hung, sessions, overrun>>

RelayAsks(s) ==
  /\ ~relay[s].asked /\ relay' = [relay EXCEPT ![s].asked = TRUE]
  /\ \E kind \in Asks : RelaySays(Frame(kind, s, 0))

RelaySends(s) ==
  /\ relay[s].asked /\ ~relay[s].ended /\ ~relay[s].quit /\ relay[s].count < MaxIn
  /\ \E kind \in Kinds : \E n \in Sizes :
       LET len == IF kind \in {"Body", "Message"} THEN n ELSE 0
       IN /\ relay[s].sent + len <= WINDOW
          /\ relay' = [relay EXCEPT ![s].sent = @ + len, ![s].count = @ + 1]
          /\ RelaySays(Frame(kind, s, len))

RelayCredits(s) ==
  /\ relay[s].held > 0
  /\ relay' = [relay EXCEPT ![s].held = 0]
  /\ RelaySays(Frame("Credit", s, relay[s].held))

RelayResets(s) ==
  /\ relay[s].asked /\ ~relay[s].quit /\ relay' = [relay EXCEPT ![s].quit = TRUE]
  /\ RelaySays(Frame("Reset", s, 0))

RelaySpeaks ==
  /\ UNCHANGED relay
  /\ \E kind \in Speaks \ {"Hang"} : RelaySays(Frame(kind, NoId, 0))

RelayHangs ==
  /\ "Hang" \in Speaks /\ status = "Online" /\ ~hung /\ hung' = TRUE
  /\ UNCHANGED <<status, serve, refused, outbox, open, st, wire, quiet, relay, sessions, overrun>>

----------------------------------------------------------------------------
Loop == Read \/ ReadLast \/ PushPing \/ Beat \/ PushReset

\* What a task does by itself, and what it waits for the local server with.
Working(s) ==
  \/ PushResponse(s) \/ SpendWindow(s) \/ PushChunk(s) \/ PushLast(s)
  \/ Take(s) \/ PushCredit(s) \/ Discard(s) \/ Cancel(s)
LocalServer(s) == Respond(s) \/ Produce(s) \/ LocalEnds(s) \/ LocalBreaks(s) \/ Forward(s)

Relay ==
  \/ RelaySpeaks \/ RelayHangs
  \/ \E s \in Ids : RelayAsks(s) \/ RelaySends(s) \/ RelayCredits(s) \/ RelayResets(s)

Next ==
  \/ Connect \/ ConnectFails \/ Retry \/ ConnectionLost
  \/ Loop \/ Tick \/ Write \/ Relay
  \/ \E s \in Ids : Finish(s) \/ Working(s) \/ LocalServer(s)

\* select! takes each ready branch sooner or later, ticks come, and mpsc serves
\* those who wait for room in turn.  The local server answers a request and goes
\* on with a response until it ends; a relay that is not hung reads what it is
\* sent and credits what it has passed on.
Fairness ==
  /\ SF_vars(Read \/ ReadLast) /\ SF_vars(PushPing \/ Beat \/ PushReset) /\ WF_vars(Tick)
  /\ WF_vars(Write)
  /\ \A s \in Ids : /\ SF_vars(Finish(s)) /\ WF_vars(Cancel(s)) /\ WF_vars(SpendWindow(s))
                    /\ SF_vars(PushResponse(s) \/ PushChunk(s) \/ PushLast(s))
                    /\ WF_vars(Respond(s)) /\ WF_vars(Produce(s) \/ LocalEnds(s) \/ LocalBreaks(s))
                    /\ SF_vars(RelayCredits(s))

Spec == Init /\ [][Next]_vars /\ Fairness

----------------------------------------------------------------------------
(* Properties.                                                             *)

Frames == [kind : {"Request", "Websocket", "Response", "Body", "Message", "End", "Close", "Reset",
                   "Credit", "Health", "Ping", "Pong", "Goodbye", "Rejection"},
           stream : Ids \cup {NoId}, len : Nat]

Tasks ==
  [task : {"none", "run", "cancel", "over", "gone"}, ws : BOOLEAN, closing : BOOLEAN,
   up : {"off", "recv", "send", "close", "credit", "discard", "discarded", "done"},
   down : {"request", "response", "idle", "spend", "push", "last", "reset"},
   item : Nat, chunk : Nat, made : Nat, window : Int, inbound : Seq(Frames)]

Peers == [asked : BOOLEAN, count : Nat, sent : Int, held : Nat, ended : BOOLEAN,
          quit : BOOLEAN, late : BOOLEAN]

\* Every part of the state has its type, and the queues keep their bounds.
TypeOK ==
  /\ status \in {"Connecting", "Online", "Retrying", "Rejected"}
  /\ serve \in {"select", "ping", "beat", "reset"} /\ refused \in Ids \cup {NoId}
  /\ outbox \in Seq(Frames) /\ Len(outbox) <= OUTBOX
  /\ wire \in Seq(Frames) /\ Len(wire) <= MaxWire
  /\ open \subseteq Ids /\ overrun \subseteq Ids
  /\ quiet \in 0..SILENCE /\ hung \in BOOLEAN /\ sessions \in 0..MaxSessions
  /\ st \in [Ids -> Tasks] /\ \A s \in Ids : Len(st[s].inbound) <= INBOUND
  /\ relay \in [Ids -> Peers]

Weight(frame, s, kinds) == IF frame.stream = s /\ frame.kind \in kinds THEN frame.len ELSE 0
Bytes(frames, s, kinds) == Total([i \in 1..Len(frames) |-> Weight(frames[i], s, kinds)])
Data == {"Body", "Message"}

Sound(s) == s \in open /\ st[s].task = "run" /\ st[s].down # "reset"

\* No credit is lost or made up on the way down: what a stream may still send,
\* what is queued, what the relay holds and what it has given back make up the
\* window.
CreditConserved ==
  \A s \in Ids : Sound(s) =>
    WINDOW = st[s].window + (IF st[s].down = "push" THEN st[s].chunk ELSE 0)
               + Bytes(outbox, s, Data) + relay[s].held + Bytes(wire, s, {"Credit"})

\* However late its credits come, the relay never has more of a stream to hold
\* than the window and the one message that overdrew it.
RelayNotFlooded ==
  \A s \in Ids : \A n \in Sizes : (\A m \in Sizes : m <= n) =>
    Bytes(outbox, s, Data) + relay[s].held < WINDOW + n

\* Where the bytes of a stream are that the relay counts as on the way: on the
\* wire, waiting for the task, in its hands, or in a credit that is queued.
Uploading(s) ==
  Bytes(wire, s, Data) + Bytes(st[s].inbound, s, Data) + st[s].item + Bytes(outbox, s, {"Credit"})

\* The local server takes what it is sent, and the relay has not ended the upload.
Taking(s) == Sound(s) /\ st[s].up \notin {"discard", "discarded", "done"}

\* No credit is made up on the way up, and none is lost while the upload is read:
\* a relay is never told that more was passed on than it sent, and what it counts
\* as on the way is.  What comes behind an End or a Close, or for a task that
\* failed, is dropped and never credited.
UploadsCredited ==
  \A s \in Ids : /\ Uploading(s) <= relay[s].sent
                 /\ Taking(s) => Uploading(s) = relay[s].sent

\* The frame that ends a stream is the last one of it, unless the serve loop reset
\* the stream while its task was being polled.
LastWord == \A s \in Ids : relay[s].late => s \in overrun

\* A sender does not wait for a window that never opens, even to send more than
\* the window holds.
SenderNotStuck ==
  \A s \in Ids : Running(s) /\ st[s].down = "spend" ~> ~(Running(s) /\ st[s].down = "spend") \/ hung

\* Every relayed request comes to an end: a relay that keeps reading hears the
\* last of it, unless it gave the stream up or the session is over.
RequestsEnd ==
  \A s \in Ids :
    s \in open /\ ~st[s].ws ~>
      relay[s].ended \/ relay[s].quit \/ s \in overrun \/ hung \/ status # "Online"

\* A relay that hangs with everything read is given up, unless the serve loop is
\* itself stuck behind what streams put into the outbox since.
SilenceNoticed ==
  status = "Online" /\ hung /\ outbox = <<>> ~>
    ~hung \/ (serve # "select" /\ ~Room /\ \E i \in 1..Len(outbox) : outbox[i].stream # NoId)
=============================================================================
