---------------------------- MODULE EventStream ----------------------------
(***************************************************************************)
(* Packet evidence from the broker to one browser page: EventBroker and     *)
(* EventSubscription (backend/app/metrics/events.py), the WebSocket handler *)
(* that replays history and then follows the subscription                   *)
(* (backend/app/main.py), and the page that keeps a cursor, reconnects with *)
(* it and merges what it is sent (frontend/src/App.tsx).                    *)
(*                                                                          *)
(* Subscribers are independent of each other, so one page is modelled.  An  *)
(* event is its sequence number; a notice is a message with sequence 0.     *)
(***************************************************************************)
EXTENDS Integers, Sequences, FiniteSets, SequencesExt, FiniteSetsExt

CONSTANTS
    HistorySize,    \* history_size, 5000 in the code
    BufferSize,     \* subscriber_buffer_size, 256
    PageLimit,      \* the limit the socket handler asks history_page for, 5000
    DisplaySize,    \* events the page keeps, 500
    SocketSize,     \* messages between send_json and the page's handler
    MaxEvents,      \* bound: events published in a behaviour
    MaxClears,      \* bound: resets of the simulation
    MaxCloses       \* bound: connections lost

ASSUME EventStreamAssumption ==
    /\ {HistorySize, BufferSize, DisplaySize, SocketSize} \subseteq Nat \ {0}
    /\ PageLimit \in Nat /\ PageLimit >= HistorySize
    /\ {MaxEvents, MaxClears, MaxCloses} \subseteq Nat

VARIABLES
    stream,     \* stream_id: streams are numbered in the order they are made
    sequence,   \* _sequence
    history,    \* _history, oldest first
    sub,        \* the subscription of the open socket
    socket,     \* the WebSocket handler
    wire,       \* messages sent and not yet handled by the page
    page,       \* what the page keeps
    load,       \* the page's initial GET /api/events/history
    resetReply, \* a reset of this page's own is answered and not yet handled
    overtaken,  \* a request of the page's own was applied too late: see Properties
    published, closes  \* what the bounds count

broker == <<stream, sequence, history>>
bounds == <<published, closes>>
own == <<resetReply, overtaken>>
vars == <<broker, sub, socket, wire, page, load, own, bounds>>

Unknown == 0       \* no stream id
Message(kind, s, n) == [kind |-> kind, stream |-> s, seq |-> n]

NewSubscription == [queue |-> <<>>, stream |-> stream, dropped |-> 0, noticeLast |-> FALSE]

\* "out" holds what the handler has still to send; "after" and "asked" are the
\* cursor in the query of the connection.
Closed == [phase |-> "closed", out |-> <<>>, sentStream |-> Unknown, sentSeq |-> 0,
           after |-> 0, asked |-> Unknown]

Blank == [stream |-> Unknown, cursor |-> 0, shown |-> {}, told |-> FALSE, generation |-> 0]

Init ==
    /\ stream = 1 /\ sequence = 0 /\ history = <<>>
    /\ sub = NewSubscription
    /\ socket = Closed
    /\ wire = <<>>
    /\ page = Blank
    /\ load = [state |-> "asked", generation |-> 0, stream |-> Unknown, events |-> {}]
    /\ resetReply = FALSE /\ overtaken = FALSE
    /\ published = 0 /\ closes = 0

Subscribed == socket.phase = "open"

-----------------------------------------------------------------------------
(* EventSubscription *)

\* Mutant: an event evicted from a full queue is not counted.
EnqueueUncounted(u, m) ==
    IF Len(u.queue) < BufferSize THEN [u EXCEPT !.queue = Append(@, m)]
    ELSE [u EXCEPT !.queue = Append(Tail(@), m)]

\* publish: a full queue loses its oldest entry.
Enqueue(u, m) ==
    IF Len(u.queue) < BufferSize THEN [u EXCEPT !.queue = Append(@, m)]
    ELSE [u EXCEPT !.queue = Append(Tail(@), m), !.dropped = @ + 1]

\* restart: the reset notice replaces all that is queued.
Restart(s) ==
    [queue |-> <<Message("reset", s, 0)>>, stream |-> s, dropped |-> 0, noticeLast |-> FALSE]

\* next has something to return.
HasNext == (sub.dropped > 0 /\ ~sub.noticeLast) \/ sub.queue # <<>>

\* next: what it returns, and the subscription it leaves.  A drop notice comes
\* before the queue, but never twice in a row.
NextItem ==
    IF sub.dropped > 0 /\ ~sub.noticeLast
    THEN [message |-> Message("dropped", sub.stream, 0),
          left |-> [sub EXCEPT !.dropped = 0, !.noticeLast = TRUE]]
    ELSE [message |-> Head(sub.queue),
          left |-> [sub EXCEPT !.queue = Tail(@), !.noticeLast = FALSE]]

-----------------------------------------------------------------------------
(* EventBroker *)

Publish ==
    /\ published < MaxEvents
    /\ published' = published + 1
    /\ sequence' = sequence + 1
    /\ history' = LET h == Append(history, sequence')
                  IN  IF Len(h) > HistorySize THEN Tail(h) ELSE h
    /\ sub' = IF Subscribed THEN Enqueue(sub, Message("event", stream, sequence')) ELSE sub
    /\ UNCHANGED <<stream, socket, wire, page, load, own, closes>>

\* SimulatorService.reset: the lifecycle event it publishes is cleared in the
\* same step.  The command is this page's own or some other client's.
Clear ==
    /\ stream <= MaxClears
    /\ stream' = stream + 1 /\ sequence' = 0 /\ history' = <<>>
    /\ sub' = IF Subscribed THEN Restart(stream') ELSE sub
    /\ resetReply' \in {resetReply, TRUE}
    /\ UNCHANGED <<socket, wire, page, load, overtaken, bounds>>

\* The first n events of the history that are newer than the event "from".
\* Sequence numbers ascend, so they stand together.
Newer(from, n) ==
    LET older == {k \in DOMAIN history : history[k] <= from}
        skip == Cardinality(older)
    IN  SubSeq(history, skip + 1, Min({skip + n, Len(history)}))

\* history_page with the arguments (after_sequence, limit, stream_id).
HistoryPage(after, limit, asked) ==
    LET changed == asked # Unknown /\ asked # stream
    IN  [changed |-> changed,
         gap |-> ~changed /\ after > 0 /\ history # <<>> /\ after < Head(history) - 1,
         events |-> Newer(IF changed THEN 0 ELSE after, limit),
         latest |-> sequence]

-----------------------------------------------------------------------------
(* The WebSocket handler *)

\* The notice and the events the handler sends before it follows the
\* subscription.
Replay(h) ==
    (IF h.changed THEN <<Message("reset", stream, 0)>>
     ELSE IF h.gap THEN <<Message("gap", stream, 0)>>
     ELSE <<>>)
    \o [i \in DOMAIN h.events |-> Message("event", stream, h.events[i])]

\* The handler subscribes and reads the history without suspending between.
Accept ==
    /\ socket.phase = "connecting"
    /\ sub' = NewSubscription
    /\ LET h == HistoryPage(socket.after, PageLimit, socket.asked)
       IN  socket' = [socket EXCEPT !.phase = "open", !.out = Replay(h),
                                    !.sentStream = stream, !.sentSeq = h.latest]
    /\ UNCHANGED <<broker, wire, page, load, own, bounds>>

\* await send_json: the handler waits while the socket is full.
Send ==
    /\ Subscribed /\ socket.out # <<>> /\ Len(wire) < SocketSize
    /\ wire' = Append(wire, Head(socket.out))
    /\ socket' = [socket EXCEPT !.out = Tail(@)]
    /\ UNCHANGED <<broker, sub, page, load, own, bounds>>

\* Mutant: the sequence last sent survives a change of stream.
FollowKeepsSequence ==
    /\ Subscribed /\ socket.out = <<>> /\ HasNext
    /\ LET m == NextItem.message
           keep == m.seq > 0 /\ m.seq <= socket.sentSeq
       IN  socket' = [socket EXCEPT !.sentStream = m.stream,
                        !.sentSeq = Max({@, m.seq}),
                        !.out = IF keep THEN <<>> ELSE <<m>>]
    /\ sub' = NextItem.left
    /\ UNCHANGED <<broker, wire, page, load, own, bounds>>

\* One turn of the handler's loop: subscription.next() is done.
Follow ==
    /\ Subscribed /\ socket.out = <<>> /\ HasNext
    /\ LET m == NextItem.message
           sent == IF m.stream # socket.sentStream THEN 0 ELSE socket.sentSeq
           duplicate == m.seq > 0 /\ m.seq <= sent
       IN  socket' = [socket EXCEPT !.sentStream = m.stream,
                        !.sentSeq = Max({sent, m.seq}),
                        !.out = IF duplicate THEN <<>> ELSE <<m>>]
    /\ sub' = NextItem.left
    /\ UNCHANGED <<broker, wire, page, load, own, bounds>>

-----------------------------------------------------------------------------
(* The page *)

\* connect(), at mount and by the timer after a close.
Connect ==
    /\ socket.phase = "closed"
    /\ socket' = [Closed EXCEPT !.phase = "connecting", !.after = page.cursor,
                                !.asked = page.stream]
    /\ UNCHANGED <<broker, sub, wire, page, load, own, bounds>>

\* Either end drops the connection; what is on the way is lost.
Close ==
    /\ socket.phase # "closed" /\ closes < MaxCloses
    /\ closes' = closes + 1
    /\ socket' = Closed
    /\ wire' = <<>>
    /\ UNCHANGED <<broker, sub, page, load, own, published>>

\* mergeEvents: the page keeps the newest.
Newest(S) == {n \in S : Cardinality({k \in S : k > n}) < DisplaySize}

\* Mutant: the cursor is not restarted with the stream.
AcceptEventsKeepsCursor(p, s, evs, notice) ==
    LET changed == p.stream # Unknown /\ p.stream # s
    IN  [p EXCEPT !.stream = s, !.cursor = Max({@} \cup evs),
                  !.shown = Newest((IF changed THEN {} ELSE @) \cup evs),
                  !.told = notice \/ (@ /\ ~changed)]

\* acceptEvents(incoming, streamId): a new stream id starts the evidence anew.
AcceptEvents(p, s, evs, notice) ==
    LET changed == p.stream # Unknown /\ p.stream # s
    IN  [p EXCEPT !.stream = s, !.cursor = Max({IF changed THEN 0 ELSE @} \cup evs),
                  !.shown = Newest((IF changed THEN {} ELSE @) \cup evs),
                  !.told = notice \/ (@ /\ ~changed)]

\* clearEventEvidence(streamId)
ClearEvidence(p, s) == [Blank EXCEPT !.stream = s, !.generation = p.generation + 1]

\* The socket's message handler.
Receive ==
    /\ wire # <<>>
    /\ LET m == Head(wire)
       IN  page' = IF m.kind = "reset" THEN ClearEvidence(page, m.stream)
                   ELSE AcceptEvents(page, m.stream, {m.seq} \ {0}, m.kind # "event")
    /\ wire' = Tail(wire)
    /\ UNCHANGED <<broker, sub, socket, load, own, bounds>>

\* loadInitialState: the server answers, and the answer is applied unless the
\* evidence was cleared since the request; a failed request is made again.
AnswerLoad ==
    /\ load.state = "asked"
    /\ load' = [load EXCEPT !.state = "answered", !.stream = stream,
                            !.events = ToSet(HistoryPage(0, HistorySize, Unknown).events)]
    /\ UNCHANGED <<broker, sub, socket, wire, page, own, bounds>>

ApplyLoad ==
    /\ load.state = "answered"
    /\ page' = IF load.generation = page.generation
               THEN AcceptEvents(page, load.stream, load.events, FALSE) ELSE page
    /\ overtaken' = \/ overtaken
                    \/ /\ load.generation = page.generation
                       /\ \/ load.stream # stream \/ socket.phase = "connecting"
                          \/ /\ socket.phase # "closed" \/ page.stream # Unknown
                             /\ history # <<>> /\ Head(history) > 1
    /\ load' = [load EXCEPT !.state = "done"]
    /\ UNCHANGED <<broker, sub, socket, wire, resetReply, bounds>>

RetryLoad ==
    /\ load.state \in {"asked", "answered"} /\ closes < MaxCloses
    /\ closes' = closes + 1
    /\ load' = [load EXCEPT !.state = "asked", !.generation = page.generation]
    /\ UNCHANGED <<broker, sub, socket, wire, page, own, published>>

\* lifecycleCommand("reset"), once api.reset() has returned.
HandleResetReply ==
    /\ resetReply
    /\ resetReply' = FALSE
    /\ page' = ClearEvidence(page, Unknown)
    /\ overtaken' = (overtaken \/ (page.stream = stream /\ (page.cursor > 0 \/ page.told)))
    /\ UNCHANGED <<broker, sub, socket, wire, load, bounds>>

-----------------------------------------------------------------------------
Next ==
    \/ Publish \/ Clear
    \/ Accept \/ Send \/ Follow
    \/ Connect \/ Close \/ Receive
    \/ AnswerLoad \/ ApplyLoad \/ RetryLoad
    \/ HandleResetReply

Spec == Init /\ [][Next]_vars

\* The event loops of the server and of the page run what is ready, and the
\* reconnect timer fires; nothing obliges events, resets or closes to happen.
FairSpec ==
    /\ Spec
    /\ WF_vars(Accept) /\ WF_vars(Send) /\ WF_vars(Follow)
    /\ WF_vars(Connect) /\ WF_vars(Receive)

-----------------------------------------------------------------------------
(* Properties *)

(***************************************************************************)
(* Two requests of the page's own can be applied too late, and the code has  *)
(* no remedy: the answer of the initial history request after a reset the    *)
(* page was not told of, while the socket is connecting with the cursor of   *)
(* before, or beside a socket once history has been evicted; and the page's  *)
(* own reset after the socket delivered events of the new stream, or the     *)
(* notice that some were dropped.  The history variable "overtaken" marks    *)
(* the behaviours in which one of them happened; what the page shows is then *)
(* only promised to be in order.                                             *)
(***************************************************************************)

\* What the page shows of a stream has no hole in it unless a notice told the
\* page so: a slow page, a lost connection, a reset in the middle of a replay
\* and an evicted history never make events disappear silently.
NoSilentGap ==
    overtaken \/ page.shown = {} \/ page.told
        \/ page.shown = Min(page.shown) .. Max(page.shown)

\* The messages the page has still to get over the connection.
Pending == wire \o socket.out \o sub.queue
Later(m, n) == m.stream > n.stream \/ (m.stream = n.stream /\ m.seq > n.seq)

\* An event reaches the page once and in order: of two events on their way the
\* second is later, all of them are later than the cursor the page connected
\* with and, while the initial request is out, than the cursor it has now.  The
\* cursor never runs ahead of its stream: if it did, the server would leave out
\* every event up to it on the next connection.
InOrder ==
    /\ page.stream = stream => page.cursor <= sequence
    /\ (socket.phase = "connecting" /\ socket.asked = stream) => socket.after <= sequence
    /\ Subscribed =>
        \A i \in DOMAIN Pending : Pending[i].kind = "event" =>
          /\ \A j \in 1 .. i - 1 : Pending[j].kind = "event" => Later(Pending[i], Pending[j])
          /\ Pending[i].stream = socket.asked => Pending[i].seq > socket.after
          /\ (load.state # "done" /\ Pending[i].stream = page.stream)
               => Pending[i].seq > page.cursor

\* Once events, resets and lost connections cease, the page is at the end of
\* the current stream, whatever was dropped, cleared or disconnected before.
CatchesUp ==
    <>[](\/ overtaken
         \/ page.stream = stream /\ page.cursor = sequence
         \/ page.stream = Unknown /\ sequence = 0)
=============================================================================
