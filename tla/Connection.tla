------------------------------ MODULE Connection ------------------------------
(***************************************************************************)
(* The live session of the extension's background service worker: start,   *)
(* stop and the reconnect timer (background/orchestrator.ts), the Gemini   *)
(* websocket and the stub it falls back to (transport.ts, index.ts), and   *)
(* the replay buffer in chrome.storage that keeps outbound events while    *)
(* there is no session (storage.ts).                                       *)
(*                                                                         *)
(* A step is the code between two awaits that really suspend.  What awaits *)
(* only settled promises (the transport's send, the resolved connect) runs *)
(* on in the same step.  chrome.storage works through the worker's calls   *)
(* one by one, in order: a step of StorageReplies serves the oldest call   *)
(* and runs the code that awaited it.  Timers may fire at any time, so the *)
(* delay, and reconnectAttempt that only sets it, are left out; so is the  *)
(* resumption handle, which is passed on and never looked at.              *)
(***************************************************************************)
EXTENDS Integers, Sequences, SequencesExt

CONSTANTS
  Starts,       \* bound: calls of start() in progress at one time
  Sockets,      \* bound: websockets that exist at one time
  Events,       \* outbound events
  Chunks,       \* the ones that are microphone chunks, sent while the mic is active
  None,         \* no socket; nobody
  Rejected,     \* a connectPromise that was rejected while it was being made
  MicLimit,     \* MAX_IN_FLIGHT_MIC_CHUNKS
  ReplayLimit,  \* REPLAY_BUFFER_LIMIT
  MaxTimers,    \* bound: reconnect timers running at one time
  MaxFaults     \* bound: storage calls that reject

ASSUME ConnectionAssumption ==
  /\ IsFiniteSet(Starts) /\ Chunks \subseteq Events
  /\ None \notin Starts \cup Sockets \cup Events /\ Rejected \notin Sockets \cup {None}
  /\ MicLimit \in Nat /\ ReplayLimit \in Nat \ {0}
  /\ MaxTimers \in Nat /\ MaxFaults \in Nat

VARIABLES
  bg,        \* the closures of the orchestrator and of the transports (see Fresh)
  socks,     \* the websockets: "none", "opening", "open", "mute", "live", "going",
             \* "closing" or "aborting"
  queue,     \* calls of chrome.storage that are not answered yet
  buffer,    \* runtime.replayBuffer
  handler,   \* handleOutboundEvent for each event: "new", "busy", "done", "dropped", "lost"
  accepted,  \* how often the transport took each event (2: twice or more)
  torn,      \* history: a storage section overlapped another, was cut short, or overflowed
  faults     \* storage calls that have rejected

vars == <<bg, socks, queue, buffer, handler, accepted, torn, faults>>
outbound == <<buffer, handler, accepted, torn, faults>>

Idle == [at |-> "idle", on |-> None]
Call(op, who, seen, down) == [op |-> op, who |-> who, seen |-> seen, down |-> down]

\* The variables of a worker that has just been started.
Fresh ==
  [conn |-> "idle", manualStop |-> FALSE,
   timer |-> FALSE,       \* reconnectTimer holds a running timer
   leaked |-> 0,          \* running timers it holds no longer
   start |-> [s \in Starts |-> Idle],
   mic |-> 0,             \* inFlightMicChunks
   active |-> "none",     \* the transport in use; the stub is connected when it is
   socket |-> None, setup |-> FALSE, promise |-> None]

-----------------------------------------------------------------------------
(* The orchestrator's callbacks and helpers                                *)

Timers(b) == b.leaked + (IF b.timer THEN 1 ELSE 0)

\* Mutant: an explicit stop is not looked at.
RestartsAfterStop(b) ==
  [b EXCEPT !.conn = "reconnecting", !.timer = TRUE, !.leaked = Timers(b)]

\* onDisconnected: the new timer takes the place of one that may still run.
OnDisconnected(b) ==
  IF b.conn = "stopped" \/ b.manualStop THEN b
  ELSE [b EXCEPT !.conn = "reconnecting", !.timer = TRUE, !.leaked = Timers(b)]

\* Mutant: start() does not report that it failed.
FailsQuietly(b) == b

SetError(b) == [b EXCEPT !.conn = "error"]

\* start() after transport.connect: setupPending, and the buffer is loaded.
Connected(b, S, transport) ==
  IF S = {} THEN b
  ELSE [b EXCEPT !.active = transport, !.conn = "setupPending",
                 !.start = [s \in Starts |-> IF s \in S THEN [at |-> "storage", on |-> None] ELSE @[s]]]

Persists(n) == [i \in 1 .. n |-> Call("persist", None, <<>>, FALSE)]
Loads(order) == [i \in DOMAIN order |-> Call("load", order[i], <<>>, FALSE)]

\* onConnected, n times, then the starts go on, in the order in which they came to wait:
\* any, as it is not kept.
ConnectedCalls(n, order) == Persists(n) \o Loads(order)

\* gemini.connect has failed the starts in S: each connects the stub, whose
\* onConnected persists an absent handle.
Fallback(b, S) == Connected(b, S, "stub")
FallbackCalls(order) == ConnectedCalls(Len(order), order)

\* WebSocket.readyState is OPEN.
IsOpen(i) == socks[i] \in {"open", "mute", "live", "going"}

\* transport.send does not throw.
CanSend(b) ==
  \/ b.active = "stub"
  \/ b.active = "gemini" /\ b.socket # None /\ IsOpen(b.socket) /\ b.setup

\* Twice is as good as more often.
Count(n) == IF n = 2 THEN 2 ELSE n + 1
Accept(S) == accepted' = [e \in Events |-> IF e \in S THEN Count(accepted[e]) ELSE accepted[e]]
Among(seq) == {seq[i] : i \in DOMAIN seq}

-----------------------------------------------------------------------------
(* start() and stop()                                                      *)

\* start() up to its first await.
Begin(b, s) ==
  [b EXCEPT !.manualStop = FALSE, !.timer = FALSE,
            !.conn = IF @ = "idle" THEN "fetchingToken" ELSE "reconnecting",
            !.start[s] = [at |-> "token", on |-> None]]

\* start() returns at once in these states.
MayBegin(b) == b.conn \notin {"ready", "connecting"}

\* popup.startSession.
UserStart(s) ==
  /\ MayBegin(bg) /\ bg.start[s] = Idle
  /\ bg' = Begin(bg, s)
  /\ UNCHANGED <<socks, queue, outbound>>

\* A reconnect timer calls start(): whichever it was, reconnectTimer is reset.
TimerFires ==
  /\ Timers(bg) > 0
  /\ LET b == [bg EXCEPT !.timer = FALSE, !.leaked = Timers(bg) - 1]
     IN  \/ ~MayBegin(b) /\ bg' = b
         \/ MayBegin(b) /\ \E s \in Starts : b.start[s] = Idle /\ bg' = Begin(b, s)
  /\ UNCHANGED <<socks, queue, outbound>>

TokenFails(s) ==
  /\ bg.start[s].at = "token"
  /\ bg' = [SetError(bg) EXCEPT !.start[s] = Idle]
  /\ UNCHANGED <<socks, queue, outbound>>

\* A socket that does not exist, and that nothing refers to any more.
Unused(i) == socks[i] = "none" /\ bg.promise # i /\ \A s \in Starts : bg.start[s].on # i

\* gemini.connect for s, which has a URL: a handshake in progress is shared,
\* otherwise a socket is opened; the constructor throws on an invalid URL, and
\* the promise assigned after it is a rejected one.
GeminiConnect(b, s, valid) ==
  \/ /\ b.promise \in Sockets
     /\ bg' = [b EXCEPT !.start[s] = [at |-> "connect", on |-> b.promise]]
     /\ UNCHANGED <<socks, queue>>
  \/ /\ b.promise = None /\ valid
     /\ \E i \in Sockets :
          /\ Unused(i)
          /\ socks' = [socks EXCEPT ![i] = "opening"]
          /\ bg' = [b EXCEPT !.setup = FALSE, !.socket = i, !.promise = i,
                             !.start[s] = [at |-> "connect", on |-> i]]
     /\ UNCHANGED queue
  \/ /\ b.promise = Rejected \/ (b.promise = None /\ ~valid)
     /\ bg' = Fallback([b EXCEPT !.setup = @ /\ b.promise # None, !.promise = Rejected], {s})
     /\ queue' = queue \o FallbackCalls(<<s>>)
     /\ UNCHANGED socks

\* The token is there, with no websocket URL, an invalid or a valid one; its
\* own storage calls were answered after initialize's.
TokenArrives(s) ==
  /\ bg.start[s].at = "token" /\ \A j \in DOMAIN queue : queue[j].op # "boot"
  /\ LET b == [bg EXCEPT !.conn = "connecting"]
     IN  \/ /\ bg' = Fallback(b, {s})
            /\ queue' = queue \o FallbackCalls(<<s>>)
            /\ UNCHANGED socks
         \/ \E valid \in BOOLEAN : GeminiConnect(b, s, valid)
  /\ UNCHANGED outbound

\* socket.close(): a handshake that is cut off ends in an error.
Close(i) ==
  socks' = [socks EXCEPT ![i] = IF @ = "opening" THEN "aborting"
                                ELSE IF IsOpen(i) THEN "closing" ELSE @]

\* popup.stopSession: the transport in use, if any, is disconnected.
UserStop ==
  /\ LET b == [bg EXCEPT !.manualStop = TRUE, !.timer = FALSE, !.conn = "stopped",
                         !.active = "none"]
     IN  \/ /\ bg.active = "gemini" /\ bg.socket # None
            /\ Close(bg.socket)
            /\ bg' = [b EXCEPT !.socket = None, !.setup = FALSE]
         \/ /\ ~(bg.active = "gemini" /\ bg.socket # None)
            /\ bg' = b
            /\ UNCHANGED socks
  /\ UNCHANGED <<queue, outbound>>

-----------------------------------------------------------------------------
(* The websocket's events                                                  *)

\* onopen sends the setup message on the socket that is current by then.
SocketOpens(i) ==
  /\ socks[i] = "opening"
  /\ socks' = [socks EXCEPT ![i] = IF bg.socket = i THEN "open" ELSE "mute"]
  /\ UNCHANGED <<bg, queue, outbound>>

Waiters(i) == {s \in Starts : bg.start[s] = [at |-> "connect", on |-> i]}

\* setupComplete: onConnected, and the starts that wait for this socket go on.
SetupCompletes(i) ==
  /\ socks[i] = "open" /\ socks' = [socks EXCEPT ![i] = "live"]
  /\ bg' = Connected([bg EXCEPT !.setup = TRUE, !.promise = None], Waiters(i), "gemini")
  /\ \E order \in SetToSeqs(Waiters(i)) : queue' = queue \o ConnectedCalls(1, order)
  /\ UNCHANGED outbound

\* goAway: a reconnect is scheduled while the socket stays as it is.
GoAway(i) ==
  /\ socks[i] = "live" /\ socks' = [socks EXCEPT ![i] = "going"]
  /\ bg' = OnDisconnected(bg) /\ Timers(bg') <= MaxTimers
  /\ UNCHANGED <<queue, outbound>>

Gone(i) == socks' = [socks EXCEPT ![i] = "none"]
OnClose(b) == OnDisconnected([b EXCEPT !.setup = FALSE])

\* The connection is closed, by either side: only onclose.
SocketCloses(i) ==
  /\ IsOpen(i) \/ socks[i] = "closing"
  /\ Gone(i)
  /\ bg' = OnClose(bg) /\ Timers(bg') <= MaxTimers
  /\ UNCHANGED <<queue, outbound>>

\* The connection fails: onerror, then onclose.  A connectPromise is taken for
\* this socket's own, whichever it belongs to.
SocketFails(i) ==
  /\ IsOpen(i) \/ socks[i] \in {"opening", "aborting"}
  /\ Gone(i)
  /\ \/ /\ bg.promise # None
        /\ bg' = OnClose(Fallback([bg EXCEPT !.promise = None], Waiters(i)))
        /\ \E order \in SetToSeqs(Waiters(i)) : queue' = queue \o FallbackCalls(order)
     \/ /\ bg.promise = None
        /\ bg' = OnClose(SetError(bg))
        /\ UNCHANGED queue
  /\ Timers(bg') <= MaxTimers
  /\ UNCHANGED outbound

-----------------------------------------------------------------------------
(* Outbound events (handleOutboundEvent)                                   *)

\* Mutant: every handler that ends is counted as a chunk's.
CountsAllOut(b, e) == [b EXCEPT !.mic = @ - 1]

\* One of the chunk handlers has come to its end.
MicDone(b, e) == IF e \in Chunks THEN [b EXCEPT !.mic = IF @ = 0 THEN 0 ELSE @ - 1] ELSE b

MicFull(e) == e \in Chunks /\ bg.mic >= MicLimit

\* An event is to be sent: too many chunks are dropped; in a session it is
\* handed to the transport, otherwise, or when that throws, it is stored.
HandleEvent(e) ==
  /\ handler[e] = "new"
  /\ \/ /\ MicFull(e)
        /\ handler' = [handler EXCEPT ![e] = "dropped"]
        /\ UNCHANGED <<bg, queue, accepted>>
     \/ /\ ~MicFull(e) /\ bg.conn = "ready" /\ CanSend(bg)
        /\ handler' = [handler EXCEPT ![e] = "done"]
        /\ Accept({e})
        /\ UNCHANGED <<bg, queue>>
     \/ /\ ~MicFull(e) /\ ~(bg.conn = "ready" /\ CanSend(bg))
        /\ handler' = [handler EXCEPT ![e] = "busy"]
        /\ queue' = Append(queue, Call("get", e, <<>>, bg.conn = "ready"))
        /\ bg' = IF e \in Chunks THEN [bg EXCEPT !.mic = @ + 1] ELSE bg
        /\ UNCHANGED accepted
  /\ UNCHANGED <<socks, buffer, torn, faults>>

-----------------------------------------------------------------------------
(* chrome.storage                                                          *)

\* slice(-REPLAY_BUFFER_LIMIT)
Newest(events) ==
  IF Len(events) > ReplayLimit
  THEN SubSeq(events, Len(events) - ReplayLimit + 1, Len(events)) ELSE events

\* Mutant: the buffer is not cleared after the replay.
NeverClears(c) == IF c.op = "set" THEN Newest(Append(c.seen, c.who)) ELSE buffer

\* What a storage call leaves in the buffer.
Written(c) == CASE c.op = "set" -> Newest(Append(c.seen, c.who))
                [] c.op = "clear" -> <<>>
                [] OTHER -> buffer

\* A section that reads the buffer and writes it back is torn when what it
\* read is not what it overwrites, when it overflows, or when an event of
\* another replay in progress is sent again.
Tears(c) ==
  \/ c.op \in {"set", "clear"} /\ c.seen # buffer
  \/ c.op = "set" /\ Len(c.seen) = ReplayLimit
  \/ c.op = "load" /\ \E j \in DOMAIN queue : queue[j].op = "clear" /\ queue[j].seen # <<>>

Finished(b, s) == [b EXCEPT !.start[s] = Idle]

\* replayBufferedEvents: send what was loaded, then clear; start() fails when
\* the transport throws at the first event.
Replay(c) ==
  \/ /\ buffer = <<>> \/ CanSend(bg)
     /\ Accept(Among(buffer))
     /\ queue' = Append(Tail(queue), Call("clear", c.who, buffer, FALSE))
     /\ UNCHANGED bg
  \/ /\ buffer # <<>> /\ ~CanSend(bg)
     /\ bg' = Finished(SetError(bg), c.who)
     /\ queue' = Tail(queue)
     /\ UNCHANGED accepted

\* The oldest storage call is served, and the code that awaited it runs.
StorageReplies ==
  /\ queue # <<>>
  /\ LET c == Head(queue)
     IN  /\ buffer' = Written(c)
         /\ torn' = (torn \/ Tears(c))
         /\ \/ /\ c.op = "boot"
               /\ bg' = [bg EXCEPT !.conn = "idle"]
               /\ queue' = Tail(queue) /\ UNCHANGED <<handler, accepted>>
            \/ /\ c.op = "persist"
               /\ bg' = [bg EXCEPT !.conn = "ready"]
               /\ queue' = Tail(queue) /\ UNCHANGED <<handler, accepted>>
            \/ /\ c.op = "load"
               /\ Replay(c) /\ UNCHANGED handler
            \/ /\ c.op = "clear"
               /\ bg' = Finished([bg EXCEPT !.conn = "ready"], c.who)
               /\ queue' = Tail(queue) /\ UNCHANGED <<handler, accepted>>
            \/ /\ c.op = "get"
               /\ queue' = Append(Tail(queue), Call("set", c.who, buffer, c.down))
               /\ UNCHANGED <<bg, handler, accepted>>
            \/ /\ c.op = "set"
               /\ bg' = MicDone(IF c.down THEN [bg EXCEPT !.conn = "reconnecting"] ELSE bg, c.who)
               /\ handler' = [handler EXCEPT ![c.who] = "done"]
               /\ queue' = Tail(queue) /\ UNCHANGED accepted
  /\ UNCHANGED <<socks, faults>>

\* The oldest call is rejected: start() fails, a handler throws its event away.
StorageFails ==
  /\ queue # <<>> /\ faults < MaxFaults
  /\ faults' = faults + 1 /\ queue' = Tail(queue)
  /\ LET c == Head(queue)
     IN  /\ torn' = (torn \/ (c.op = "clear" /\ c.seen # <<>>))
         /\ \/ /\ c.op \in {"boot", "persist"}
               /\ UNCHANGED <<bg, handler>>
            \/ /\ c.op \in {"load", "clear"}
               /\ bg' = Finished(SetError(bg), c.who)
               /\ UNCHANGED handler
            \/ /\ c.op \in {"get", "set"}
               /\ bg' = MicDone(bg, c.who)
               /\ handler' = [handler EXCEPT ![c.who] = "lost"]
  /\ UNCHANGED <<socks, buffer, accepted>>

\* Chrome ends the worker and starts it again: of the calls it made, some of
\* the oldest were still served.
Restart ==
  /\ bg' = Fresh
  /\ socks' = [i \in Sockets |-> "none"]
  /\ queue' = <<Call("boot", None, <<>>, FALSE)>>
  /\ LET writes == {c \in Among(queue) : c.op \in {"set", "clear"}}
     IN  /\ buffer' \in {buffer} \cup {Written(c) : c \in writes}
         /\ torn' = (torn \/ writes # {})
  /\ handler' = [e \in Events |-> IF handler[e] = "busy" THEN "lost" ELSE handler[e]]
  /\ UNCHANGED <<accepted, faults>>

-----------------------------------------------------------------------------

Init ==
  /\ bg = Fresh
  /\ socks = [i \in Sockets |-> "none"]
  /\ queue = <<Call("boot", None, <<>>, FALSE)>>
  /\ buffer = <<>>
  /\ handler = [e \in Events |-> "new"]
  /\ accepted = [e \in Events |-> 0]
  /\ torn = FALSE /\ faults = 0

Next ==
  \/ \E s \in Starts : UserStart(s) \/ TokenFails(s) \/ TokenArrives(s)
  \/ TimerFires \/ UserStop
  \/ \E i \in Sockets :
       SocketOpens(i) \/ SetupCompletes(i) \/ GoAway(i) \/ SocketCloses(i) \/ SocketFails(i)
  \/ \E e \in Events : HandleEvent(e)
  \/ StorageReplies \/ StorageFails \/ Restart

Spec == Init /\ [][Next]_vars

-----------------------------------------------------------------------------
(* Properties                                                              *)

ConnectionStates == {"idle", "fetchingToken", "connecting", "setupPending", "ready",
                     "reconnecting", "error", "stopped"}
SocketStates == {"none", "opening", "open", "mute", "live", "going", "closing", "aborting"}
StartState == [at: {"idle", "token", "connect", "storage"}, on: Sockets \cup {None}]
Background ==
  [conn: ConnectionStates, manualStop: BOOLEAN, timer: BOOLEAN, leaked: Nat,
   start: [Starts -> StartState], mic: Nat, active: {"none", "gemini", "stub"},
   socket: Sockets \cup {None}, setup: BOOLEAN,
   promise: Sockets \cup {None, Rejected}]
StorageCall ==
  [op: {"boot", "persist", "load", "clear", "get", "set"},
   who: Starts \cup Events \cup {None}, seen: Seq(Events), down: BOOLEAN]

\* The type invariant of the worker, its sockets and the storage.
TypeOK ==
  /\ bg \in Background
  /\ socks \in [Sockets -> SocketStates]
  /\ queue \in Seq(StorageCall)
  /\ buffer \in Seq(Events)
  /\ handler \in [Events -> {"new", "busy", "done", "dropped", "lost"}]
  /\ accepted \in [Events -> 0 .. 2]
  /\ torn \in BOOLEAN /\ faults \in Nat

\* The events a replay in progress has sent and not cleared yet.
Replaying == UNION {Among(c.seen) : c \in {x \in Among(queue) : x.op = "clear"}}
Stored(e) == Cardinality({i \in DOMAIN buffer : buffer[i] = e})

\* Exactly once: unless two storage sections overlapped, one was cut short or
\* the buffer overflowed, an event whose handler is done was taken by the
\* transport once and is owed to nobody, or never and is in the buffer once.
ExactlyOnce ==
  ~torn => \A e \in Events : handler[e] = "done" =>
    \/ accepted[e] = 1 /\ (Stored(e) > 0 => e \in Replaying)
    \/ accepted[e] = 0 /\ Stored(e) = 1

\* The popup's progress is real: in a state in which start() or the user can
\* only wait, a start() is at the point the state names.
ProgressIsReal ==
  LET at(where) == \E s \in Starts : bg.start[s].at = where
  IN  /\ bg.conn = "fetchingToken" => at("token")
      /\ bg.conn = "connecting" => at("connect")
      /\ bg.conn = "setupPending" => at("storage")

\* A stop with nothing under way.
Quiet ==
  /\ bg.manualStop /\ Timers(bg) = 0
  /\ \A s \in Starts : bg.start[s] = Idle
  /\ \A i \in DOMAIN queue : queue[i].op \in {"get", "set"}

\* A stop that finds nothing under way is final: whatever the sockets and the
\* handlers still do, only the user's start or a new worker begins a session.
QuietStop ==
  [][Quiet => Quiet' \/ Restart \/ \E s \in Starts : UserStart(s)]_vars

=============================================================================
