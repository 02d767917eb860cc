------------------------------ MODULE MicCapture ------------------------------
(***************************************************************************)
(* The microphone and the assistant's voice: the popup                     *)
(* (packages/extension/src/popup/index.ts) with its checkbox, its capture  *)
(* and its playback, and the part of the background                        *)
(* (background/orchestrator.ts) that keeps micActive and tells the popup.  *)
(*                                                                         *)
(* The two are joined by messages, delivered in order each way; a handler  *)
(* runs to its end, except that capture waits for getUserMedia, which asks *)
(* the user.  The popup may be closed and opened again at any time, and    *)
(* Chrome may end the service worker and start it again.                   *)
(***************************************************************************)
EXTENDS Integers, Sequences

CONSTANTS
  None,            \* no stream
  MaxAsks,         \* bound: calls of getUserMedia
  MaxToggles,      \* bound: clicks on the checkbox
  MaxPages,        \* bound: times the popup is opened
  MaxRestarts,     \* bound: restarts of the service worker
  MaxBroadcasts    \* bound: messages the background sends of its own accord

Asks == 1 .. MaxAsks

ASSUME MicAssumption ==
  /\ None \notin Asks
  /\ {MaxAsks, MaxToggles, MaxPages, MaxRestarts, MaxBroadcasts} \subseteq Nat

VARIABLES
  popup,        \* the page: page number, open, checked, mediaStream, activePlaybackNodes
  asking,       \* calls of getUserMedia that have not settled
  live,         \* streams that were granted and whose tracks were not stopped
  micActive,    \* the background's state.micActive
  waking,       \* the worker has restarted, and initialize() has not come to its end
  toBackground, toPopup,  \* messages under way
  used,         \* how many asks, toggles, restarts and broadcasts there have been
  stale,        \* history: chunks broadcast before the last barge-in that was handled
  excuses       \* history: "overlap", "restart", "reopen": what has come between the
                \* checkbox and the capture, see the properties

vars == <<popup, asking, live, micActive, waking, toBackground, toPopup, used, stale, excuses>>
background == <<micActive, waking, stale>>

Count(what) == used' = [used EXCEPT ![what] = @ + 1]

-----------------------------------------------------------------------------
(* The popup                                                               *)

\* flushPlayback.
Flushed(p) == [p EXCEPT !.playing = {}]

\* Mutant: the capture is taken apart, the tracks are not stopped.
Disconnected(streams) == streams

\* stopMicCapture stops the tracks of mediaStream, whichever that is by now.
Stopped(streams) == streams \ {popup.mediaStream}

\* Mutant: startMicCapture asks whether or not there is a stream.
AsksAlways == TRUE

\* startMicCapture returns when there is a stream.
MayAsk == popup.mediaStream = None

Send(messages) == toBackground' = toBackground \o messages

SetMic(on) == [page |-> popup.page, kind |-> "setMicActive", on |-> on]
BargeIn == [page |-> popup.page, kind |-> "bargeIn", on |-> TRUE]

\* The checkbox is clicked on: playback is flushed, the background is told, and
\* capture begins.
ToggleOn ==
  /\ popup.open /\ ~popup.checked /\ used.toggles < MaxToggles /\ used.asks < MaxAsks
  /\ popup' = [Flushed(popup) EXCEPT !.checked = TRUE]
  /\ Send(<<SetMic(TRUE), BargeIn>>)
  /\ IF MayAsk
     THEN /\ asking' = asking \cup {used.asks + 1}
          /\ used' = [used EXCEPT !.toggles = @ + 1, !.asks = used.asks + 1]
     ELSE Count("toggles") /\ UNCHANGED asking
  /\ excuses' = (excuses \ {"restart", "reopen"}) \cup (IF asking = {} THEN {} ELSE {"overlap"})
  /\ UNCHANGED <<live, background, toPopup>>

\* It is clicked off: the background is told, and capture stops.
ToggleOff ==
  /\ popup.open /\ popup.checked /\ used.toggles < MaxToggles
  /\ popup' = [popup EXCEPT !.checked = FALSE, !.mediaStream = None]
  /\ live' = Stopped(live)
  /\ Send(<<SetMic(FALSE)>>) /\ Count("toggles")
  /\ excuses' = (excuses \ {"restart", "reopen"}) \cup (IF asking = {} THEN {} ELSE {"overlap"})
  /\ UNCHANGED <<asking, background, toPopup>>

\* getUserMedia resolves, and the stream is captured whatever the checkbox says.
Granted(a) ==
  /\ a \in asking /\ asking' = asking \ {a}
  /\ popup' = [popup EXCEPT !.mediaStream = a]
  /\ live' = live \cup {a}
  /\ UNCHANGED <<background, toBackground, toPopup, used, excuses>>

\* Mutant: a failed capture is not reported to the background.
FailsQuietly == <<>>

\* What the popup reports when capture fails.
FailureReport == <<SetMic(FALSE)>>

\* getUserMedia rejects, or capture fails after it has resolved: whatever is being
\* captured is stopped, and the checkbox is cleared.
Denied(a) ==
  /\ a \in asking /\ asking' = asking \ {a}
  /\ popup' = [popup EXCEPT !.checked = FALSE, !.mediaStream = None]
  /\ \/ live' = Stopped(live)
     \/ live' = live
  /\ Send(FailureReport)
  /\ UNCHANGED <<background, toPopup, used, excuses>>

Fresh(page, open) ==
  [page |-> page, open |-> open, checked |-> FALSE, mediaStream |-> None, playing |-> {}]

\* The popup closes: with the page go its streams, its calls and its messages.
ClosePopup ==
  /\ popup.open /\ popup' = Fresh(popup.page, FALSE)
  /\ asking' = {} /\ live' = {} /\ toPopup' = <<>>
  /\ excuses' = {}
  /\ UNCHANGED <<background, toBackground, used>>

\* It is opened again, and asks for the background's state.
OpenPopup ==
  /\ ~popup.open /\ popup.page < MaxPages
  /\ popup' = Fresh(popup.page + 1, TRUE)
  /\ toBackground' = Append(toBackground,
                            [page |-> popup.page + 1, kind |-> "getRuntimeState", on |-> FALSE])
  /\ excuses' = {"reopen"}
  /\ UNCHANGED <<asking, live, background, toPopup, used>>

\* Mutant: the popup relies on what it flushed when the checkbox was clicked.
FlushedBefore(p) == p

\* What playbackInterrupted does to what is playing, or waits for its turn.
OnInterrupted(p) == Flushed(p)

\* A message from the background.
PopupReceives ==
  /\ popup.open /\ toPopup # <<>> /\ toPopup' = Tail(toPopup)
  /\ LET message == Head(toPopup)
     IN  \/ /\ message.kind = "runtimeState"
            /\ popup' = [popup EXCEPT !.checked = message.mic]
         \/ /\ message.kind = "playbackInterrupted"
            /\ popup' = OnInterrupted(popup)
         \/ /\ message.kind = "assistantAudioChunk"
            /\ popup' = [popup EXCEPT !.playing = @ \cup {message.chunk}]
  /\ UNCHANGED <<asking, live, background, toBackground, used, excuses>>

\* A chunk has been played (onended).
Played(chunk) ==
  /\ chunk \in popup.playing
  /\ popup' = [popup EXCEPT !.playing = @ \ {chunk}]
  /\ UNCHANGED <<asking, live, background, toBackground, toPopup, used, excuses>>

-----------------------------------------------------------------------------
(* The background                                                          *)

State(mic) == [kind |-> "runtimeState", mic |-> mic, chunk |-> 0]
Interrupted == [kind |-> "playbackInterrupted", mic |-> FALSE, chunk |-> 0]
Chunk(i) == [kind |-> "assistantAudioChunk", mic |-> FALSE, chunk |-> i]

\* A broadcast, and the answer to a message, reach the page that is open; an
\* answer only the page that sent the message.
Reaches(broadcasts, answers, page) ==
  toPopup' = IF ~popup.open THEN toPopup
             ELSE toPopup \o broadcasts \o (IF page = popup.page THEN answers ELSE <<>>)

\* A message from the popup: what it sets, broadcasts and answers.
BackgroundReceives ==
  /\ toBackground # <<>> /\ toBackground' = Tail(toBackground)
  /\ LET message == Head(toBackground)
         state == State(message.on)
     IN  \/ /\ message.kind = "setMicActive"
            /\ micActive' = message.on
            /\ stale' = IF message.on THEN 1 .. used.broadcasts ELSE stale
            /\ Reaches(IF message.on THEN <<state, Interrupted>> ELSE <<state>>, <<state>>,
                       message.page)
         \/ /\ message.kind = "bargeIn"
            /\ stale' = 1 .. used.broadcasts
            /\ Reaches(<<Interrupted>>, <<>>, message.page)
            /\ UNCHANGED micActive
         \/ /\ message.kind = "getRuntimeState"
            /\ Reaches(<<>>, <<State(micActive)>>, message.page)
            /\ UNCHANGED <<micActive, stale>>
  /\ UNCHANGED <<popup, asking, live, waking, used, excuses>>

\* The connection changes state, the assistant speaks or is interrupted, the session
\* stops.
Broadcast ==
  /\ used.broadcasts < MaxBroadcasts /\ Count("broadcasts")
  /\ \/ Reaches(<<State(micActive)>>, <<>>, 0)
     \/ Reaches(<<Chunk(used.broadcasts + 1)>>, <<>>, 0)
     \/ Reaches(<<Interrupted>>, <<>>, 0)
     \/ Reaches(<<Interrupted, State(micActive)>>, <<>>, 0)
  /\ UNCHANGED <<popup, asking, live, background, toBackground, excuses>>

\* The service worker ends and is started again by the next event, with a new state.
Restart ==
  /\ used.restarts < MaxRestarts /\ Count("restarts")
  /\ micActive' = FALSE /\ waking' = TRUE
  /\ excuses' = excuses \cup {"restart"}
  /\ UNCHANGED <<popup, asking, live, toBackground, toPopup, stale>>

\* initialize() has loaded the resumption handle: setState("idle").
Initialized ==
  /\ waking /\ waking' = FALSE
  /\ Reaches(<<State(micActive)>>, <<>>, 0)
  /\ UNCHANGED <<popup, asking, live, micActive, toBackground, used, stale, excuses>>

-----------------------------------------------------------------------------

Init ==
  /\ popup = Fresh(1, TRUE) /\ asking = {} /\ live = {}
  /\ micActive = FALSE /\ waking = FALSE /\ stale = {}
  /\ toBackground = <<[page |-> 1, kind |-> "getRuntimeState", on |-> FALSE]>> /\ toPopup = <<>>
  /\ used = [asks |-> 0, toggles |-> 0, restarts |-> 0, broadcasts |-> 0]
  /\ excuses = {}

Next ==
  \/ ToggleOn \/ ToggleOff \/ \E a \in Asks : Granted(a) \/ Denied(a)
  \/ ClosePopup \/ OpenPopup \/ PopupReceives \/ \E chunk \in popup.playing : Played(chunk)
  \/ BackgroundReceives \/ Broadcast \/ Restart \/ Initialized

Spec == Init /\ [][Next]_vars

-----------------------------------------------------------------------------
(* Properties                                                              *)

\* Nothing is under way.
Quiet ==
  popup.open /\ asking = {} /\ toBackground = <<>> /\ toPopup = <<>> /\ ~waking

\* Once all is quiet, the checkbox, the background and the microphone agree, although
\* each may be ahead of the others and broadcasts overwrite what the user has just
\* clicked.  The microphone is on with the box unchecked only if the box was clicked while
\* getUserMedia was asking, or the worker restarted and forgot; the box is checked with the
\* microphone off only after such clicks, or when the popup was closed meanwhile, which
\* the background is not told.
MicAgrees ==
  Quiet =>
    /\ popup.checked = micActive
    /\ live # {} /\ ~popup.checked => excuses \cap {"overlap", "restart"} # {}
    /\ popup.checked /\ live = {} => excuses \cap {"overlap", "reopen"} # {}

\* Every live stream is the one that the checkbox will stop, unless two calls of
\* getUserMedia overlapped.
NoStrayStream == live \subseteq {popup.mediaStream} \/ "overlap" \in excuses

\* When the background has handled a barge-in and its word has reached the popup,
\* nothing is played that was broadcast before ("without stale-buffer artifacts",
\* docs/RELEASE_CHECKLIST.md:34).
BargeInSilences ==
  (\A i \in DOMAIN toPopup : toPopup[i].kind # "playbackInterrupted") =>
    popup.playing \cap stale = {}

=============================================================================
