--------------------------- MODULE MicCaptureProofs ---------------------------
(***************************************************************************)
(* Proofs about MicCapture, for every number of clicks, pages, restarts and *)
(* broadcasts: no stream is left that the checkbox would not stop, a        *)
(* barge-in silences what was broadcast before it, and the checkbox and the *)
(* background come to agree.                                               *)
(***************************************************************************)
EXTENDS MicCapture, TLAPS
LOCAL INSTANCE SequenceTheorems

-----------------------------------------------------------------------------
(* The invariant                                                           *)

Page == [page: Nat, open: BOOLEAN, checked: BOOLEAN, mediaStream: Asks \cup {None},
         playing: SUBSET Nat]
Request == [page: Nat, kind: {"setMicActive", "bargeIn", "getRuntimeState"}, on: BOOLEAN]
Message == [kind: {"runtimeState", "playbackInterrupted", "assistantAudioChunk"}, mic: BOOLEAN,
            chunk: Nat]

\* The types; nothing reaches a closed popup, nothing plays in it or is captured.
TypeInv ==
  /\ popup \in Page
  /\ used \in [asks: Nat, toggles: Nat, restarts: Nat, broadcasts: Nat]
  /\ asking \subseteq Asks /\ live \subseteq Asks
  /\ micActive \in BOOLEAN
  /\ stale \subseteq 1 .. used.broadcasts
  /\ toBackground \in Seq(Request) /\ toPopup \in Seq(Message)
  /\ ~popup.open => toPopup = <<>> /\ popup.playing = {} /\ asking = {} /\ live = {}

\* Unless two calls of getUserMedia overlapped, one at most is asking, and only while
\* there is no stream; and what is live is the stream of the page.
CaptureOK ==
  "overlap" \notin excuses =>
    /\ \A a, b \in asking : a = b
    /\ asking # {} => popup.mediaStream = None
    /\ live \subseteq {popup.mediaStream}

\* The chunks of `old` that are under way or playing are followed by an interruption.
Interrupts(q, i) == i \in DOMAIN q /\ q[i].kind = "playbackInterrupted"
Covered(q, playing, old) ==
  /\ \A i \in DOMAIN q :
       q[i].kind = "assistantAudioChunk" /\ q[i].chunk \in old => \E j : j > i /\ Interrupts(q, j)
  /\ playing \cap old # {} => \E j : Interrupts(q, j)

Inv == TypeInv /\ CaptureOK /\ Covered(toPopup, popup.playing, stale)

-----------------------------------------------------------------------------
(* Queues                                                                  *)

LEMMA Concat ==
  ASSUME NEW q \in Seq(Message), NEW t \in Seq(Message)
  PROVE  /\ q \o t \in Seq(Message)
         /\ Len(q) \in Nat /\ Len(t) \in Nat
         /\ DOMAIN q = 1 .. Len(q) /\ DOMAIN t = 1 .. Len(t)
         /\ DOMAIN (q \o t) = 1 .. Len(q) + Len(t)
         /\ \A i \in 1 .. Len(q) : (q \o t)[i] = q[i]
         /\ \A i \in 1 .. Len(t) : (q \o t)[Len(q) + i] = t[i]
<1>1. /\ q \o t \in Seq(Message)
      /\ Len(q \o t) = Len(q) + Len(t)
      /\ \A i \in 1 .. Len(q) + Len(t) : (q \o t)[i] = IF i <= Len(q) THEN q[i] ELSE t[i - Len(q)]
  BY ConcatProperties
<1>2. Len(q) \in Nat /\ Len(t) \in Nat /\ DOMAIN q = 1 .. Len(q) /\ DOMAIN t = 1 .. Len(t)
  BY LenProperties
<1>3. DOMAIN (q \o t) = 1 .. Len(q \o t)
  BY <1>1, LenProperties
<1>4. ASSUME NEW i \in 1 .. Len(t) PROVE (q \o t)[Len(q) + i] = t[i]
  <2>1. Len(q) + i \in 1 .. Len(q) + Len(t) /\ ~(Len(q) + i <= Len(q)) /\ (Len(q) + i) - Len(q) = i
    BY <1>2
  <2> QED BY <1>1, <2>1
<1> QED BY <1>1, <1>2, <1>3, <1>4

\* Messages that carry no old chunk may be added.
LEMMA AddHarmless ==
  ASSUME NEW q \in Seq(Message), NEW t \in Seq(Message), NEW playing, NEW old,
         Covered(q, playing, old),
         \A i \in DOMAIN t : t[i].kind = "assistantAudioChunk" => t[i].chunk \notin old
  PROVE  Covered(q \o t, playing, old)
<1>1. ASSUME NEW j, Interrupts(q, j) PROVE Interrupts(q \o t, j)
  BY <1>1, Concat DEF Interrupts
<1>2. ASSUME NEW i \in DOMAIN (q \o t), (q \o t)[i].kind = "assistantAudioChunk",
             (q \o t)[i].chunk \in old
      PROVE  \E j : j > i /\ Interrupts(q \o t, j)
  <2>1. CASE i \in 1 .. Len(q)
    BY <1>1, <1>2, <2>1, Concat DEF Covered
  <2>2. CASE i \notin 1 .. Len(q)
    <3>1. PICK k \in 1 .. Len(t) : i = Len(q) + k
      <4>1. i - Len(q) \in 1 .. Len(t) /\ i = Len(q) + (i - Len(q))
        BY <2>2, Concat
      <4> QED BY <4>1
    <3>2. (q \o t)[i] = t[k] /\ k \in DOMAIN t
      BY <3>1, Concat
    <3> QED BY <1>2, <3>2
  <2> QED BY <2>1, <2>2
<1>3. playing \cap old # {} => \E j : Interrupts(q \o t, j)
  BY <1>1 DEF Covered
<1> QED BY <1>2, <1>3 DEF Covered

\* An interruption covers all that came before it, whatever is old from now on.
LEMMA AddInterruption ==
  ASSUME NEW q \in Seq(Message), NEW t \in Seq(Message), NEW playing, NEW old,
         NEW k \in DOMAIN t, t[k].kind = "playbackInterrupted",
         \A i \in DOMAIN t : t[i].kind # "assistantAudioChunk"
  PROVE  Covered(q \o t, playing, old)
<1>1. Interrupts(q \o t, Len(q) + k)
  <2>1. k \in 1 .. Len(t) /\ Len(q) + k \in 1 .. Len(q) + Len(t)
    BY Concat
  <2> QED BY <2>1, Concat DEF Interrupts
<1>2. ASSUME NEW i \in DOMAIN (q \o t), (q \o t)[i].kind = "assistantAudioChunk"
      PROVE  \E j : j > i /\ Interrupts(q \o t, j)
  <2>1. CASE i \in 1 .. Len(q)
    <3>1. Len(q) + k > i
      BY <2>1, Concat
    <3> QED BY <1>1, <3>1
  <2>2. CASE i \notin 1 .. Len(q)
    <3>1. i - Len(q) \in 1 .. Len(t) /\ i = Len(q) + (i - Len(q))
      BY <2>2, Concat
    <3>2. (q \o t)[i] = t[i - Len(q)] /\ i - Len(q) \in DOMAIN t
      BY <3>1, Concat
    <3> QED BY <1>2, <3>2
  <2> QED BY <2>1, <2>2
<1> QED BY <1>1, <1>2 DEF Covered

LEMMA TailMeans ==
  ASSUME NEW q \in Seq(Message), q # <<>>
  PROVE  /\ Head(q) = q[1] /\ Head(q) \in Message /\ 1 \in DOMAIN q
         /\ Tail(q) \in Seq(Message)
         /\ DOMAIN q = 1 .. Len(q) /\ Len(q) \in Nat \ {0}
         /\ DOMAIN Tail(q) = 1 .. Len(q) - 1
         /\ \A i \in 1 .. Len(q) - 1 : Tail(q)[i] = q[i + 1]
BY HeadTailProperties, LenProperties

-----------------------------------------------------------------------------
(* What the background sends                                               *)

LEMMA MessageTypes ==
  ASSUME NEW b \in BOOLEAN, NEW n \in Nat
  PROVE  State(b) \in Message /\ Interrupted \in Message /\ Chunk(n) \in Message
BY DEF State, Interrupted, Chunk, Message

\* What reaches the popup when the worker sends messages without a chunk: if nothing else
\* becomes old, the queue is covered as before.
LEMMA ReachesHarmless ==
  ASSUME TypeInv, NEW old, Covered(toPopup, popup.playing, old),
         NEW broadcasts \in Seq(Message), NEW answers \in Seq(Message), NEW page,
         \A i \in DOMAIN broadcasts :
           broadcasts[i].kind = "assistantAudioChunk" => broadcasts[i].chunk \notin old,
         \A i \in DOMAIN answers : answers[i].kind # "assistantAudioChunk",
         Reaches(broadcasts, answers, page)
  PROVE  /\ toPopup' \in Seq(Message) /\ (~popup.open => toPopup' = <<>>)
         /\ Covered(toPopup', popup.playing, old)
<1>1. toPopup \in Seq(Message) /\ (~popup.open => toPopup = <<>>)
  BY DEF TypeInv
<1>2. CASE ~popup.open
  BY <1>1, <1>2 DEF Reaches
<1>3. CASE popup.open
  <2> DEFINE a == IF page = popup.page THEN answers ELSE <<>>
  <2>1. a \in Seq(Message) /\ \A i \in DOMAIN a : a[i].kind # "assistantAudioChunk"
    OBVIOUS
  <2>2. toPopup \o broadcasts \in Seq(Message) /\ Covered(toPopup \o broadcasts, popup.playing, old)
    BY <1>1, AddHarmless, Concat
  <2>3. (toPopup \o broadcasts) \o a \in Seq(Message)
        /\ Covered((toPopup \o broadcasts) \o a, popup.playing, old)
    <3> HIDE DEF a
    <3> QED BY <2>1, <2>2, AddHarmless, Concat
  <2>4. toPopup' = (toPopup \o broadcasts) \o a
    BY <1>3 DEF Reaches
  <2> QED BY <1>3, <2>3, <2>4
<1> QED BY <1>2, <1>3

\* If an interruption is among them, it is covered whatever is old.
LEMMA ReachesInterrupts ==
  ASSUME TypeInv, NEW old,
         NEW broadcasts \in Seq(Message), NEW answers \in Seq(Message), NEW page,
         NEW k \in DOMAIN broadcasts, broadcasts[k].kind = "playbackInterrupted",
         \A i \in DOMAIN broadcasts : broadcasts[i].kind # "assistantAudioChunk",
         \A i \in DOMAIN answers : answers[i].kind # "assistantAudioChunk",
         Reaches(broadcasts, answers, page)
  PROVE  /\ toPopup' \in Seq(Message) /\ (~popup.open => toPopup' = <<>>)
         /\ Covered(toPopup', popup.playing, old)
<1>1. toPopup \in Seq(Message) /\ (~popup.open => toPopup = <<>> /\ popup.playing = {})
  BY DEF TypeInv
<1>2. CASE ~popup.open
  BY <1>1, <1>2 DEF Reaches, Covered, Interrupts
<1>3. CASE popup.open
  <2> DEFINE a == IF page = popup.page THEN answers ELSE <<>>
  <2>1. a \in Seq(Message) /\ \A i \in DOMAIN a : a[i].kind # "assistantAudioChunk"
    OBVIOUS
  <2>2. toPopup \o broadcasts \in Seq(Message) /\ Covered(toPopup \o broadcasts, popup.playing, old)
    BY <1>1, AddInterruption, Concat
  <2>3. (toPopup \o broadcasts) \o a \in Seq(Message)
        /\ Covered((toPopup \o broadcasts) \o a, popup.playing, old)
    <3> HIDE DEF a
    <3> QED BY <2>1, <2>2, AddHarmless, Concat
  <2>4. toPopup' = (toPopup \o broadcasts) \o a
    BY <1>3 DEF Reaches
  <2> QED BY <1>3, <2>3, <2>4
<1> QED BY <1>2, <1>3

-----------------------------------------------------------------------------
(* The steps                                                               *)

LEMMA TupleTypes ==
  ASSUME NEW x \in Request, NEW y \in Request
  PROVE  <<x>> \in Seq(Request) /\ <<x, y>> \in Seq(Request)
OBVIOUS

\* What the popup sends is received.
LEMMA SendMeans ==
  ASSUME TypeInv, NEW messages \in Seq(Request), Send(messages)
  PROVE  toBackground' \in Seq(Request)
BY ConcatProperties DEF TypeInv, Send

LEMMA Requests ==
  ASSUME TypeInv
  PROVE  /\ <<SetMic(TRUE), BargeIn>> \in Seq(Request)
         /\ <<SetMic(FALSE)>> \in Seq(Request)
<1>1. SetMic(TRUE) \in Request /\ SetMic(FALSE) \in Request /\ BargeIn \in Request
  BY DEF TypeInv, Page, Request, SetMic, BargeIn
<1> QED BY <1>1, TupleTypes

LEMMA InitInv == Init => Inv
<1> SUFFICES ASSUME Init PROVE Inv
  OBVIOUS
<1>1. toPopup = <<>> /\ toPopup \in Seq(Message)
  BY DEF Init
<1>2. toBackground \in Seq(Request)
  BY DEF Init, Request
<1>3. TypeInv
  BY <1>1, <1>2 DEF Init, TypeInv, Fresh, Page
<1>4. CaptureOK
  BY DEF Init, CaptureOK, Fresh
<1>5. Covered(toPopup, popup.playing, stale)
  BY <1>1 DEF Init, Covered, Interrupts
<1> QED BY <1>3, <1>4, <1>5 DEF Inv

\* Playing less, or hearing nothing new, leaves the queue covered.
LEMMA CoveredFrame ==
  ASSUME NEW q, NEW playing, NEW playing2, NEW old, playing2 \subseteq playing,
         Covered(q, playing, old)
  PROVE  Covered(q, playing2, old)
BY DEF Covered

LEMMA EmptyCovered == ASSUME NEW old PROVE Covered(<<>>, {}, old)
BY DEF Covered, Interrupts

LEMMA ToggleOnHolds == ASSUME Inv, ToggleOn PROVE Inv'
<1> USE MicAssumption
<1>1. popup' \in Page /\ popup'.mediaStream = popup.mediaStream /\ popup'.playing = {}
      /\ popup'.open = popup.open /\ popup.open
  BY DEF Inv, TypeInv, ToggleOn, Flushed, Page
<1>2. toBackground' \in Seq(Request)
  <2>1. <<SetMic(TRUE), BargeIn>> \in Seq(Request)
    BY Requests DEF Inv
  <2> QED BY <2>1, SendMeans DEF Inv, ToggleOn
<1>3. /\ used' \in [asks: Nat, toggles: Nat, restarts: Nat, broadcasts: Nat]
      /\ used'.broadcasts = used.broadcasts
      /\ used.asks + 1 \in Asks
  <2>1. MaxAsks \in Nat
    BY DEF MicAssumption
  <2>2. \/ used' = [used EXCEPT !.toggles = @ + 1, !.asks = used.asks + 1]
        \/ used' = [used EXCEPT !.toggles = @ + 1]
    BY DEF ToggleOn, Count
  <2>3. used.asks \in Nat /\ used.asks < MaxAsks
    BY DEF Inv, TypeInv, ToggleOn
  <2>4. used.asks + 1 \in Asks
    BY <2>1, <2>3 DEF Asks
  <2>5. used \in [asks: Nat, toggles: Nat, restarts: Nat, broadcasts: Nat]
    BY DEF Inv, TypeInv
  <2>6. CASE used' = [used EXCEPT !.toggles = @ + 1]
    BY <2>4, <2>5, <2>6
  <2>7. CASE used' = [used EXCEPT !.toggles = @ + 1, !.asks = used.asks + 1]
    <3>1. used' = [asks |-> used.asks + 1, toggles |-> used.toggles + 1,
                   restarts |-> used.restarts, broadcasts |-> used.broadcasts]
      BY <2>5, <2>7
    <3> QED BY <2>4, <2>5, <3>1
  <2> QED BY <2>2, <2>6, <2>7
<1>4. asking' \subseteq Asks
  BY <1>3 DEF Inv, TypeInv, ToggleOn
<1>5. TypeInv'
  BY <1>1, <1>2, <1>3, <1>4 DEF Inv, TypeInv, ToggleOn, background
<1>6. CaptureOK'
  <2> SUFFICES ASSUME "overlap" \notin excuses' PROVE CaptureOK'
    BY DEF CaptureOK
  <2>1. asking = {} /\ "overlap" \notin excuses
    BY DEF ToggleOn
  <2>2. live' \subseteq {popup'.mediaStream}
    BY <1>1, <2>1 DEF Inv, CaptureOK, ToggleOn
  <2>3. asking' = {} \/ (asking' = {used.asks + 1} /\ popup'.mediaStream = None)
    BY <1>1, <2>1 DEF ToggleOn, MayAsk
  <2> QED BY <2>2, <2>3 DEF CaptureOK
<1>7. Covered(toPopup', popup'.playing, stale')
  <2>1. UNCHANGED <<toPopup, stale>>
    BY DEF ToggleOn, background
  <2> QED BY <1>1, <2>1, CoveredFrame DEF Inv
<1> QED BY <1>5, <1>6, <1>7 DEF Inv

LEMMA ToggleOffHolds == ASSUME Inv, ToggleOff PROVE Inv'
<1>1. popup' \in Page /\ popup'.mediaStream = None /\ popup'.playing = popup.playing
      /\ popup'.open = popup.open
  BY DEF Inv, TypeInv, ToggleOff, Page
<1>2. toBackground' \in Seq(Request)
  <2>1. <<SetMic(FALSE)>> \in Seq(Request)
    BY Requests DEF Inv
  <2> QED BY <2>1, SendMeans DEF Inv, ToggleOff
<1>3. /\ used' \in [asks: Nat, toggles: Nat, restarts: Nat, broadcasts: Nat]
      /\ used'.broadcasts = used.broadcasts
  BY DEF Inv, TypeInv, ToggleOff, Count
<1>4. TypeInv'
  BY <1>1, <1>2, <1>3 DEF Inv, TypeInv, ToggleOff, Stopped, background
<1>5. CaptureOK'
  BY <1>1 DEF Inv, CaptureOK, ToggleOff, Stopped
<1>6. Covered(toPopup', popup'.playing, stale')
  BY <1>1 DEF Inv, ToggleOff, background
<1> QED BY <1>4, <1>5, <1>6 DEF Inv

LEMMA GrantedHolds == ASSUME Inv, NEW a \in Asks, Granted(a) PROVE Inv'
<1>1. popup' \in Page /\ popup'.mediaStream = a /\ popup'.playing = popup.playing
      /\ popup'.open = popup.open
  BY DEF Inv, TypeInv, Granted, Page
<1>2. TypeInv'
  BY <1>1 DEF Inv, TypeInv, Granted, background
<1>3. CaptureOK'
  <2> SUFFICES ASSUME "overlap" \notin excuses' PROVE CaptureOK'
    BY DEF CaptureOK
  <2>1. asking = {a} /\ popup.mediaStream = None /\ live \subseteq {None}
    BY DEF Inv, CaptureOK, Granted
  <2>2. live = {}
    BY <2>1, MicAssumption DEF Inv, TypeInv
  <2> QED BY <1>1, <2>1, <2>2 DEF CaptureOK, Granted
<1>4. Covered(toPopup', popup'.playing, stale')
  BY <1>1 DEF Inv, Granted, background
<1> QED BY <1>2, <1>3, <1>4 DEF Inv

LEMMA DeniedHolds == ASSUME Inv, NEW a \in Asks, Denied(a) PROVE Inv'
<1>1. popup' \in Page /\ popup'.mediaStream = None /\ popup'.playing = popup.playing
      /\ popup'.open = popup.open
  BY DEF Inv, TypeInv, Denied, Page
<1>2. toBackground' \in Seq(Request)
  <2>1. <<SetMic(FALSE)>> \in Seq(Request)
    BY Requests DEF Inv
  <2> QED BY <2>1, SendMeans DEF Inv, Denied, FailureReport
<1>3. TypeInv'
  BY <1>1, <1>2 DEF Inv, TypeInv, Denied, Stopped, background
<1>4. CaptureOK'
  BY <1>1 DEF Inv, CaptureOK, Denied, Stopped
<1>5. Covered(toPopup', popup'.playing, stale')
  BY <1>1 DEF Inv, Denied, background
<1> QED BY <1>3, <1>4, <1>5 DEF Inv

LEMMA ClosePopupHolds == ASSUME Inv, ClosePopup PROVE Inv'
<1>1. popup' \in Page /\ popup'.playing = {} /\ ~popup'.open
  BY DEF Inv, TypeInv, ClosePopup, Page, Fresh
<1>2. TypeInv'
  <2>1. toPopup' = <<>> /\ <<>> \in Seq(Message)
    BY DEF ClosePopup
  <2> QED BY <1>1, <2>1 DEF Inv, TypeInv, ClosePopup, background
<1>3. CaptureOK'
  BY DEF CaptureOK, ClosePopup
<1>4. Covered(toPopup', popup'.playing, stale')
  BY <1>1, EmptyCovered DEF ClosePopup
<1> QED BY <1>2, <1>3, <1>4 DEF Inv

LEMMA OpenPopupHolds == ASSUME Inv, OpenPopup PROVE Inv'
<1>1. /\ popup' \in Page /\ popup'.playing = {} /\ popup'.open /\ popup'.mediaStream = None
      /\ ~popup.open /\ popup.page + 1 \in Nat
  BY DEF Inv, TypeInv, OpenPopup, Page, Fresh
<1>2. toBackground' \in Seq(Request)
  <2>1. [page |-> popup.page + 1, kind |-> "getRuntimeState", on |-> FALSE] \in Request
    BY <1>1 DEF Request
  <2> QED BY <2>1, AppendProperties DEF Inv, TypeInv, OpenPopup
<1>3. TypeInv'
  BY <1>1, <1>2 DEF Inv, TypeInv, OpenPopup, background
<1>4. CaptureOK'
  BY DEF Inv, TypeInv, CaptureOK, OpenPopup
<1>5. Covered(toPopup', popup'.playing, stale')
  BY <1>1, EmptyCovered DEF Inv, TypeInv, OpenPopup, background
<1> QED BY <1>3, <1>4, <1>5 DEF Inv

LEMMA PopupReceivesHolds == ASSUME Inv, PopupReceives PROVE Inv'
<1> DEFINE m == Head(toPopup)
<1>1. /\ toPopup \in Seq(Message) /\ toPopup # <<>> /\ toPopup' = Tail(toPopup)
      /\ popup \in Page /\ popup.open
  BY DEF Inv, TypeInv, PopupReceives
<1>2. m = toPopup[1] /\ m \in Message /\ toPopup' \in Seq(Message)
  BY <1>1, TailMeans
<1>3. /\ m.mic \in BOOLEAN /\ m.chunk \in Nat
  BY <1>2 DEF Message
<1>4. \/ m.kind = "runtimeState" /\ popup' = [popup EXCEPT !.checked = m.mic]
      \/ m.kind = "playbackInterrupted" /\ popup' = [popup EXCEPT !.playing = {}]
      \/ m.kind = "assistantAudioChunk"
           /\ popup' = [popup EXCEPT !.playing = popup.playing \cup {m.chunk}]
  <2>1. [popup EXCEPT !.playing = @ \cup {m.chunk}]
          = [popup EXCEPT !.playing = popup.playing \cup {m.chunk}]
    BY <1>1 DEF Page
  <2> QED BY <2>1 DEF PopupReceives, OnInterrupted, Flushed
<1> HIDE DEF m
<1>5. /\ popup' \in Page /\ popup'.open = popup.open /\ popup'.mediaStream = popup.mediaStream
      /\ \/ m.kind = "runtimeState" /\ popup'.playing = popup.playing
         \/ m.kind = "playbackInterrupted" /\ popup'.playing = {}
         \/ m.kind = "assistantAudioChunk" /\ popup'.playing = popup.playing \cup {m.chunk}
  BY ZenonT(30), <1>1, <1>3, <1>4 DEF Page
<1>6. UNCHANGED <<asking, live, micActive, waking, stale, toBackground, used, excuses>>
  BY DEF PopupReceives, background
<1>7. TypeInv'
  BY <1>1, <1>2, <1>5, <1>6 DEF Inv, TypeInv
<1>8. CaptureOK'
  BY <1>5, <1>6 DEF Inv, CaptureOK
<1>9. Covered(toPopup', popup'.playing, stale)
  <2> DEFINE t == Tail(toPopup)
  <2>1. /\ DOMAIN toPopup = 1 .. Len(toPopup) /\ Len(toPopup) \in Nat \ {0}
        /\ DOMAIN t = 1 .. Len(toPopup) - 1
        /\ \A i \in 1 .. Len(toPopup) - 1 : t[i] = toPopup[i + 1]
    BY <1>1, TailMeans
  <2> HIDE DEF t
  <2>2. ASSUME NEW j, Interrupts(toPopup, j), j > 1
        PROVE  Interrupts(t, j - 1)
    <3>1. j \in 1 .. Len(toPopup) /\ j - 1 \in 1 .. Len(toPopup) - 1 /\ (j - 1) + 1 = j
      BY <2>1, <2>2 DEF Interrupts
    <3> QED BY <2>1, <2>2, <3>1 DEF Interrupts
  <2>3. ASSUME NEW i \in DOMAIN t, t[i].kind = "assistantAudioChunk", t[i].chunk \in stale
        PROVE  \E j : j > i /\ Interrupts(t, j)
    <3>1. i + 1 \in DOMAIN toPopup /\ t[i] = toPopup[i + 1] /\ i \in Nat /\ i > 0
      BY <2>1
    <3>2. PICK j : j > i + 1 /\ Interrupts(toPopup, j)
      BY <2>3, <3>1 DEF Inv, Covered
    <3>3. j \in Nat
      BY <2>1, <3>2 DEF Interrupts
    <3>4. Interrupts(t, j - 1) /\ j - 1 > i
      BY <2>2, <3>1, <3>2, <3>3
    <3> QED BY <3>4
  <2>4. ASSUME popup'.playing \cap stale # {} PROVE \E j : Interrupts(t, j)
    <3>1. \E j : j > 1 /\ Interrupts(toPopup, j)
      <4>1. CASE m.kind = "runtimeState"
        <5>1. popup.playing \cap stale # {}
          BY <1>5, <2>4, <4>1
        <5>2. PICK j : Interrupts(toPopup, j)
          BY <5>1 DEF Inv, Covered
        <5>3. j \in 1 .. Len(toPopup) /\ j # 1
          BY <1>2, <2>1, <4>1, <5>2 DEF Interrupts
        <5> QED BY <2>1, <5>2, <5>3
      <4>2. CASE m.kind = "playbackInterrupted"
        BY <1>5, <2>4, <4>2
      <4>3. CASE m.kind = "assistantAudioChunk"
        <5>1. CASE m.chunk \in stale
          BY <1>2, <2>1, <4>3, <5>1 DEF Inv, Covered
        <5>2. CASE m.chunk \notin stale
          <6>1. popup.playing \cap stale # {}
            BY <1>5, <2>4, <4>3, <5>2
          <6>2. PICK j : Interrupts(toPopup, j)
            BY <6>1 DEF Inv, Covered
          <6>3. j \in 1 .. Len(toPopup) /\ j # 1
            BY <1>2, <2>1, <4>3, <6>2 DEF Interrupts
          <6> QED BY <2>1, <6>2, <6>3
        <5> QED BY <5>1, <5>2
      <4> QED BY <1>5, <4>1, <4>2, <4>3
    <3>2. PICK j : j > 1 /\ Interrupts(toPopup, j)
      BY <3>1
    <3> QED BY <2>2, <3>2
  <2>5. toPopup' = t
    BY <1>1 DEF t
  <2> QED BY <2>3, <2>4, <2>5 DEF Covered
<1> QED BY <1>6, <1>7, <1>8, <1>9 DEF Inv

LEMMA PlayedHolds == ASSUME Inv, NEW chunk \in popup.playing, Played(chunk) PROVE Inv'
<1>1. popup' \in Page /\ popup'.mediaStream = popup.mediaStream
      /\ popup'.playing \subseteq popup.playing /\ popup'.open = popup.open
  BY DEF Inv, TypeInv, Played, Page
<1>2. TypeInv'
  BY <1>1 DEF Inv, TypeInv, Played, background
<1>3. CaptureOK'
  BY <1>1 DEF Inv, CaptureOK, Played
<1>4. Covered(toPopup', popup'.playing, stale')
  BY <1>1, CoveredFrame DEF Inv, Played, background
<1> QED BY <1>2, <1>3, <1>4 DEF Inv

\* What a step of the background has to show.
LEMMA BackgroundStep ==
  ASSUME Inv, UNCHANGED <<popup, asking, live>>,
         "overlap" \in excuses => "overlap" \in excuses',
         used' \in [asks: Nat, toggles: Nat, restarts: Nat, broadcasts: Nat],
         micActive' \in BOOLEAN, stale' \subseteq 1 .. used'.broadcasts,
         toBackground' \in Seq(Request), toPopup' \in Seq(Message),
         ~popup.open => toPopup' = <<>>, Covered(toPopup', popup.playing, stale')
  PROVE  Inv'
<1>1. TypeInv'
  BY DEF Inv, TypeInv
<1>2. CaptureOK'
  BY DEF Inv, CaptureOK
<1> QED BY <1>1, <1>2 DEF Inv

LEMMA RequestTail ==
  ASSUME NEW q \in Seq(Request), q # <<>>
  PROVE  Head(q) \in Request /\ Tail(q) \in Seq(Request)
BY HeadTailProperties

\* One or two messages that the background sends.
LEMMA Sent ==
  ASSUME NEW x \in Message, NEW y \in Message
  PROVE  /\ <<>> \in Seq(Message) /\ DOMAIN <<>> = {}
         /\ <<x>> \in Seq(Message) /\ DOMAIN <<x>> = {1} /\ <<x>>[1] = x
         /\ <<x, y>> \in Seq(Message) /\ DOMAIN <<x, y>> = {1, 2}
         /\ <<x, y>>[1] = x /\ <<x, y>>[2] = y
<1>1. <<x>> \in Seq(Message) /\ <<x, y>> \in Seq(Message)
  OBVIOUS
<1>2. DOMAIN <<x>> = {1} /\ <<x>>[1] = x
  OBVIOUS
<1>3. DOMAIN <<x, y>> = {1, 2} /\ <<x, y>>[1] = x /\ <<x, y>>[2] = y
  OBVIOUS
<1>4. <<>> \in Seq(Message) /\ DOMAIN <<>> = {}
  OBVIOUS
<1> QED BY <1>1, <1>2, <1>3, <1>4

LEMMA BackgroundReceivesHolds == ASSUME Inv, BackgroundReceives PROVE Inv'
<1> DEFINE m == Head(toBackground)
<1>1. toBackground \in Seq(Request) /\ toBackground # <<>> /\ toBackground' = Tail(toBackground)
  BY DEF Inv, TypeInv, BackgroundReceives
<1>2. m \in Request /\ toBackground' \in Seq(Request)
  BY <1>1, RequestTail
<1>3. m.on \in BOOLEAN /\ m.kind \in {"setMicActive", "bargeIn", "getRuntimeState"}
  BY <1>2 DEF Request
<1>4. UNCHANGED <<popup, asking, live, waking, used, excuses>>
  BY DEF BackgroundReceives
<1>5. /\ used \in [asks: Nat, toggles: Nat, restarts: Nat, broadcasts: Nat]
      /\ stale \subseteq 1 .. used.broadcasts /\ micActive \in BOOLEAN /\ TypeInv
      /\ Covered(toPopup, popup.playing, stale)
  BY DEF Inv, TypeInv
<1>6. SUFFICES /\ micActive' \in BOOLEAN /\ stale' \subseteq 1 .. used.broadcasts
               /\ toPopup' \in Seq(Message) /\ (~popup.open => toPopup' = <<>>)
               /\ Covered(toPopup', popup.playing, stale')
  BY <1>2, <1>4, <1>5, BackgroundStep
<1>7. Interrupted \in Message /\ Interrupted.kind = "playbackInterrupted"
  BY MessageTypes DEF Interrupted
<1>8. ASSUME NEW on \in BOOLEAN
      PROVE  State(on) \in Message /\ State(on).kind = "runtimeState"
  BY <1>8, MessageTypes DEF State
<1>9. CASE m.kind = "setMicActive"
  <2> DEFINE b == IF m.on THEN <<State(m.on), Interrupted>> ELSE <<State(m.on)>>
  <2>1. /\ micActive' = m.on /\ stale' = (IF m.on THEN 1 .. used.broadcasts ELSE stale)
        /\ Reaches(b, <<State(m.on)>>, m.page)
    BY <1>9 DEF BackgroundReceives
  <2>2. State(m.on) \in Message /\ State(m.on).kind = "runtimeState"
    BY <1>3, <1>8
  <2>3. CASE m.on
    <3>1. b = <<State(m.on), Interrupted>>
      BY <2>3
    <3>2. stale' = 1 .. used.broadcasts
      BY <2>1, <2>3
    <3> HIDE DEF b
    <3>3. /\ b \in Seq(Message) /\ 2 \in DOMAIN b /\ b[2].kind = "playbackInterrupted"
          /\ \A i \in DOMAIN b : b[i].kind # "assistantAudioChunk"
      BY <1>7, <2>2, <3>1, Sent
    <3>4. /\ <<State(m.on)>> \in Seq(Message)
          /\ \A i \in DOMAIN <<State(m.on)>> : <<State(m.on)>>[i].kind # "assistantAudioChunk"
      BY <1>7, <2>2, Sent
    <3>5. /\ toPopup' \in Seq(Message) /\ (~popup.open => toPopup' = <<>>)
          /\ Covered(toPopup', popup.playing, stale')
      BY <1>5, <2>1, <3>3, <3>4, ReachesInterrupts
    <3> QED BY <1>3, <2>1, <3>2, <3>5
  <2>4. CASE ~m.on
    <3>1. b = <<State(m.on)>>
      BY <2>4
    <3>2. stale' = stale
      BY <2>1, <2>4
    <3> HIDE DEF b
    <3>3. /\ b \in Seq(Message)
          /\ \A i \in DOMAIN b : b[i].kind # "assistantAudioChunk"
          /\ <<State(m.on)>> = b
      BY <1>7, <2>2, <3>1, Sent
    <3>4. /\ toPopup' \in Seq(Message) /\ (~popup.open => toPopup' = <<>>)
          /\ Covered(toPopup', popup.playing, stale)
      BY <1>5, <2>1, <3>3, ReachesHarmless
    <3> QED BY <1>3, <1>5, <2>1, <3>2, <3>4
  <2> QED BY <2>3, <2>4
<1>10. CASE m.kind = "bargeIn"
  <2>1. micActive' = micActive /\ stale' = 1 .. used.broadcasts
        /\ Reaches(<<Interrupted>>, <<>>, m.page)
    BY <1>10 DEF BackgroundReceives
  <2> DEFINE b == <<Interrupted>>
  <2>2. /\ b \in Seq(Message) /\ 1 \in DOMAIN b /\ b[1].kind = "playbackInterrupted"
        /\ \A i \in DOMAIN b : b[i].kind # "assistantAudioChunk"
    BY <1>7, Sent
  <2>3. <<>> \in Seq(Message) /\ \A i \in DOMAIN <<>> : <<>>[i].kind # "assistantAudioChunk"
    BY <1>7, Sent
  <2>4. Reaches(b, <<>>, m.page)
    BY <2>1
  <2> HIDE DEF b
  <2> QED BY <1>5, <2>1, <2>2, <2>3, <2>4, ReachesInterrupts
<1>11. CASE m.kind = "getRuntimeState"
  <2>1. micActive' = micActive /\ stale' = stale /\ Reaches(<<>>, <<State(micActive)>>, m.page)
    BY <1>11 DEF BackgroundReceives
  <2> DEFINE a == <<State(micActive)>>
  <2>2. a \in Seq(Message) /\ \A i \in DOMAIN a : a[i].kind # "assistantAudioChunk"
    BY <1>5, <1>8, Sent
  <2>3. <<>> \in Seq(Message) /\ DOMAIN <<>> = {}
    BY <1>7, Sent
  <2>4. Reaches(<<>>, a, m.page)
    BY <2>1
  <2> HIDE DEF a
  <2> QED BY <1>5, <2>1, <2>2, <2>3, <2>4, ReachesHarmless
<1> QED BY <1>3, <1>9, <1>10, <1>11

\* A step of the background that adds messages b to the queue, none of them with a stale chunk.
LEMMA BroadcastStep ==
  ASSUME Inv, UNCHANGED <<popup, asking, live, stale, toBackground, excuses>>,
         used' \in [asks: Nat, toggles: Nat, restarts: Nat, broadcasts: Nat],
         used'.broadcasts >= used.broadcasts, micActive' \in BOOLEAN,
         NEW b \in Seq(Message), Reaches(b, <<>>, 0),
         \A i \in DOMAIN b : b[i].kind = "assistantAudioChunk" => b[i].chunk \notin stale
  PROVE  Inv'
<1>1. TypeInv /\ Covered(toPopup, popup.playing, stale) /\ toBackground \in Seq(Request)
      /\ stale \subseteq 1 .. used.broadcasts /\ used.broadcasts \in Nat
  BY DEF Inv, TypeInv
<1>2. <<>> \in Seq(Message) /\ DOMAIN <<>> = {}
  BY MessageTypes, Sent
<1>3. /\ toPopup' \in Seq(Message) /\ (~popup.open => toPopup' = <<>>)
      /\ Covered(toPopup', popup.playing, stale)
  BY <1>1, <1>2, ReachesHarmless
<1>4. stale' \subseteq 1 .. used'.broadcasts
  BY <1>1
<1> QED BY <1>1, <1>3, <1>4, BackgroundStep

LEMMA BroadcastHolds == ASSUME Inv, Broadcast PROVE Inv'
<1>1. /\ used' \in [asks: Nat, toggles: Nat, restarts: Nat, broadcasts: Nat]
      /\ used'.broadcasts = used.broadcasts + 1 /\ used.broadcasts \in Nat
      /\ stale \subseteq 1 .. used.broadcasts /\ micActive \in BOOLEAN
  <2>1. used' = [used EXCEPT !.broadcasts = @ + 1]
    BY DEF Broadcast, Count
  <2> QED BY <2>1 DEF Inv, TypeInv
<1>2. UNCHANGED <<popup, asking, live, micActive, stale, toBackground, excuses>>
  BY DEF Broadcast, background
<1>3. Interrupted \in Message /\ Interrupted.kind = "playbackInterrupted"
  BY MessageTypes DEF Interrupted
<1>4. State(micActive) \in Message /\ State(micActive).kind = "runtimeState"
  BY <1>1, MessageTypes DEF State
<1>5. Chunk(used.broadcasts + 1) \in Message /\ Chunk(used.broadcasts + 1).chunk \notin stale
  BY <1>1, MessageTypes DEF Chunk
<1>6. PICK b \in Seq(Message) :
        /\ Reaches(b, <<>>, 0)
        /\ \A i \in DOMAIN b : b[i].kind = "assistantAudioChunk" => b[i].chunk \notin stale
  <2>1. CASE Reaches(<<State(micActive)>>, <<>>, 0)
    <3>1. <<State(micActive)>> \in Seq(Message)
      BY <1>3, <1>4, <1>5, Sent
    <3> WITNESS <<State(micActive)>> \in Seq(Message)
    <3> QED BY <1>3, <1>4, <2>1, Sent
  <2>2. CASE Reaches(<<Chunk(used.broadcasts + 1)>>, <<>>, 0)
    <3>1. <<Chunk(used.broadcasts + 1)>> \in Seq(Message)
      BY <1>3, <1>4, <1>5, Sent
    <3> WITNESS <<Chunk(used.broadcasts + 1)>> \in Seq(Message)
    <3> QED BY <1>3, <1>5, <2>2, Sent
  <2>3. CASE Reaches(<<Interrupted>>, <<>>, 0)
    <3>1. <<Interrupted>> \in Seq(Message)
      BY <1>3, <1>4, <1>5, Sent
    <3> WITNESS <<Interrupted>> \in Seq(Message)
    <3> QED BY <1>3, <2>3, Sent
  <2>4. CASE Reaches(<<Interrupted, State(micActive)>>, <<>>, 0)
    <3>1. <<Interrupted, State(micActive)>> \in Seq(Message)
      BY <1>3, <1>4, <1>5, Sent
    <3> WITNESS <<Interrupted, State(micActive)>> \in Seq(Message)
    <3> QED BY <1>3, <1>4, <2>4, Sent
  <2> QED BY <2>1, <2>2, <2>3, <2>4 DEF Broadcast
<1>7. used'.broadcasts >= used.broadcasts
  BY <1>1
<1> QED BY <1>1, <1>2, <1>6, <1>7, BroadcastStep

LEMMA InitializedHolds == ASSUME Inv, Initialized PROVE Inv'
<1>1. /\ used \in [asks: Nat, toggles: Nat, restarts: Nat, broadcasts: Nat]
      /\ used.broadcasts \in Nat /\ micActive \in BOOLEAN
  BY DEF Inv, TypeInv
<1>2. UNCHANGED <<popup, asking, live, micActive, toBackground, used, stale, excuses>>
  BY DEF Initialized
<1>3. State(micActive) \in Message /\ State(micActive).kind = "runtimeState"
  BY <1>1, MessageTypes DEF State
<1> DEFINE b == <<State(micActive)>>
<1>4. /\ b \in Seq(Message)
      /\ \A i \in DOMAIN b : b[i].kind = "assistantAudioChunk" => b[i].chunk \notin stale
  BY <1>3, Sent
<1>5. Reaches(b, <<>>, 0)
  BY DEF Initialized
<1> HIDE DEF b
<1> QED BY <1>1, <1>2, <1>4, <1>5, BroadcastStep

LEMMA RestartHolds == ASSUME Inv, Restart PROVE Inv'
<1>1. /\ used' \in [asks: Nat, toggles: Nat, restarts: Nat, broadcasts: Nat]
      /\ used'.broadcasts = used.broadcasts
  BY DEF Inv, TypeInv, Restart, Count
<1>2. TypeInv'
  BY <1>1 DEF Inv, TypeInv, Restart
<1>3. CaptureOK'
  BY DEF Inv, CaptureOK, Restart
<1>4. Covered(toPopup', popup'.playing, stale')
  BY DEF Inv, Restart
<1> QED BY <1>2, <1>3, <1>4 DEF Inv

-----------------------------------------------------------------------------
(* The theorems                                                            *)

LEMMA InvHolds == Spec => []Inv
<1>1. Inv /\ UNCHANGED vars => Inv'
  BY DEF Inv, TypeInv, CaptureOK, Covered, Interrupts, vars
<1>2. Inv /\ Next => Inv'
  <2> SUFFICES ASSUME Inv, Next PROVE Inv'
    OBVIOUS
  <2>1. CASE ToggleOn
    BY <2>1, ToggleOnHolds
  <2>2. CASE ToggleOff
    BY <2>2, ToggleOffHolds
  <2>3. CASE \E a \in Asks : Granted(a) \/ Denied(a)
    BY <2>3, GrantedHolds, DeniedHolds
  <2>4. CASE ClosePopup \/ OpenPopup
    BY <2>4, ClosePopupHolds, OpenPopupHolds
  <2>5. CASE PopupReceives \/ \E chunk \in popup.playing : Played(chunk)
    BY <2>5, PopupReceivesHolds, PlayedHolds
  <2>6. CASE BackgroundReceives \/ Broadcast \/ Restart \/ Initialized
    BY <2>6, BackgroundReceivesHolds, BroadcastHolds, RestartHolds, InitializedHolds
  <2> QED BY <2>1, <2>2, <2>3, <2>4, <2>5, <2>6 DEF Next
<1> QED BY <1>1, <1>2, InitInv, PTL DEF Spec

\* Every live stream is the one the checkbox will stop, however often it is clicked, the
\* popup is closed or the worker restarted, unless two calls of getUserMedia overlapped
\* (startMicCapture, stopMicCapture).
THEOREM StreamsHeld == Spec => []NoStrayStream
<1>1. Inv => NoStrayStream
  BY DEF Inv, CaptureOK, NoStrayStream
<1> QED BY <1>1, InvHolds, PTL

\* When the interruptions of a barge-in have reached the popup, nothing plays that was
\* broadcast before it, for every number of chunks and barge-ins under way together
\* (setMicActive, bargeIn, flushPlayback).
THEOREM Silenced == Spec => []BargeInSilences
<1>1. Inv => BargeInSilences
  <2> SUFFICES ASSUME Inv, \A i \in DOMAIN toPopup : toPopup[i].kind # "playbackInterrupted"
               PROVE  popup.playing \cap stale = {}
    BY DEF BargeInSilences
  <2> QED BY DEF Inv, Covered, Interrupts
<1> QED BY <1>1, InvHolds, PTL

-----------------------------------------------------------------------------
(* The checkbox, the background and the capture                            *)

\* What the background's micActive will be when it has handled its queue.
LastOrder(q, i) ==
  /\ i \in DOMAIN q /\ q[i].kind = "setMicActive"
  /\ \A j \in DOMAIN q : j > i => q[j].kind # "setMicActive"
WillBe(q, mic, on) ==
  \/ \E i : LastOrder(q, i) /\ q[i].on = on
  \/ (\A i \in DOMAIN q : q[i].kind # "setMicActive") /\ mic = on

\* Something in the background's queue makes it tell the popup its state.
Asked(q, i, page) ==
  /\ i \in DOMAIN q
  /\ q[i].kind = "setMicActive" \/ (q[i].kind = "getRuntimeState" /\ q[i].page = page)
WillTell(q, page) == \E i : Asked(q, i, page)

\* What the checkbox will show when the popup has handled its queue.
LastState(q, i) ==
  /\ i \in DOMAIN q /\ q[i].kind = "runtimeState"
  /\ \A j \in DOMAIN q : j > i => q[j].kind # "runtimeState"
WillShow(q, checked, on) ==
  \/ \E i : LastState(q, i) /\ q[i].mic = on
  \/ (\A i \in DOMAIN q : q[i].kind # "runtimeState") /\ checked = on

\* The checkbox comes to show what the background has; the background comes to have what
\* the capture is, but for the excuses of MicAgrees.
ShownOK ==
  popup.open =>
    waking \/ WillTell(toBackground, popup.page) \/ WillShow(toPopup, popup.checked, micActive)

OnOK ==
  live \cup asking # {} /\ excuses \cap {"overlap", "restart"} = {} =>
    WillBe(toBackground, micActive, TRUE)

OffOK ==
  popup.open /\ live \cup asking = {} /\ excuses \cap {"overlap", "reopen"} = {} =>
    WillBe(toBackground, micActive, FALSE)

HeldStream == popup.mediaStream # None => popup.mediaStream \in live

AgreeInv == ShownOK /\ OnOK /\ OffOK /\ HeldStream

LEMMA ConcatRequests ==
  ASSUME NEW q \in Seq(Request), NEW t \in Seq(Request)
  PROVE  /\ Len(q) \in Nat /\ Len(t) \in Nat
         /\ DOMAIN q = 1 .. Len(q) /\ DOMAIN t = 1 .. Len(t)
         /\ DOMAIN (q \o t) = 1 .. Len(q) + Len(t)
         /\ \A i \in 1 .. Len(q) : (q \o t)[i] = q[i]
         /\ \A i \in 1 .. Len(t) : (q \o t)[Len(q) + i] = t[i]
         /\ \A i \in 1 .. Len(q) + Len(t) : i > Len(q) =>
              i - Len(q) \in 1 .. Len(t) /\ (q \o t)[i] = t[i - Len(q)]
<1>1. /\ q \o t \in Seq(Request)
      /\ Len(q \o t) = Len(q) + Len(t)
      /\ \A i \in 1 .. Len(q) + Len(t) : (q \o t)[i] = IF i <= Len(q) THEN q[i] ELSE t[i - Len(q)]
  BY ConcatProperties
<1>2. Len(q) \in Nat /\ Len(t) \in Nat /\ DOMAIN q = 1 .. Len(q) /\ DOMAIN t = 1 .. Len(t)
  BY LenProperties
<1>3. DOMAIN (q \o t) = 1 .. Len(q \o t)
  BY <1>1, LenProperties
<1>4. ASSUME NEW i \in 1 .. Len(t) PROVE (q \o t)[Len(q) + i] = t[i]
  <2>1. Len(q) + i \in 1 .. Len(q) + Len(t) /\ ~(Len(q) + i <= Len(q)) /\ (Len(q) + i) - Len(q) = i
    BY <1>2
  <2> QED BY <1>1, <2>1
<1>5. ASSUME NEW i \in 1 .. Len(q) + Len(t), i > Len(q)
      PROVE  i - Len(q) \in 1 .. Len(t) /\ (q \o t)[i] = t[i - Len(q)]
  BY <1>1, <1>2, <1>5
<1> QED BY <1>1, <1>2, <1>3, <1>4, <1>5

\* An order that is sent counts, and makes the background tell its state.
LEMMA OrderSent ==
  ASSUME NEW q \in Seq(Request), NEW t \in Seq(Request), NEW k, LastOrder(t, k), NEW mic, NEW page
  PROVE  WillBe(q \o t, mic, t[k].on) /\ WillTell(q \o t, page)
<1> DEFINE n == Len(q)
           c == q \o t
<1>1. /\ n \in Nat /\ Len(t) \in Nat /\ DOMAIN t = 1 .. Len(t) /\ DOMAIN c = 1 .. n + Len(t)
      /\ \A i \in 1 .. Len(t) : c[n + i] = t[i]
      /\ \A i \in 1 .. n + Len(t) : i > n => i - n \in 1 .. Len(t) /\ c[i] = t[i - n]
  BY ConcatRequests
<1> HIDE DEF n, c
<1>2. k \in 1 .. Len(t) /\ t[k].kind = "setMicActive"
  BY <1>1 DEF LastOrder
<1>3. n + k \in DOMAIN c /\ c[n + k] = t[k]
  BY <1>1, <1>2
<1>4. ASSUME NEW j \in DOMAIN c, j > n + k PROVE c[j].kind # "setMicActive"
  <2>1. j - n \in 1 .. Len(t) /\ c[j] = t[j - n] /\ j - n > k
    BY <1>1, <1>2, <1>4
  <2> QED BY <1>1, <2>1 DEF LastOrder
<1>5. LastOrder(c, n + k) /\ c[n + k].on = t[k].on
  BY <1>2, <1>3, <1>4 DEF LastOrder
<1>6. Asked(c, n + k, page)
  BY <1>2, <1>3 DEF Asked
<1>7. WillBe(c, mic, t[k].on)
  BY <1>5 DEF WillBe
<1>8. WillTell(c, page)
  BY <1>6 DEF WillTell
<1> QED BY <1>7, <1>8 DEF c

LEMMA TailRequests ==
  ASSUME NEW q \in Seq(Request), q # <<>>
  PROVE  /\ Head(q) = q[1] /\ 1 \in DOMAIN q
         /\ DOMAIN q = 1 .. Len(q) /\ Len(q) \in Nat \ {0}
         /\ DOMAIN Tail(q) = 1 .. Len(q) - 1
         /\ \A i \in 1 .. Len(q) - 1 : Tail(q)[i] = q[i + 1]
BY HeadTailProperties, LenProperties

\* An order that is handled.
LEMMA OrderHandled ==
  ASSUME NEW q \in Seq(Request), q # <<>>, NEW mic, NEW on, WillBe(q, mic, on)
  PROVE  WillBe(Tail(q), IF Head(q).kind = "setMicActive" THEN Head(q).on ELSE mic, on)
<1> DEFINE t == Tail(q)
           new == IF Head(q).kind = "setMicActive" THEN Head(q).on ELSE mic
<1>1. /\ Head(q) = q[1] /\ 1 \in DOMAIN q
      /\ DOMAIN q = 1 .. Len(q) /\ Len(q) \in Nat \ {0}
      /\ DOMAIN t = 1 .. Len(q) - 1
      /\ \A i \in 1 .. Len(q) - 1 : t[i] = q[i + 1]
  BY TailRequests
<1> HIDE DEF t
<1>2. ASSUME NEW i, LastOrder(q, i), q[i].on = on PROVE WillBe(t, new, on)
  <2>1. i \in 1 .. Len(q)
    BY <1>1, <1>2 DEF LastOrder
  <2>2. CASE i = 1
    <3>1. new = on
      BY <1>1, <1>2, <2>2 DEF LastOrder
    <3>2. ASSUME NEW j \in DOMAIN t PROVE t[j].kind # "setMicActive"
      <4>1. j + 1 \in DOMAIN q /\ j + 1 > 1 /\ t[j] = q[j + 1]
        BY <1>1
      <4> QED BY <1>2, <2>2, <4>1 DEF LastOrder
    <3> QED BY <3>1, <3>2 DEF WillBe
  <2>3. CASE i # 1
    <3>1. i - 1 \in DOMAIN t /\ t[i - 1] = q[i]
      BY <1>1, <2>1, <2>3
    <3>2. ASSUME NEW j \in DOMAIN t, j > i - 1 PROVE t[j].kind # "setMicActive"
      <4>1. j + 1 \in DOMAIN q /\ j + 1 > i /\ t[j] = q[j + 1]
        BY <1>1, <2>1, <3>2
      <4> QED BY <1>2, <4>1 DEF LastOrder
    <3>3. LastOrder(t, i - 1)
      BY <1>2, <3>1, <3>2 DEF LastOrder
    <3> QED BY <1>2, <3>1, <3>3 DEF WillBe
  <2> QED BY <2>2, <2>3
<1>3. ASSUME \A i \in DOMAIN q : q[i].kind # "setMicActive", mic = on PROVE WillBe(t, new, on)
  <2>1. new = on
    BY <1>1, <1>3
  <2>2. \A j \in DOMAIN t : t[j].kind # "setMicActive"
    <3>1. \A j \in DOMAIN t : j + 1 \in DOMAIN q /\ t[j] = q[j + 1]
      BY <1>1
    <3> QED BY <1>3, <3>1
  <2> QED BY <2>1, <2>2 DEF WillBe
<1>4. WillBe(t, new, on)
  BY <1>2, <1>3 DEF WillBe
<1> QED BY <1>4 DEF t

LEMMA AskedHandled ==
  ASSUME NEW q \in Seq(Request), q # <<>>, NEW page, WillTell(q, page), ~ Asked(q, 1, page)
  PROVE  WillTell(Tail(q), page)
<1>1. PICK i : Asked(q, i, page)
  BY DEF WillTell
<1>2. i \in 1 .. Len(q) /\ i # 1
  BY <1>1, TailRequests DEF Asked
<1>3. i - 1 \in DOMAIN Tail(q) /\ Tail(q)[i - 1] = q[i]
  BY <1>2, TailRequests
<1>4. Asked(Tail(q), i - 1, page)
  BY <1>1, <1>3 DEF Asked
<1> QED BY <1>4 DEF WillTell

\* A state that is sent counts.
LEMMA StateSent ==
  ASSUME NEW q \in Seq(Message), NEW t \in Seq(Message), NEW k, LastState(t, k), NEW checked
  PROVE  WillShow(q \o t, checked, t[k].mic)
<1> DEFINE n == Len(q)
           c == q \o t
<1>1. /\ n \in Nat /\ Len(t) \in Nat /\ DOMAIN t = 1 .. Len(t) /\ DOMAIN c = 1 .. n + Len(t)
      /\ \A i \in 1 .. Len(t) : c[n + i] = t[i]
  BY Concat
<1> HIDE DEF n, c
<1>2. k \in 1 .. Len(t) /\ t[k].kind = "runtimeState"
  BY <1>1 DEF LastState
<1>3. n + k \in DOMAIN c /\ c[n + k] = t[k]
  BY <1>1, <1>2
<1>4. ASSUME NEW j \in DOMAIN c, j > n + k PROVE c[j].kind # "runtimeState"
  <2>1. j - n \in 1 .. Len(t) /\ j = n + (j - n) /\ j - n > k
    BY <1>1, <1>2, <1>4
  <2>2. c[j] = t[j - n]
    BY <1>1, <2>1
  <2> QED BY <1>1, <2>1, <2>2 DEF LastState
<1>5. LastState(c, n + k) /\ c[n + k].mic = t[k].mic
  BY <1>2, <1>3, <1>4 DEF LastState
<1>6. WillShow(c, checked, t[k].mic)
  BY <1>5 DEF WillShow
<1> QED BY <1>6 DEF c

\* Other messages do not.
LEMMA OthersSent ==
  ASSUME NEW q \in Seq(Message), NEW t \in Seq(Message), NEW checked, NEW on,
         \A i \in DOMAIN t : t[i].kind # "runtimeState", WillShow(q, checked, on)
  PROVE  WillShow(q \o t, checked, on)
<1> DEFINE n == Len(q)
           c == q \o t
<1>1. /\ n \in Nat /\ Len(t) \in Nat /\ DOMAIN t = 1 .. Len(t) /\ DOMAIN c = 1 .. n + Len(t)
      /\ DOMAIN q = 1 .. n
      /\ \A i \in 1 .. n : c[i] = q[i]
      /\ \A i \in 1 .. Len(t) : c[n + i] = t[i]
  BY Concat
<1> HIDE DEF n, c
<1>2. ASSUME NEW j \in DOMAIN c, j \notin DOMAIN q PROVE c[j].kind # "runtimeState"
  <2>1. j - n \in 1 .. Len(t) /\ j = n + (j - n)
    BY <1>1, <1>2
  <2>2. c[j] = t[j - n]
    BY <1>1, <2>1
  <2> QED BY <1>1, <2>1, <2>2
<1>3. ASSUME NEW i, LastState(q, i), q[i].mic = on PROVE WillShow(c, checked, on)
  <2>1. i \in DOMAIN c /\ c[i] = q[i]
    BY <1>1, <1>3 DEF LastState
  <2>2. LastState(c, i)
    BY <1>1, <1>2, <1>3, <2>1 DEF LastState
  <2> QED BY <1>3, <2>1, <2>2 DEF WillShow
<1>4. ASSUME \A i \in DOMAIN q : q[i].kind # "runtimeState", checked = on
      PROVE  WillShow(c, checked, on)
  BY <1>1, <1>2, <1>4 DEF WillShow
<1>5. WillShow(c, checked, on)
  BY <1>3, <1>4 DEF WillShow
<1> QED BY <1>5 DEF c

LEMMA StateHandled ==
  ASSUME NEW q \in Seq(Message), q # <<>>, NEW checked, NEW on, WillShow(q, checked, on)
  PROVE  WillShow(Tail(q), IF Head(q).kind = "runtimeState" THEN Head(q).mic ELSE checked, on)
<1> DEFINE t == Tail(q)
           new == IF Head(q).kind = "runtimeState" THEN Head(q).mic ELSE checked
<1>1. /\ Head(q) = q[1] /\ 1 \in DOMAIN q
      /\ DOMAIN q = 1 .. Len(q) /\ Len(q) \in Nat \ {0}
      /\ DOMAIN t = 1 .. Len(q) - 1
      /\ \A i \in 1 .. Len(q) - 1 : t[i] = q[i + 1]
  BY TailMeans
<1> HIDE DEF t
<1>2. ASSUME NEW i, LastState(q, i), q[i].mic = on PROVE WillShow(t, new, on)
  <2>1. i \in 1 .. Len(q)
    BY <1>1, <1>2 DEF LastState
  <2>2. CASE i = 1
    <3>1. new = on
      BY <1>1, <1>2, <2>2 DEF LastState
    <3>2. ASSUME NEW j \in DOMAIN t PROVE t[j].kind # "runtimeState"
      <4>1. j + 1 \in DOMAIN q /\ j + 1 > 1 /\ t[j] = q[j + 1]
        BY <1>1
      <4> QED BY <1>2, <2>2, <4>1 DEF LastState
    <3> QED BY <3>1, <3>2 DEF WillShow
  <2>3. CASE i # 1
    <3>1. i - 1 \in DOMAIN t /\ t[i - 1] = q[i]
      BY <1>1, <2>1, <2>3
    <3>2. ASSUME NEW j \in DOMAIN t, j > i - 1 PROVE t[j].kind # "runtimeState"
      <4>1. j + 1 \in DOMAIN q /\ j + 1 > i /\ t[j] = q[j + 1]
        BY <1>1, <2>1, <3>2
      <4> QED BY <1>2, <4>1 DEF LastState
    <3>3. LastState(t, i - 1)
      BY <1>2, <3>1, <3>2 DEF LastState
    <3> QED BY <1>2, <3>1, <3>3 DEF WillShow
  <2> QED BY <2>2, <2>3
<1>3. ASSUME \A i \in DOMAIN q : q[i].kind # "runtimeState", checked = on PROVE WillShow(t, new, on)
  <2>1. new = on
    BY <1>1, <1>3
  <2>2. \A j \in DOMAIN t : t[j].kind # "runtimeState"
    <3>1. \A j \in DOMAIN t : j + 1 \in DOMAIN q /\ t[j] = q[j + 1]
      BY <1>1
    <3> QED BY <1>3, <3>1
  <2> QED BY <2>1, <2>2 DEF WillShow
<1>4. WillShow(t, new, on)
  BY <1>2, <1>3 DEF WillShow
<1> QED BY <1>4 DEF t

\* What the popup sends when the box is clicked.
LEMMA Orders ==
  ASSUME TypeInv
  PROVE  /\ <<SetMic(TRUE), BargeIn>> \in Seq(Request) /\ <<SetMic(FALSE)>> \in Seq(Request)
         /\ LastOrder(<<SetMic(TRUE), BargeIn>>, 1) /\ <<SetMic(TRUE), BargeIn>>[1].on = TRUE
         /\ LastOrder(<<SetMic(FALSE)>>, 1) /\ <<SetMic(FALSE)>>[1].on = FALSE
BY Requests DEF LastOrder, SetMic, BargeIn

LEMMA OnSent ==
  ASSUME TypeInv, Send(<<SetMic(TRUE), BargeIn>>)
  PROVE  WillBe(toBackground', micActive, TRUE) /\ WillTell(toBackground', popup.page)
<1> DEFINE t == <<SetMic(TRUE), BargeIn>>
<1>1. t \in Seq(Request) /\ LastOrder(t, 1) /\ t[1].on = TRUE /\ toBackground \in Seq(Request)
      /\ toBackground' = toBackground \o t
  BY Orders DEF Send, TypeInv
<1> HIDE DEF t
<1>2. WillBe(toBackground \o t, micActive, t[1].on) /\ WillTell(toBackground \o t, popup.page)
  BY <1>1, OrderSent
<1> QED BY <1>1, <1>2

LEMMA OffSent ==
  ASSUME TypeInv, Send(<<SetMic(FALSE)>>)
  PROVE  WillBe(toBackground', micActive, FALSE) /\ WillTell(toBackground', popup.page)
<1> DEFINE t == <<SetMic(FALSE)>>
<1>1. t \in Seq(Request) /\ LastOrder(t, 1) /\ t[1].on = FALSE /\ toBackground \in Seq(Request)
      /\ toBackground' = toBackground \o t
  BY Orders DEF Send, TypeInv
<1> HIDE DEF t
<1>2. WillBe(toBackground \o t, micActive, t[1].on) /\ WillTell(toBackground \o t, popup.page)
  BY <1>1, OrderSent
<1> QED BY <1>1, <1>2

LEMMA ToggleOnAgrees == ASSUME Inv, AgreeInv, ToggleOn PROVE AgreeInv'
<1>1. /\ popup'.page = popup.page /\ popup'.mediaStream = popup.mediaStream
      /\ popup'.open = popup.open
  BY DEF Inv, TypeInv, ToggleOn, Flushed, Page
<1>2. UNCHANGED <<live, micActive, waking, toPopup>>
  BY DEF ToggleOn, background
<1>3. WillBe(toBackground', micActive, TRUE) /\ WillTell(toBackground', popup.page)
  BY OnSent DEF ToggleOn, Inv
<1>4. ShownOK' /\ OnOK'
  BY <1>1, <1>2, <1>3 DEF ShownOK, OnOK
<1>5. live' \cup asking' # {}
  <2>1. CASE MayAsk
    BY <2>1 DEF ToggleOn
  <2>2. CASE ~ MayAsk
    BY <1>2, <2>2 DEF MayAsk, AgreeInv, HeldStream
  <2> QED BY <2>1, <2>2
<1>6. OffOK'
  BY <1>5 DEF OffOK
<1>7. HeldStream'
  BY <1>1, <1>2 DEF AgreeInv, HeldStream
<1> QED BY <1>4, <1>6, <1>7 DEF AgreeInv

\* Unless calls of getUserMedia overlapped, nothing is captured once a stream is given up.
LEMMA NothingLeft ==
  ASSUME Inv, "overlap" \notin excuses
  PROVE  Stopped(live) = {} /\ (asking # {} => live = {})
<1>1. live \subseteq {popup.mediaStream} /\ (asking # {} => popup.mediaStream = None)
  BY DEF Inv, CaptureOK
<1>2. None \notin live
  BY MicAssumption DEF Inv, TypeInv
<1> QED BY <1>1, <1>2 DEF Stopped

LEMMA ToggleOffAgrees == ASSUME Inv, AgreeInv, ToggleOff PROVE AgreeInv'
<1>1. popup'.page = popup.page /\ popup'.mediaStream = None /\ popup'.open = popup.open
  BY DEF Inv, TypeInv, ToggleOff, Page
<1>2. UNCHANGED <<asking, micActive, waking, toPopup>> /\ live' = Stopped(live)
  BY DEF ToggleOff, background
<1>3. WillBe(toBackground', micActive, FALSE) /\ WillTell(toBackground', popup.page)
  BY OffSent DEF ToggleOff, Inv
<1>4. ShownOK' /\ OffOK'
  BY <1>1, <1>2, <1>3 DEF ShownOK, OffOK
<1>5. OnOK'
  <2> SUFFICES ASSUME "overlap" \notin excuses' PROVE live' \cup asking' = {}
    BY DEF OnOK
  <2>1. "overlap" \notin excuses /\ asking = {}
    BY DEF ToggleOff
  <2> QED BY <1>2, <2>1, NothingLeft
<1>6. HeldStream'
  BY <1>1 DEF HeldStream
<1> QED BY <1>4, <1>5, <1>6 DEF AgreeInv

LEMMA GrantedAgrees == ASSUME Inv, AgreeInv, NEW a \in Asks, Granted(a) PROVE AgreeInv'
<1>1. /\ popup'.page = popup.page /\ popup'.mediaStream = a /\ popup'.open = popup.open
      /\ popup'.checked = popup.checked
  BY DEF Inv, TypeInv, Granted, Page
<1>2. /\ UNCHANGED <<micActive, waking, toBackground, toPopup, excuses>>
      /\ a \in asking /\ asking' = asking \ {a} /\ live' = live \cup {a}
  BY DEF Granted, background
<1>3. ShownOK' /\ HeldStream'
  BY <1>1, <1>2 DEF AgreeInv, ShownOK, HeldStream
<1>4. live' \cup asking' # {} /\ live \cup asking # {}
  BY <1>2
<1>5. OnOK'
  BY <1>2, <1>4 DEF AgreeInv, OnOK
<1>6. OffOK'
  BY <1>4 DEF OffOK
<1> QED BY <1>3, <1>5, <1>6 DEF AgreeInv

LEMMA DeniedAgrees == ASSUME Inv, AgreeInv, NEW a \in Asks, Denied(a) PROVE AgreeInv'
<1>1. popup'.page = popup.page /\ popup'.mediaStream = None /\ popup'.open = popup.open
  BY DEF Inv, TypeInv, Denied, Page
<1>2. /\ UNCHANGED <<micActive, waking, toPopup, excuses>>
      /\ a \in asking /\ asking' = asking \ {a} /\ (live' = live \/ live' = Stopped(live))
  BY DEF Denied, background
<1>3. WillBe(toBackground', micActive, FALSE) /\ WillTell(toBackground', popup.page)
  BY OffSent DEF Denied, FailureReport, Inv
<1>4. ShownOK' /\ OffOK'
  BY <1>1, <1>2, <1>3 DEF ShownOK, OffOK
<1>5. OnOK'
  <2> SUFFICES ASSUME "overlap" \notin excuses PROVE live' \cup asking' = {}
    BY <1>2 DEF OnOK
  <2>1. asking = {a}
    BY <1>2 DEF Inv, CaptureOK
  <2> QED BY <1>2, <2>1, NothingLeft
<1>6. HeldStream'
  BY <1>1 DEF HeldStream
<1> QED BY <1>4, <1>5, <1>6 DEF AgreeInv

LEMMA ClosePopupAgrees == ASSUME ClosePopup PROVE AgreeInv'
<1>1. ~popup'.open /\ popup'.mediaStream = None /\ live' = {} /\ asking' = {}
  BY DEF ClosePopup, Fresh
<1> QED BY <1>1 DEF AgreeInv, ShownOK, OnOK, OffOK, HeldStream

LEMMA OpenPopupAgrees == ASSUME Inv, OpenPopup PROVE AgreeInv'
<1> DEFINE get == [page |-> popup.page + 1, kind |-> "getRuntimeState", on |-> FALSE]
<1>1. /\ popup'.page = popup.page + 1 /\ popup'.mediaStream = None
      /\ live' = {} /\ asking' = {} /\ excuses' = {"reopen"}
      /\ toBackground' = Append(toBackground, get)
  BY DEF Inv, TypeInv, OpenPopup, Fresh
<1>2. toBackground \in Seq(Request)
  BY DEF Inv, TypeInv
<1>3. /\ DOMAIN Append(toBackground, get) = 1 .. Len(toBackground) + 1 /\ Len(toBackground) \in Nat
      /\ Append(toBackground, get)[Len(toBackground) + 1] = get
  BY <1>2
<1>4. Asked(toBackground', Len(toBackground) + 1, popup'.page)
  BY <1>1, <1>3 DEF Asked
<1>5. ShownOK'
  BY <1>4 DEF ShownOK, WillTell
<1> QED BY <1>1, <1>5 DEF AgreeInv, OnOK, OffOK, HeldStream

LEMMA PopupReceivesAgrees == ASSUME Inv, AgreeInv, PopupReceives PROVE AgreeInv'
<1> DEFINE m == Head(toPopup)
<1>1. toPopup \in Seq(Message) /\ toPopup # <<>> /\ toPopup' = Tail(toPopup) /\ popup.open
      /\ popup \in Page
  BY DEF Inv, TypeInv, PopupReceives
<1>2. UNCHANGED <<asking, live, micActive, waking, toBackground, excuses>>
  BY DEF PopupReceives, background
<1>3. /\ popup'.page = popup.page /\ popup'.mediaStream = popup.mediaStream
      /\ popup'.open = popup.open
      /\ popup'.checked = IF m.kind = "runtimeState" THEN m.mic ELSE popup.checked
  BY <1>1 DEF PopupReceives, OnInterrupted, Flushed, Page
<1>4. ShownOK'
  <2>1. CASE waking \/ WillTell(toBackground, popup.page)
    BY <1>2, <1>3, <2>1 DEF ShownOK
  <2>2. CASE WillShow(toPopup, popup.checked, micActive)
    <3>1. WillShow(Tail(toPopup), popup'.checked, micActive)
      BY <1>1, <1>3, <2>2, StateHandled
    <3> QED BY <1>1, <1>2, <3>1 DEF ShownOK
  <2> QED BY <1>1, <2>1, <2>2 DEF AgreeInv, ShownOK
<1> QED BY <1>2, <1>3, <1>4 DEF AgreeInv, OnOK, OffOK, HeldStream

LEMMA PlayedAgrees == ASSUME Inv, AgreeInv, NEW chunk, Played(chunk) PROVE AgreeInv'
<1>1. /\ popup'.page = popup.page /\ popup'.mediaStream = popup.mediaStream
      /\ popup'.open = popup.open /\ popup'.checked = popup.checked
  BY DEF Inv, TypeInv, Played, Page
<1>2. UNCHANGED <<asking, live, micActive, waking, toBackground, toPopup, excuses>>
  BY DEF Played, background
<1> QED BY <1>1, <1>2 DEF AgreeInv, ShownOK, OnOK, OffOK, HeldStream

\* What the background sends, as the popup that is open comes to show it.
LEMMA ShowsSent ==
  ASSUME TypeInv, popup.open, NEW b \in Seq(Message), NEW a \in Seq(Message), NEW page,
         Reaches(b, a, page), NEW on,
         \/ \E k : LastState(b, k) /\ b[k].mic = on
         \/ WillShow(toPopup, popup.checked, on) /\ \A i \in DOMAIN b : b[i].kind # "runtimeState",
         \/ \A i \in DOMAIN a : a[i].kind # "runtimeState"
         \/ \E k : LastState(a, k) /\ a[k].mic = on
  PROVE  WillShow(toPopup', popup.checked, on)
<1> DEFINE first == toPopup \o b
           rest == IF page = popup.page THEN a ELSE <<>>
<1>1. toPopup \in Seq(Message) /\ first \in Seq(Message)
  BY Concat DEF TypeInv
<1>2. WillShow(first, popup.checked, on)
  BY <1>1, StateSent, OthersSent
<1>3. toPopup' = first \o rest
  BY DEF Reaches
<1>4. rest \in Seq(Message)
  OBVIOUS
<1>5. \/ \A i \in DOMAIN rest : rest[i].kind # "runtimeState"
      \/ \E k : LastState(rest, k) /\ rest[k].mic = on
  <2>1. DOMAIN <<>> = {}
    OBVIOUS
  <2> QED BY <2>1
<1> HIDE DEF first, rest
<1>6. WillShow(first \o rest, popup.checked, on)
  BY <1>1, <1>2, <1>4, <1>5, StateSent, OthersSent
<1> QED BY <1>3, <1>6

LEMMA StateLasts ==
  ASSUME NEW on \in BOOLEAN
  PROVE  /\ LastState(<<State(on)>>, 1) /\ <<State(on)>>[1].mic = on
         /\ LastState(<<State(on), Interrupted>>, 1) /\ <<State(on), Interrupted>>[1].mic = on
         /\ LastState(<<Interrupted, State(on)>>, 2) /\ <<Interrupted, State(on)>>[2].mic = on
         /\ <<State(on)>> \in Seq(Message) /\ <<State(on), Interrupted>> \in Seq(Message)
         /\ <<Interrupted, State(on)>> \in Seq(Message)
BY MessageTypes DEF LastState, State, Interrupted

LEMMA BackgroundReceivesAgrees == ASSUME Inv, AgreeInv, BackgroundReceives PROVE AgreeInv'
<1> DEFINE m == Head(toBackground)
<1>1. toBackground \in Seq(Request) /\ toBackground # <<>> /\ toBackground' = Tail(toBackground)
      /\ TypeInv /\ micActive \in BOOLEAN
  BY DEF Inv, TypeInv, BackgroundReceives
<1>2. m \in Request /\ m.on \in BOOLEAN /\ m.kind \in {"setMicActive", "bargeIn", "getRuntimeState"}
      /\ m = toBackground[1] /\ 1 \in DOMAIN toBackground
  <2>1. m \in Request
    BY <1>1, RequestTail
  <2> QED BY <1>1, <2>1, TailRequests DEF Request
<1>3. UNCHANGED <<popup, asking, live, waking, excuses>>
  BY DEF BackgroundReceives
<1>4. micActive' = IF m.kind = "setMicActive" THEN m.on ELSE micActive
  BY DEF BackgroundReceives
<1>5. ASSUME NEW on, WillBe(toBackground, micActive, on) PROVE WillBe(toBackground', micActive', on)
  BY <1>1, <1>4, <1>5, OrderHandled
<1>6. OnOK' /\ OffOK' /\ HeldStream'
  BY <1>3, <1>5 DEF AgreeInv, OnOK, OffOK, HeldStream
<1>7. ShownOK'
  <2> SUFFICES ASSUME popup.open, ~waking, ~ WillTell(toBackground', popup.page)
               PROVE  WillShow(toPopup', popup.checked, micActive')
    BY <1>3 DEF ShownOK
  <2>1. <<>> \in Seq(Message) /\ DOMAIN <<>> = {}
    OBVIOUS
  <2>2. CASE m.kind = "setMicActive"
    <3>1. micActive' = m.on
      BY <1>4, <2>2
    <3>2. Reaches(IF m.on THEN <<State(m.on), Interrupted>> ELSE <<State(m.on)>>, <<State(m.on)>>, m.page)
      BY <2>2 DEF BackgroundReceives
    <3> DEFINE b == IF m.on THEN <<State(m.on), Interrupted>> ELSE <<State(m.on)>>
               a == <<State(m.on)>>
    <3>3. /\ b \in Seq(Message) /\ (\E k : LastState(b, k) /\ b[k].mic = m.on)
          /\ a \in Seq(Message) /\ (\E k : LastState(a, k) /\ a[k].mic = m.on)
      BY <1>2, StateLasts
    <3>4. Reaches(b, a, m.page)
      BY <3>2
    <3> HIDE DEF a, b
    <3> QED BY <1>1, <3>1, <3>3, <3>4, ShowsSent
  <2>3. CASE m.kind = "bargeIn"
    <3>1. Reaches(<<Interrupted>>, <<>>, m.page)
      BY <2>3 DEF BackgroundReceives
    <3> DEFINE b == <<Interrupted>>
               a == <<>>
    <3>2. b \in Seq(Message) /\ \A i \in DOMAIN b : b[i].kind # "runtimeState"
      <4>1. micActive \in BOOLEAN /\ used.broadcasts + 1 \in Nat
        BY DEF Inv, TypeInv
      <4>2. <<Interrupted>> \in Seq(Message)
        BY <4>1, MessageTypes
      <4>3. \A i \in DOMAIN <<Interrupted>> : <<Interrupted>>[i].kind # "runtimeState"
        BY DEF Interrupted
      <4> QED BY <4>2, <4>3
    <3>3. ~ Asked(toBackground, 1, popup.page)
      BY <1>2, <2>3 DEF Asked
    <3>4. ~ WillTell(toBackground, popup.page)
      BY <1>1, <3>3, AskedHandled
    <3>5. WillShow(toPopup, popup.checked, micActive) /\ micActive' = micActive
      BY <1>4, <2>3, <3>4 DEF AgreeInv, ShownOK
    <3>6. Reaches(b, a, m.page) /\ a \in Seq(Message) /\ \A i \in DOMAIN a : a[i].kind # "runtimeState"
      BY <2>1, <3>1
    <3> HIDE DEF a, b
    <3> QED BY <1>1, <3>2, <3>5, <3>6, ShowsSent
  <2>4. CASE m.kind = "getRuntimeState"
    <3>1. Reaches(<<>>, <<State(micActive)>>, m.page) /\ micActive' = micActive
      BY <2>4 DEF BackgroundReceives
    <3>2. <<State(micActive)>> \in Seq(Message) /\ LastState(<<State(micActive)>>, 1)
          /\ <<State(micActive)>>[1].mic = micActive
      BY <1>1, StateLasts
    <3>3. CASE m.page = popup.page
      <4>1. toPopup' = (toPopup \o <<>>) \o <<State(micActive)>>
        BY <3>1, <3>3 DEF Reaches
      <4>2. toPopup \o <<>> \in Seq(Message)
        BY <1>1, <2>1, Concat DEF TypeInv
      <4> DEFINE q == toPopup \o <<>>
                 a == <<State(micActive)>>
      <4>3. q \in Seq(Message) /\ a \in Seq(Message) /\ LastState(a, 1) /\ a[1].mic = micActive
            /\ toPopup' = q \o a
        BY <3>2, <4>1, <4>2
      <4> HIDE DEF q, a
      <4>4. WillShow(q \o a, popup.checked, a[1].mic)
        BY <4>3, StateSent
      <4> QED BY <3>1, <4>3, <4>4
    <3>4. CASE m.page # popup.page
      <4>1. ~ Asked(toBackground, 1, popup.page)
        BY <1>2, <2>4, <3>4 DEF Asked
      <4>2. ~ WillTell(toBackground, popup.page)
        BY <1>1, <4>1, AskedHandled
      <4>3. WillShow(toPopup, popup.checked, micActive)
        BY <4>2 DEF AgreeInv, ShownOK
      <4> DEFINE b == <<>>
                 a == <<State(micActive)>>
      <4>4. b \in Seq(Message) /\ (\A i \in DOMAIN b : b[i].kind # "runtimeState")
            /\ a \in Seq(Message) /\ (\E k : LastState(a, k) /\ a[k].mic = micActive)
            /\ Reaches(b, a, m.page)
        BY <2>1, <3>1, <3>2
      <4> HIDE DEF a, b
      <4> QED BY <1>1, <3>1, <4>3, <4>4, ShowsSent
    <3> QED BY <3>3, <3>4
  <2> QED BY <1>2, <2>2, <2>3, <2>4
<1> QED BY <1>6, <1>7 DEF AgreeInv

\* A step of the background of its own accord: what it shows is what it has.
LEMMA BroadcastAgrees ==
  ASSUME Inv, AgreeInv, UNCHANGED <<popup, asking, live, micActive, toBackground, excuses>>,
         NEW b \in Seq(Message), Reaches(b, <<>>, 0),
         \/ \E k : LastState(b, k) /\ b[k].mic = micActive
         \/ waking' = waking /\ \A i \in DOMAIN b : b[i].kind # "runtimeState"
  PROVE  AgreeInv'
<1>1. OnOK' /\ OffOK' /\ HeldStream'
  BY DEF AgreeInv, OnOK, OffOK, HeldStream
<1>2. ShownOK'
  <2> SUFFICES ASSUME popup.open, ~waking', ~ WillTell(toBackground, popup.page)
               PROVE  WillShow(toPopup', popup.checked, micActive)
    BY DEF ShownOK
  <2> DEFINE a == <<>>
  <2>1. a \in Seq(Message) /\ (\A i \in DOMAIN a : a[i].kind # "runtimeState") /\ Reaches(b, a, 0)
        /\ TypeInv
    BY DEF Inv
  <2>2. \/ \E k : LastState(b, k) /\ b[k].mic = micActive
        \/ /\ WillShow(toPopup, popup.checked, micActive)
           /\ \A i \in DOMAIN b : b[i].kind # "runtimeState"
    BY DEF AgreeInv, ShownOK
  <2> HIDE DEF a
  <2> QED BY <2>1, <2>2, ShowsSent
<1> QED BY <1>1, <1>2 DEF AgreeInv

LEMMA BroadcastsAgree == ASSUME Inv, AgreeInv, Broadcast \/ Initialized PROVE AgreeInv'
<1>1. UNCHANGED <<popup, asking, live, micActive, toBackground, excuses>>
  BY DEF Broadcast, Initialized, background
<1>2. micActive \in BOOLEAN /\ used.broadcasts + 1 \in Nat
  BY DEF Inv, TypeInv
<1>3. PICK b \in Seq(Message) :
        /\ Reaches(b, <<>>, 0)
        /\ \/ \E k : LastState(b, k) /\ b[k].mic = micActive
           \/ waking' = waking /\ \A i \in DOMAIN b : b[i].kind # "runtimeState"
  <2>1. CASE Reaches(<<State(micActive)>>, <<>>, 0)
    BY <1>2, <2>1, StateLasts
  <2>2. CASE Reaches(<<Interrupted, State(micActive)>>, <<>>, 0)
    BY <1>2, <2>2, StateLasts
  <2>3. CASE Broadcast /\ Reaches(<<Chunk(used.broadcasts + 1)>>, <<>>, 0)
    <3>1. <<Chunk(used.broadcasts + 1)>> \in Seq(Message) /\ waking' = waking
      BY <1>2, <2>3, MessageTypes DEF Broadcast, background
    <3>2. \A i \in DOMAIN <<Chunk(used.broadcasts + 1)>> :
            <<Chunk(used.broadcasts + 1)>>[i].kind # "runtimeState"
      BY DEF Chunk
    <3> QED BY <2>3, <3>1, <3>2
  <2>4. CASE Broadcast /\ Reaches(<<Interrupted>>, <<>>, 0)
    <3>1. <<Interrupted>> \in Seq(Message) /\ waking' = waking
      BY <1>2, <2>4, MessageTypes DEF Broadcast, background
    <3>2. \A i \in DOMAIN <<Interrupted>> : <<Interrupted>>[i].kind # "runtimeState"
      BY DEF Interrupted
    <3> QED BY <2>4, <3>1, <3>2
  <2> QED BY <2>1, <2>2, <2>3, <2>4 DEF Broadcast, Initialized
<1> QED BY <1>1, <1>3, BroadcastAgrees

LEMMA RestartAgrees == ASSUME AgreeInv, Restart PROVE AgreeInv'
<1>1. /\ UNCHANGED <<popup, asking, live, toBackground, toPopup>>
      /\ micActive' = FALSE /\ waking' = TRUE /\ excuses' = excuses \cup {"restart"}
  BY DEF Restart
<1>2. ShownOK' /\ OnOK' /\ HeldStream'
  BY <1>1 DEF AgreeInv, ShownOK, OnOK, HeldStream
<1>3. OffOK'
  BY <1>1 DEF AgreeInv, OffOK, WillBe
<1> QED BY <1>2, <1>3 DEF AgreeInv

LEMMA AgreeHolds == Spec => []AgreeInv
<1>1. Init => AgreeInv
  <2> SUFFICES ASSUME Init PROVE AgreeInv
    OBVIOUS
  <2>1. Asked(toBackground, 1, popup.page)
    BY DEF Init, Asked, Fresh
  <2>2. \A i \in DOMAIN toBackground : toBackground[i].kind # "setMicActive"
    BY DEF Init
  <2> QED BY <2>1, <2>2 DEF Init, AgreeInv, ShownOK, WillTell, OnOK, OffOK, WillBe, HeldStream, Fresh
<1>2. Inv /\ AgreeInv /\ [Next]_vars => AgreeInv'
  <2> SUFFICES ASSUME Inv, AgreeInv, [Next]_vars PROVE AgreeInv'
    OBVIOUS
  <2>1. CASE ToggleOn
    BY <2>1, ToggleOnAgrees
  <2>2. CASE ToggleOff
    BY <2>2, ToggleOffAgrees
  <2>3. CASE \E a \in Asks : Granted(a) \/ Denied(a)
    BY <2>3, GrantedAgrees, DeniedAgrees
  <2>4. CASE ClosePopup \/ OpenPopup
    BY <2>4, ClosePopupAgrees, OpenPopupAgrees
  <2>5. CASE PopupReceives \/ \E chunk \in popup.playing : Played(chunk)
    BY <2>5, PopupReceivesAgrees, PlayedAgrees
  <2>6. CASE BackgroundReceives \/ Broadcast \/ Restart \/ Initialized
    BY <2>6, BackgroundReceivesAgrees, BroadcastsAgree, RestartAgrees
  <2>7. CASE UNCHANGED vars
    BY <2>7 DEF vars, AgreeInv, ShownOK, OnOK, OffOK, HeldStream
  <2> QED BY <2>1, <2>2, <2>3, <2>4, <2>5, <2>6, <2>7 DEF Next
<1> QED BY <1>1, <1>2, InvHolds, PTL DEF Spec

\* Once all messages are handled, checkbox and micActive agree, however the clicks, the broadcasts
\* and restarts were interleaved; and with the capture they agree but for the excuses: a click
\* while getUserMedia asked, a restart of the worker, a popup closed with the microphone on.
THEOREM MicIsHonest == Spec => []MicAgrees
<1>1. Inv /\ AgreeInv => MicAgrees
  <2> SUFFICES ASSUME Inv, AgreeInv, Quiet
               PROVE  /\ popup.checked = micActive
                      /\ live # {} /\ ~popup.checked => excuses \cap {"overlap", "restart"} # {}
                      /\ popup.checked /\ live = {} => excuses \cap {"overlap", "reopen"} # {}
    BY DEF MicAgrees
  <2>1. popup.open /\ asking = {} /\ toBackground = <<>> /\ toPopup = <<>> /\ ~waking
        /\ DOMAIN toBackground = {} /\ DOMAIN toPopup = {}
    BY DEF Quiet
  <2>2. popup.checked \in BOOLEAN /\ micActive \in BOOLEAN
    BY DEF Inv, TypeInv, Page
  <2>3. popup.checked = micActive
    BY <2>1 DEF AgreeInv, ShownOK, WillTell, Asked, WillShow, LastState
  <2>4. live # {} /\ excuses \cap {"overlap", "restart"} = {} => micActive = TRUE
    BY <2>1 DEF AgreeInv, OnOK, WillBe, LastOrder
  <2>5. live = {} /\ excuses \cap {"overlap", "reopen"} = {} => micActive = FALSE
    BY <2>1 DEF AgreeInv, OffOK, WillBe, LastOrder
  <2> QED BY <2>2, <2>3, <2>4, <2>5
<1> QED BY <1>1, AgreeHolds, InvHolds, PTL

=============================================================================
