------------------------------- MODULE RemoteFb -------------------------------
(***************************************************************************)
(* regirfb (src/src/utils/regirfb): an HTTP server on the board that shows *)
(* the screen of the program regigraf to pages of browsers and passes      *)
(* their clicks on to it.                                                  *)
(*                                                                         *)
(* One thread runs the server: main.cpp's handlers, one after another, and *)
(* between them the sessions of webapp_lib, which send an answer piece by  *)
(* piece.  An answer with a frame is not a copy: SetBody keeps the address *)
(* and the size, and the pieces are read from the frame when they are      *)
(* sent.  SendFrame starts a thread that captures the screen into the      *)
(* frame not shown and then switches; nothing is locked.                   *)
(*                                                                         *)
(* regigraf, webapp_lib, the pages' network and S39gui are external.       *)
(***************************************************************************)
EXTENDS Palette, FiniteSets

CONSTANTS
  Pages,     \* the browsers' pages, index.html
  Parts,     \* pieces a frame is captured and sent in
  QueueMax,  \* messages the queue to regigraf holds
  Tries,     \* tries of BindToFbDev to find a video mode, 29 in the code
  Patience,  \* periods PollFrame waits after a failed request, 10 in the code
  MaxAsks,   \* bound: how many frames are asked for
  MaxInputs, \* bound: how many clicks and orders of new firmware arrive
  MaxStops   \* bound: how often S91fbrec stops the server

ASSUME RemoteFbAssumption ==
  /\ Parts \in Nat \ {0} /\ QueueMax \in Nat \ {0} /\ Tries \in Nat \ {0}
  /\ Patience \in Nat \ {0} /\ MaxAsks \in Nat
  /\ MaxInputs \in Nat /\ MaxStops \in Nat

VARIABLES
  server,    \* the server's thread: "down", "bind", "up", in "SendFrame", "msgsnd", "system"
  tries,     \* try_n of BindToFbDev
  deep,      \* external: the video mode has 24 or 32 bits
  twoSteps,  \* the build stores _cur_frame++ before it compares it with 1
  curFrame,  \* _cur_frame
  frames,    \* _frames: the size, and which capture wrote each piece
  captures,  \* the threads of PrepareFrame, in the order they were started
  future,    \* scr_future: the thread it waits for, 0 if uninitialized
  page,      \* where a page's poll is
  ready, timeouts, \* ready and timeout of index.html
  answer,    \* what a session sends to the page: frame, size, the pieces sent, and as
             \* history how many captures had been started when SendFrame ended
  queue,     \* how many clicks are in the System V queue to regigraf
  queueId,   \* "none" yet; its id is 0: "first"; that was removed: "gone"; "later"
  asks, inputs, stops \* how many frames were asked for, and so on

life  == <<server, tries, deep, twoSteps>>
grab  == <<curFrame, frames, captures, future>>
poll  == <<page, ready, timeouts, answer, asks>>
input == <<queue, queueId, inputs>>
vars  == <<life, grab, poll, input, stops>>

NoFrame  == [size |-> 0, by |-> [i \in 1 .. Parts |-> 0]]
NoAnswer == [frame |-> 0, size |-> 0, got |-> <<>>, since |-> 0]

Capture == [pc : {"grab", "wrap", "rest", "done"}, left : 0 .. Parts, into : 0 .. 1]
Frame   == [size : {0, Parts}, by : [1 .. Parts -> Nat]]
Answer  == [frame : 0 .. 2, size : {0, Parts}, got : Seq(Nat), since : Nat]

TypeOK ==
  /\ server \in {"down", "bind", "up", "SendFrame", "msgsnd", "system"}
  /\ tries \in 1 .. Tries /\ deep \in BOOLEAN /\ twoSteps \in BOOLEAN
  /\ curFrame \in 0 .. 2
  /\ frames \in [0 .. 1 -> Frame]
  /\ captures \in Seq(Capture)
  /\ future \in 0 .. Len(captures)
  /\ page \in [Pages -> {"armed", "asked", "begun", "sent", "broken"}]
  /\ ready \in [Pages -> BOOLEAN] /\ timeouts \in [Pages -> 0 .. Patience]
  /\ answer \in [Pages -> Answer]
  /\ \A p \in Pages : Len(answer[p].got) <= answer[p].size
  /\ queue \in 0 .. QueueMax /\ queueId \in {"none", "first", "gone", "later"}
  /\ asks \in 0 .. MaxAsks /\ inputs \in 0 .. MaxInputs /\ stops \in 0 .. MaxStops

\* main before BindToFbDev; S91fbrec has started it.
Init ==
  /\ server = "bind" /\ tries = 1 /\ deep \in BOOLEAN /\ twoSteps \in BOOLEAN
  /\ curFrame = 0 /\ frames = [f \in 0 .. 1 |-> NoFrame]
  /\ captures = <<>> /\ future = 0
  /\ page = [p \in Pages |-> "armed"] /\ ready = [p \in Pages |-> TRUE]
  /\ timeouts = [p \in Pages |-> 0] /\ answer = [p \in Pages |-> NoAnswer]
  /\ queue = 0 /\ queueId = "none"
  /\ asks = 0 /\ inputs = 0 /\ stops = 0

-----------------------------------------------------------------------------
(* Start and end of the process *)

\* msgget: the queue is there, or is made; only the first one has the id 0.
InitIPC ==
  queueId' = CASE queueId = "none" -> "first" [] queueId = "gone" -> "later"
               [] OTHER -> queueId

\* It finds a depth of 3 or 4.
GetVideoMode == deep

\* The frames are allotted, the queue is opened and the
\* server runs.
BindToFbDev ==
  /\ server = "bind" /\ GetVideoMode
  /\ server' = "up" /\ tries' = 1
  /\ InitIPC
  /\ UNCHANGED <<deep, twoSteps, grab, poll, queue, inputs, stops>>

\* A second later; main returns 1 when try_n is 30.
TryAgain ==
  /\ server = "bind" /\ ~GetVideoMode
  /\ IF tries < Tries THEN tries' = tries + 1 /\ UNCHANGED server
                      ELSE tries' = 1 /\ server' = "down"
  /\ UNCHANGED <<deep, twoSteps, grab, poll, input, stops>>

\* The whole answer is on its way to the page.
AllSent(p) == page[p] = "sent" /\ Len(answer[p].got) = answer[p].size

\* The memory, the threads and the connections of the process are gone.
Ends ==
  /\ server' = "down" /\ tries' = 1
  /\ curFrame' = 0 /\ frames' = [f \in 0 .. 1 |-> NoFrame] /\ future' = 0
  /\ captures' = [n \in DOMAIN captures |-> [captures[n] EXCEPT !.pc = "done"]]
  /\ page' = [p \in Pages |-> IF page[p] = "armed" \/ AllSent(p) THEN page[p] ELSE "broken"]
  /\ answer' = [p \in Pages |-> IF AllSent(p) THEN answer[p] ELSE NoAnswer]

\* StopCmd: killall, and ipcrm of the queue whose id is 0.
StopCmd ==
  /\ server # "down" /\ stops < MaxStops
  /\ stops' = stops + 1
  /\ Ends
  /\ IF queueId = "first" THEN queue' = 0 /\ queueId' = "gone" ELSE UNCHANGED <<queue, queueId>>
  /\ UNCHANGED <<deep, twoSteps, ready, timeouts, asks, inputs>>

\* StartCmd.
StartCmd ==
  /\ server = "down"
  /\ server' = "bind"
  /\ UNCHANGED <<tries, deep, twoSteps, grab, poll, input, stops>>

-----------------------------------------------------------------------------
(* The screen: PrepareFrame in threads of its own *)

GetNextFrameId == IF curFrame = 0 THEN 1 ELSE 0

\* Mutants: it goes back to the wrong frame; or nowhere.
SwitchedToLast(c) == IF c > 1 THEN 1 ELSE c
NotSwitched(c)    == c

\* SwitchToNextFrame, as a build that stores the sum first, or only its result.
Switched(c) == IF c > 1 THEN 0 ELSE c

\* PrepareBMPFrame writes the next piece: the header and palette are in the
\* first, then there are pixels.
Grab(n) ==
  /\ captures[n].pc = "grab" /\ captures[n].left > 0
  /\ LET c == captures[n]
         f == IF c.left = Parts THEN GetNextFrameId ELSE c.into
     IN  /\ frames' = [frames EXCEPT ![f].by[Parts - c.left + 1] = n]
         /\ captures' = [captures EXCEPT ![n] = [c EXCEPT !.left = @ - 1, !.into = f]]
  /\ UNCHANGED <<life, curFrame, future, poll, input, stops>>

\* The size of the frame is set and the frames are switched.
Switch(n) ==
  /\ captures[n].pc = "grab" /\ captures[n].left = 0
  /\ frames' = [frames EXCEPT ![GetNextFrameId].size = Parts]
  /\ IF twoSteps /\ curFrame + 1 > 1
       THEN curFrame' = curFrame + 1 /\ captures' = [captures EXCEPT ![n].pc = "wrap"]
       ELSE /\ curFrame' = Switched(curFrame + 1)
            /\ captures' = [captures EXCEPT ![n].pc = "rest"]
  /\ UNCHANGED <<life, future, poll, input, stops>>

\* The second step of SwitchToNextFrame.
Wrap(n) ==
  /\ captures[n].pc = "wrap"
  /\ curFrame' = Switched(curFrame)
  /\ captures' = [captures EXCEPT ![n].pc = "rest"]
  /\ UNCHANGED <<life, frames, future, poll, input, stops>>

\* usleep is over: scr_future becomes ready.
Rested(n) ==
  /\ captures[n].pc = "rest"
  /\ captures' = [captures EXCEPT ![n].pc = "done"]
  /\ UNCHANGED <<life, curFrame, frames, future, poll, input, stops>>

\* PrepareFrame, of the n-th thread.
PrepareFrame(n) == Grab(n) \/ Switch(n) \/ Wrap(n) \/ Rested(n)

-----------------------------------------------------------------------------
(* The server: handlers and sessions *)

\* Mutant: the thread of the last request is not waited for.
BeginAlways(p) ==
  /\ server = "up" /\ page[p] = "asked"
  /\ server' = "SendFrame" /\ page' = [page EXCEPT ![p] = "begun"]
  /\ captures' = Append(captures, [pc |-> "grab", left |-> Parts, into |-> 0])
  /\ future' = Len(captures')
  /\ UNCHANGED <<tries, deep, twoSteps, curFrame, frames, ready, timeouts, answer, asks,
                 input, stops>>

\* SendFrame starts a capture unless one is on its way.
Begin(p) ==
  /\ server = "up" /\ page[p] = "asked"
  /\ server' = "SendFrame" /\ page' = [page EXCEPT ![p] = "begun"]
  /\ IF future = 0 \/ captures[future].pc = "done"
       THEN /\ captures' = Append(captures, [pc |-> "grab", left |-> Parts, into |-> 0])
            /\ future' = Len(captures')
       ELSE UNCHANGED <<captures, future>>
  /\ UNCHANGED <<tries, deep, twoSteps, curFrame, frames, ready, timeouts, answer, asks,
                 input, stops>>

\* The sizes GetFrame may find.  Behind the two frames lie _cur_frame and what
\* the heap left there: an address and a size, mostly of nothing.
GetFrame == IF curFrame = 2 THEN {0, Parts} ELSE {frames[curFrame].size}

\* SetBody gets the address and the size.
SendFrame(p) ==
  /\ server = "SendFrame" /\ page[p] = "begun"
  /\ server' = "up" /\ page' = [page EXCEPT ![p] = "sent"]
  /\ \E size \in GetFrame :
       answer' = [answer EXCEPT ![p] = [frame |-> curFrame, size |-> size, got |-> <<>>,
                                        since |-> Len(captures)]]
  /\ UNCHANGED <<tries, deep, twoSteps, grab, ready, timeouts, asks,
                 input, stops>>

\* The session of p sends the next piece.
SendPiece(p) ==
  /\ server = "up" /\ page[p] = "sent" /\ ~AllSent(p)
  /\ LET f == answer[p].frame
         i == Len(answer[p].got) + 1
     IN  answer' = [answer EXCEPT ![p].got =
                     Append(@, IF f = 2 THEN 0 ELSE frames[f].by[i])]
  /\ UNCHANGED <<life, grab, page, ready, timeouts, asks,
                 input, stops>>

\* Or reads from an address where nothing is.
SegmentationFault(p) ==
  /\ server = "up" /\ page[p] = "sent" /\ ~AllSent(p) /\ answer[p].frame = 2
  /\ Ends
  /\ UNCHANGED <<deep, twoSteps, ready, timeouts, asks,
                 input, stops>>

\* Update with "mouse": a click arrives, and SendNewCoords puts it in the queue
\* or waits in msgsnd until there is room.
UpdateMouse ==
  /\ server = "up" /\ inputs < MaxInputs
  /\ inputs' = inputs + 1
  /\ IF queue < QueueMax THEN queue' = queue + 1 /\ UNCHANGED server
                         ELSE server' = "msgsnd" /\ UNCHANGED queue
  /\ UNCHANGED <<tries, deep, twoSteps, grab, poll, queueId, stops>>

\* Mutant: it waits for more room than it needs.
SendNewCoordsLate ==
  /\ server = "msgsnd" /\ queue + 1 < QueueMax
  /\ server' = "up" /\ queue' = queue + 1
  /\ UNCHANGED <<tries, deep, twoSteps, grab, poll, queueId, inputs, stops>>

\* msgsnd returns.
SendNewCoords ==
  /\ server = "msgsnd" /\ queue < QueueMax
  /\ server' = "up" /\ queue' = queue + 1
  /\ UNCHANGED <<tries, deep, twoSteps, grab, poll, queueId, inputs, stops>>

\* Update with "firmware": UpdateFirm waits for S39gui in system().
UpdateFirm ==
  /\ server = "up" /\ inputs < MaxInputs
  /\ inputs' = inputs + 1 /\ server' = "system"
  /\ UNCHANGED <<tries, deep, twoSteps, grab, poll, queue, queueId, stops>>

\* system() returns.
Updated ==
  /\ server = "system" /\ server' = "up"
  /\ UNCHANGED <<tries, deep, twoSteps, grab, poll, input, stops>>

-----------------------------------------------------------------------------
(* The pages: index.html *)

Listens == server \in {"up", "SendFrame", "msgsnd", "system"}

\* PollFrame, of a page whose last frame came or that has waited long enough.
PollFrame(p) ==
  /\ page[p] = "armed" /\ asks < MaxAsks
  /\ ready[p] \/ timeouts[p] + 1 = Patience
  /\ timeouts' = [timeouts EXCEPT ![p] = IF ready[p] THEN @ ELSE 0]
  /\ ready' = [ready EXCEPT ![p] = FALSE]
  /\ page' = [page EXCEPT ![p] = IF Listens THEN "asked" ELSE "broken"]
  /\ asks' = asks + 1
  /\ UNCHANGED <<life, grab, answer, input, stops>>

\* PollFrame waits another period.
Wait(p) ==
  /\ page[p] = "armed" /\ ~ready[p] /\ timeouts[p] + 1 < Patience
  /\ timeouts' = [timeouts EXCEPT ![p] = @ + 1]
  /\ UNCHANGED <<life, grab, page, ready, answer, asks,
                 input, stops>>

\* frame.onload: there is a picture.
OnLoad(p) ==
  /\ AllSent(p) /\ answer[p].size > 0 /\ answer[p].frame # 2
  /\ page' = [page EXCEPT ![p] = "armed"] /\ ready' = [ready EXCEPT ![p] = TRUE]
  /\ answer' = [answer EXCEPT ![p] = NoAnswer]
  /\ UNCHANGED <<life, grab, timeouts, asks,
                 input, stops>>

\* frame.onerror: there is none.
OnError(p) ==
  /\ page[p] = "broken" \/ (AllSent(p) /\ (answer[p].size = 0 \/ answer[p].frame = 2))
  /\ page' = [page EXCEPT ![p] = "armed"] /\ ready' = [ready EXCEPT ![p] = FALSE]
  /\ answer' = [answer EXCEPT ![p] = NoAnswer]
  /\ UNCHANGED <<life, grab, timeouts, asks,
                 input, stops>>

-----------------------------------------------------------------------------
(* regigraf *)

\* It sets the video mode it can draw in.
SetMode ==
  /\ ~deep /\ deep' = TRUE
  /\ UNCHANGED <<server, tries, twoSteps, grab, poll, input, stops>>

\* It takes a click.
TakeClick ==
  /\ queue > 0 /\ queue' = queue - 1
  /\ UNCHANGED <<life, grab, poll, queueId, inputs, stops>>

-----------------------------------------------------------------------------
Next ==
  \/ BindToFbDev \/ TryAgain \/ StopCmd \/ StartCmd
  \/ UpdateMouse \/ SendNewCoords \/ UpdateFirm \/ Updated
  \/ SetMode \/ TakeClick
  \/ \E n \in DOMAIN captures : PrepareFrame(n)
  \/ \E p \in Pages : \/ Begin(p) \/ SendFrame(p) \/ SendPiece(p) \/ SegmentationFault(p)
                      \/ PollFrame(p) \/ Wait(p) \/ OnLoad(p) \/ OnError(p)

Spec == Init /\ [][Next]_vars

\* Each session has its turn, the network and the pages go on, regigraf reads its
\* queue and S39gui ends.  Nobody need start the server.
FairSpec ==
  /\ Spec
  /\ \A p \in Pages : /\ WF_vars(Begin(p)) /\ WF_vars(SendFrame(p))
                      /\ WF_vars(SendPiece(p)) /\ WF_vars(OnLoad(p)) /\ WF_vars(OnError(p))
  /\ WF_vars(SendNewCoords) /\ WF_vars(Updated) /\ WF_vars(TakeClick)

-----------------------------------------------------------------------------
(* Properties *)

\* A page that has got a whole picture shows each colour regigraf draws with as
\* it is: the byte per pixel loses none of them.
ColoursShown ==
  \A p \in Pages : AllSent(p) /\ answer[p].size > 0 =>
    \A n \in DOMAIN kColors : Shown(kColors[n]) = kColors[n]

\* No thread was started since the answer of p began.
Unspoilt(p) == Len(captures) = answer[p].since /\ answer[p].frame # 2

\* Two frames without a lock suffice as long as nobody else asks: what a page
\* has got of an answer is of one capture, although captures go on meanwhile,
\* unless a thread was started after its answer began.  Only a build with two
\* steps may send what is no frame.
BodyIsOneCapture ==
  \A p \in Pages : page[p] = "sent" =>
    /\ answer[p].frame = 2 => twoSteps
    /\ Unspoilt(p) => \A i, k \in DOMAIN answer[p].got :
                        answer[p].got[i] = answer[p].got[k] /\ answer[p].got[i] # 0

\* That capture is the last one started when the page asked, or the one before.
AtMostOneBehind ==
  \A p \in Pages : page[p] = "sent" /\ Unspoilt(p) =>
    \A i \in DOMAIN answer[p].got : answer[p].got[i] + 1 >= answer[p].since

\* A page that asked hears an answer or an error, although one thread serves all
\* and waits for room in the queue and for S39gui.
EveryRequestEnds == \A p \in Pages : page[p] # "armed" ~> page[p] = "armed"
=============================================================================
