--------------------------- MODULE RemoteFbProofs ---------------------------
(***************************************************************************)
(* Proofs about RemoteFb, for every number of pages, pieces of a frame,    *)
(* captures, clicks and stops of the server.                               *)
(*                                                                         *)
(* What a page gets is not inductive: nothing in it says which frame the   *)
(* capture on its way writes to.  CaptureInv adds this: the capture that   *)
(* scr_future waits for is the only one on its way; until it switches, the *)
(* frame shown is whole and of the capture before it, and afterwards it is *)
(* whole and its own.  PageInv says the same of the frame a session sends. *)
(***************************************************************************)
EXTENDS RemoteFb, ModArith, SequenceTheorems, TLAPS

-----------------------------------------------------------------------------
(* Types *)

\* What TypeOK says of the screen and of the pages.
GrabType ==
  /\ curFrame \in 0 .. 2 /\ frames \in [0 .. 1 -> Frame]
  /\ captures \in Seq(Capture) /\ future \in 0 .. Len(captures)

PollType ==
  /\ page \in [Pages -> {"armed", "asked", "begun", "sent", "broken"}]
  /\ ready \in [Pages -> BOOLEAN] /\ timeouts \in [Pages -> 0 .. Patience]
  /\ answer \in [Pages -> Answer] /\ asks \in 0 .. MaxAsks
  /\ \A p \in Pages : Len(answer[p].got) <= answer[p].size

\* ... and of the rest.
RestType ==
  /\ server \in {"down", "bind", "up", "SendFrame", "msgsnd", "system"}
  /\ tries \in 1 .. Tries /\ deep \in BOOLEAN /\ twoSteps \in BOOLEAN
  /\ queue \in 0 .. QueueMax /\ queueId \in {"none", "first", "gone", "later"}
  /\ inputs \in 0 .. MaxInputs /\ stops \in 0 .. MaxStops

\* TypeOK in the parts the steps share ...
LEMMA TypeParts == TypeOK <=> GrabType /\ PollType /\ RestType
  BY DEF TypeOK, GrabType, PollType, RestType

\* ... of the next state, too.
LEMMA TypePartsNext == GrabType' /\ PollType' /\ RestType' => TypeOK'
  BY DEF TypeOK, GrabType, PollType, RestType

\* A buffer nothing was written to, and an answer not asked for.
LEMMA NoFrameType == NoFrame \in Frame /\ NoAnswer \in Answer
  BY RemoteFbAssumption DEF NoFrame, Frame, NoAnswer, Answer

\* The program has started.
LEMMA InitType == Init => TypeOK
<1> SUFFICES ASSUME Init PROVE TypeOK
  OBVIOUS
<1>1. GrabType
  BY NoFrameType DEF Init, GrabType
<1>2. PollType
  BY NoFrameType, RemoteFbAssumption DEF Init, PollType, NoAnswer
<1>3. RestType
  BY RemoteFbAssumption DEF Init, RestType
<1> QED BY <1>1, <1>2, <1>3, TypeParts

\* Changing the n-th thread leaves a sequence of threads.
LEMMA CaptureChanged ==
  ASSUME GrabType, NEW n \in DOMAIN captures, NEW c \in Capture,
         captures' = [captures EXCEPT ![n] = c]
  PROVE  captures' \in Seq(Capture) /\ Len(captures') = Len(captures)
  BY ExceptSeq DEF GrabType

\* The end of the process leaves the sequence of its threads, all done.
LEMMA CapturesEnd ==
  ASSUME GrabType, captures' = [n \in DOMAIN captures |-> [captures[n] EXCEPT !.pc = "done"]]
  PROVE  /\ captures' \in Seq(Capture) /\ Len(captures') = Len(captures)
         /\ \A n \in DOMAIN captures' : captures'[n].pc = "done"
<1>1. Len(captures) \in Nat /\ DOMAIN captures = 1 .. Len(captures)
  BY LenProperties DEF GrabType
<1>2. \A n \in DOMAIN captures : captures[n] \in Capture
  BY <1>1, ElementOfSeq DEF GrabType
<1>3. \A n \in DOMAIN captures : [captures[n] EXCEPT !.pc = "done"] \in Capture
  BY <1>2 DEF Capture
<1>4. captures' \in [1 .. Len(captures) -> Capture]
  BY <1>1, <1>3
<1>5. captures' \in Seq(Capture) /\ Len(captures') = Len(captures)
  BY <1>1, <1>4
<1>6. \A n \in DOMAIN captures' : captures'[n].pc = "done"
  BY <1>1, <1>2 DEF Capture
<1> QED BY <1>5, <1>6

\* Each step of the screen's threads.
LEMMA GrabStepType ==
  ASSUME TypeOK, NEW n \in DOMAIN captures, PrepareFrame(n),
         captures[n].pc = "grab" => curFrame # 2
  PROVE  GrabType' /\ Len(captures') = Len(captures) /\ UNCHANGED <<life, poll, input, stops, future>>
<1> USE TypeParts DEF GrabType
<1>1. /\ captures[n] \in Capture /\ Len(captures) \in Nat /\ DOMAIN captures = 1 .. Len(captures)
  BY ElementOfSeq, LenProperties
<1>2. curFrame \in 0 .. 2 /\ GetNextFrameId \in 0 .. 1
  BY DEF GetNextFrameId
<1>3. \A f \in 0 .. 1 : frames[f] \in Frame
  OBVIOUS
<1>4. CASE Grab(n)
  <2> DEFINE c == captures[n]
             f == IF c.left = Parts THEN GetNextFrameId ELSE c.into
             d == [c EXCEPT !.left = @ - 1, !.into = f]
             g == [frames[f] EXCEPT !.by[Parts - c.left + 1] = n]
  <2>1. c.left \in 1 .. Parts /\ f \in 0 .. 1
    BY <1>1, <1>2, <1>4 DEF Grab, Capture
  <2>2. d \in Capture
    <3>1. c.left - 1 \in 0 .. Parts
      BY <2>1, RemoteFbAssumption
    <3> HIDE DEF f
    <3> QED BY <1>1, <2>1, <3>1 DEF Capture
  <2>3. captures' = [captures EXCEPT ![n] = d] /\ frames' = [frames EXCEPT ![f] = g]
    BY <1>4 DEF Grab
  <2>4. n \in Nat /\ Parts - c.left + 1 \in 1 .. Parts
    BY <1>1, <2>1, RemoteFbAssumption
  <2>5. g \in Frame
    BY <1>3, <2>1, <2>4 DEF Frame
  <2>6. captures' \in Seq(Capture) /\ Len(captures') = Len(captures)
    BY <2>2, <2>3, CaptureChanged
  <2>7. frames' \in [0 .. 1 -> Frame]
    BY <2>1, <2>3, <2>5
  <2> QED BY <1>4, <2>6, <2>7 DEF Grab
<1>5. CASE Switch(n)
  <2>1. \E s \in {"wrap", "rest"} : captures' = [captures EXCEPT ![n] = [captures[n] EXCEPT !.pc = s]]
    BY <1>5 DEF Switch
  <2>2. captures' \in Seq(Capture) /\ Len(captures') = Len(captures)
    <3>1. \A s \in {"wrap", "rest"} : [captures[n] EXCEPT !.pc = s] \in Capture
      BY <1>1 DEF Capture
    <3> QED BY <2>1, <3>1, CaptureChanged
  <2>3. [frames[GetNextFrameId] EXCEPT !.size = Parts] \in Frame
    BY <1>2, <1>3 DEF Frame
  <2>4. frames' \in [0 .. 1 -> Frame]
    BY <1>2, <1>5, <2>3 DEF Switch
  <2>5. curFrame' \in 0 .. 2
    <3>1. CASE twoSteps /\ curFrame + 1 > 1
      <4>1. curFrame' = curFrame + 1 /\ curFrame # 2
        BY <1>5, <3>1 DEF Switch
      <4> QED BY <4>1, <1>2
    <3>2. CASE ~(twoSteps /\ curFrame + 1 > 1)
      BY <1>2, <1>5, <3>2 DEF Switch, Switched
    <3> QED BY <3>1, <3>2
  <2> QED BY <1>5, <2>2, <2>4, <2>5 DEF Switch
<1>6. CASE Wrap(n)
  <2>1. [captures[n] EXCEPT !.pc = "rest"] \in Capture
    BY <1>1 DEF Capture
  <2>2. captures' \in Seq(Capture) /\ Len(captures') = Len(captures)
    BY <1>6, <2>1, CaptureChanged DEF Wrap
  <2> QED BY <1>2, <1>6, <2>2 DEF Wrap, Switched
<1>7. CASE Rested(n)
  <2>1. [captures[n] EXCEPT !.pc = "done"] \in Capture
    BY <1>1 DEF Capture
  <2>2. captures' \in Seq(Capture) /\ Len(captures') = Len(captures)
    BY <1>7, <2>1, CaptureChanged DEF Rested
  <2> QED BY <1>7, <2>2 DEF Rested
<1> QED BY <1>4, <1>5, <1>6, <1>7 DEF PrepareFrame

\* The end of the process.
LEMMA EndsType ==
  ASSUME TypeOK, Ends, UNCHANGED <<ready, timeouts, asks>>
  PROVE  GrabType' /\ PollType'
<1> USE TypeParts
<1>1. GrabType'
  BY CapturesEnd, NoFrameType DEF Ends, GrabType
<1>2. PollType'
  <2>1. answer' \in [Pages -> Answer] /\ page' \in [Pages -> {"armed", "asked", "begun", "sent", "broken"}]
    BY NoFrameType DEF Ends, PollType
  <2>2. \A p \in Pages : Len(answer'[p].got) <= answer'[p].size
    BY DEF Ends, PollType, NoAnswer
  <2> QED BY <2>1, <2>2 DEF PollType
<1> QED BY <1>1, <1>2

\* A new capture.
LEMMA BeginType ==
  ASSUME TypeOK, NEW p \in Pages, Begin(p)
  PROVE  GrabType' /\ PollType'
<1> USE TypeParts
<1>1. [pc |-> "grab", left |-> Parts, into |-> 0] \in Capture
  BY RemoteFbAssumption DEF Capture
<1>2. GrabType'
  <2>1. CASE future = 0 \/ captures[future].pc = "done"
    <3>1. captures' = Append(captures, [pc |-> "grab", left |-> Parts, into |-> 0])
      BY <2>1 DEF Begin
    <3>2. captures' \in Seq(Capture) /\ Len(captures') = Len(captures) + 1
      BY <1>1, <3>1, AppendProperties DEF GrabType
    <3>3. Len(captures) \in Nat
      BY LenProperties DEF GrabType
    <3> QED BY <2>1, <3>2, <3>3 DEF Begin, GrabType
  <2>2. CASE ~(future = 0 \/ captures[future].pc = "done")
    BY <2>2 DEF Begin, GrabType
  <2> QED BY <2>1, <2>2
<1>3. PollType'
  BY DEF Begin, PollType
<1> QED BY <1>2, <1>3

\* SendFrame, and the next piece.
LEMMA SendFrameType ==
  ASSUME TypeOK, NEW p \in Pages, SendFrame(p)
  PROVE  PollType'
<1> USE TypeParts
<1>1. PICK size \in GetFrame :
        answer' = [answer EXCEPT ![p] = [frame |-> curFrame, size |-> size, got |-> <<>>,
                                         since |-> Len(captures)]]
  BY DEF SendFrame
<1>2. size \in {0, Parts} /\ Len(captures) \in Nat /\ curFrame \in 0 .. 2
  <2>1. curFrame # 2 => frames[curFrame] \in Frame
    BY DEF GrabType
  <2> QED BY <2>1, LenProperties DEF GetFrame, GrabType, Frame
<1>3. [frame |-> curFrame, size |-> size, got |-> <<>>, since |-> Len(captures)] \in Answer
  BY <1>2 DEF Answer
<1>4. answer' \in [Pages -> Answer]
  BY <1>1, <1>3 DEF PollType
<1>5. \A q \in Pages : Len(answer'[q].got) <= answer'[q].size
  BY <1>1, <1>2, RemoteFbAssumption DEF PollType
<1> QED BY <1>4, <1>5 DEF SendFrame, PollType

\* A piece more of an answer that was begun.
LEMMA SendPieceType ==
  ASSUME TypeOK, NEW p \in Pages, SendPiece(p)
  PROVE  /\ PollType'
         /\ answer[p].size = Parts /\ Len(answer[p].got) + 1 \in 1 .. Parts
<1> USE TypeParts
<1> DEFINE f == answer[p].frame
           i == Len(answer[p].got) + 1
           x == IF f = 2 THEN 0 ELSE frames[f].by[i]
           a == [answer[p] EXCEPT !.got = Append(@, x)]
<1>1. answer[p] \in Answer /\ Len(answer[p].got) <= answer[p].size
  BY DEF PollType
<1>2. Len(answer[p].got) \in Nat /\ Len(answer[p].got) # answer[p].size
  BY <1>1, LenProperties DEF Answer, SendPiece, AllSent
<1>3. answer[p].size = Parts /\ i \in 1 .. Parts
  BY <1>1, <1>2, RemoteFbAssumption DEF Answer
<1>4. x \in Nat
  <2>1. f # 2 => frames[f] \in Frame
    BY <1>1 DEF Answer, GrabType
  <2> QED BY <1>3, <2>1 DEF Frame
<1>5. Append(answer[p].got, x) \in Seq(Nat) /\ Len(Append(answer[p].got, x)) = i
  BY <1>1, <1>4, AppendProperties DEF Answer
<1>6. a \in Answer /\ a.size = Parts /\ Len(a.got) = i
  <2> HIDE DEF x, i
  <2> QED BY <1>1, <1>3, <1>5 DEF Answer
<1>7. answer' = [answer EXCEPT ![p] = a]
  BY DEF SendPiece
<1>8. answer' \in [Pages -> Answer] /\ \A q \in Pages : Len(answer'[q].got) <= answer'[q].size
  <2> HIDE DEF a
  <2> QED BY <1>3, <1>6, <1>7 DEF PollType
<1> QED BY <1>3, <1>8 DEF SendPiece, PollType

\* The pages.
LEMMA PageType ==
  ASSUME TypeOK, NEW p \in Pages, PollFrame(p) \/ Wait(p) \/ OnLoad(p) \/ OnError(p)
  PROVE  PollType'
<1> USE TypeParts, RemoteFbAssumption, NoFrameType
<1>1. CASE PollFrame(p)
  BY <1>1 DEF PollFrame, PollType
<1>2. CASE Wait(p)
  BY <1>2 DEF Wait, PollType
<1>3. CASE OnLoad(p)
  BY <1>3 DEF OnLoad, PollType, NoAnswer
<1>4. CASE OnError(p)
  BY <1>4 DEF OnError, PollType, NoAnswer
<1> QED BY <1>1, <1>2, <1>3, <1>4

\* The steps that touch neither the screen nor the pages.
Apart == \/ BindToFbDev \/ TryAgain \/ StartCmd \/ UpdateMouse \/ SendNewCoords
         \/ UpdateFirm \/ Updated \/ SetMode \/ TakeClick \/ UNCHANGED vars

\* The rest of the program leaves captures and answers alone.
LEMMA ApartKeeps == Apart => UNCHANGED <<grab, poll, twoSteps>>
  BY DEF Apart, BindToFbDev, TryAgain, StartCmd, UpdateMouse, SendNewCoords, UpdateFirm,
         Updated, SetMode, TakeClick, vars, life

\* What is left of TypeOK holds after every step.
LEMMA RestKept == TypeOK /\ [Next]_vars => RestType'
<1> SUFFICES ASSUME TypeOK, [Next]_vars PROVE RestType'
  OBVIOUS
<1> USE TypeParts, RemoteFbAssumption DEF RestType
<1>1. CASE BindToFbDev \/ TryAgain \/ StartCmd \/ SetMode
  <2>1. CASE BindToFbDev
    BY <2>1 DEF BindToFbDev, InitIPC
  <2>2. CASE TryAgain
    BY <2>2 DEF TryAgain, input
  <2>3. CASE StartCmd \/ SetMode
    BY <2>3 DEF StartCmd, SetMode, input
  <2> QED BY <1>1, <2>1, <2>2, <2>3
<1>2. CASE UpdateMouse \/ SendNewCoords \/ TakeClick
  BY <1>2 DEF UpdateMouse, SendNewCoords, TakeClick, life
<1>3. CASE UpdateFirm \/ Updated \/ UNCHANGED vars
  BY <1>3 DEF UpdateFirm, Updated, vars, life, input
<1>4. CASE StopCmd
  BY <1>4 DEF StopCmd, Ends
<1>5. ASSUME NEW n \in DOMAIN captures, PrepareFrame(n) PROVE RestType'
  BY <1>5 DEF PrepareFrame, Grab, Switch, Wrap, Rested, life, input
<1>6. ASSUME NEW p \in Pages, Begin(p) \/ SendFrame(p) \/ SendPiece(p) PROVE RestType'
  BY <1>6 DEF Begin, SendFrame, SendPiece, life, input
<1>7. ASSUME NEW p \in Pages, SegmentationFault(p) PROVE RestType'
  BY <1>7 DEF SegmentationFault, Ends, input
<1>8. ASSUME NEW p \in Pages, PollFrame(p) \/ Wait(p) \/ OnLoad(p) \/ OnError(p)
      PROVE  RestType'
  BY <1>8 DEF PollFrame, Wait, OnLoad, OnError, life, input
<1> QED BY <1>1, <1>2, <1>3, <1>4, <1>5, <1>6, <1>7, <1>8 DEF Next

-----------------------------------------------------------------------------
(* The screen *)

\* Frame f is whole and of capture k.
Filled(f, k) == frames[f].size = Parts /\ \A i \in 1 .. Parts : frames[f].by[i] = k

\* No capture but the one scr_future waits for is on its way.
OneRuns == \A n \in DOMAIN captures : n # future => captures[n].pc = "done"

\* What the frames hold, by where that capture is.
Unfilled == curFrame \in 0 .. 1 /\ \A f \in 0 .. 1 : frames[f].size = 0

Filling ==
  /\ curFrame \in 0 .. 1
  /\ frames[curFrame].size = 0 \/ (future > 1 /\ Filled(curFrame, future - 1))
  /\ captures[future].left < Parts => captures[future].into = GetNextFrameId
  /\ \A i \in 1 .. Parts - captures[future].left : frames[GetNextFrameId].by[i] = future

Wrapping == curFrame = 2 /\ twoSteps /\ Filled(0, future)
Shows    == curFrame \in 0 .. 1 /\ Filled(curFrame, future)

CaptureInv ==
  /\ future \in {0, Len(captures)}
  /\ OneRuns
  /\ future = 0 => Unfilled
  /\ future # 0 => CASE captures[future].pc = "grab" -> Filling
                     [] captures[future].pc = "wrap" -> Wrapping
                     [] OTHER -> Shows

Grabbing == future # 0 /\ captures[future].pc = "grab"

\* An answer no later thread was started after: what was sent of it is of one
\* capture, and so is the rest of its frame, which nothing writes to.
Intact(p, k) ==
  /\ \A i \in DOMAIN answer[p].got : answer[p].got[i] = k
  /\ \/ AllSent(p)
     \/ /\ \A i \in 1 .. Parts : frames[answer[p].frame].by[i] = k
        /\ Grabbing => answer[p].frame = curFrame

PageInv ==
  \A p \in Pages : page[p] = "sent" =>
    /\ answer[p].frame = 2 => twoSteps
    /\ answer[p].since <= Len(captures)
    /\ Unspoilt(p) /\ answer[p].size # 0 =>
         \E k \in {answer[p].since - 1, answer[p].since} \ {0} : Intact(p, k)

Inv == TypeOK /\ CaptureInv /\ PageInv

\* Each kind of step keeps CaptureInv.
LEMMA GrabKeepsCapture ==
  ASSUME Inv, NEW n \in DOMAIN captures, Grab(n)
  PROVE  /\ CaptureInv' /\ n = future /\ captures[n].pc = "grab" /\ Grabbing'
         /\ curFrame \in 0 .. 1 /\ frames'[curFrame] = frames[curFrame]
<1> USE DEF Inv
<1>1. /\ captures[n] \in Capture /\ Len(captures) \in Nat /\ DOMAIN captures = 1 .. Len(captures)
  BY TypeParts, ElementOfSeq, LenProperties DEF GrabType
<1>2. n = future /\ captures[n].pc = "grab" /\ Filling
  BY <1>1 DEF Grab, CaptureInv, OneRuns
<1> DEFINE c == captures[n]
           f == GetNextFrameId
           d == [c EXCEPT !.left = @ - 1, !.into = f]
           i0 == Parts - c.left + 1
<1>3. c.left \in 1 .. Parts /\ f \in 0 .. 1 /\ f # curFrame /\ curFrame \in 0 .. 1
  BY <1>1, <1>2 DEF Grab, Capture, GetNextFrameId, Filling
<1>4. /\ captures' = [captures EXCEPT ![n] = d]
      /\ frames' = [frames EXCEPT ![f].by[i0] = n]
  <2>1. f = IF c.left = Parts THEN GetNextFrameId ELSE c.into
    BY <1>2, <1>3, RemoteFbAssumption DEF Filling
  <2> QED BY <2>1 DEF Grab
<1>5. /\ captures'[n].pc = "grab" /\ captures'[n].left = c.left - 1 /\ captures'[n].into = f
      /\ \A m \in DOMAIN captures : m # n => captures'[m] = captures[m]
      /\ DOMAIN captures' = DOMAIN captures /\ Len(captures') = Len(captures)
  <2> HIDE DEF f
  <2>1. \A m \in DOMAIN captures : captures'[m] = IF m = n THEN d ELSE captures[m]
    BY <1>1, <1>4
  <2>2. d.pc = "grab" /\ d.left = c.left - 1 /\ d.into = f
    BY <1>1, <1>2 DEF Capture
  <2>3. DOMAIN captures' = DOMAIN captures /\ Len(captures') = Len(captures)
    BY <1>1, <1>4
  <2> QED BY <1>1, <2>1, <2>2, <2>3
<1>6. UNCHANGED <<future, curFrame>> /\ GetNextFrameId' = f
  BY DEF Grab, GetNextFrameId
<1>7. /\ frames'[curFrame] = frames[curFrame]
      /\ i0 \in 1 .. Parts
      /\ \A i \in 1 .. Parts : frames'[f].by[i] = IF i = i0 THEN n ELSE frames[f].by[i]
  <2>1. frames \in [0 .. 1 -> Frame] /\ frames[f] \in Frame
    BY <1>3, TypeParts DEF GrabType
  <2>2. i0 \in 1 .. Parts
    BY <1>3, RemoteFbAssumption
  <2> HIDE DEF f, i0
  <2> QED BY <1>3, <1>4, <2>1, <2>2 DEF Frame
<1>8. Filling'
  <2>1. \A i \in 1 .. Parts - (c.left - 1) : frames'[f].by[i] = n
    <3> SUFFICES ASSUME NEW i \in 1 .. Parts - (c.left - 1) PROVE frames'[f].by[i] = n
      OBVIOUS
    <3>1. i \in 1 .. Parts /\ (i = i0 \/ i \in 1 .. Parts - c.left)
      BY <1>3, RemoteFbAssumption
    <3> QED BY <1>2, <1>7, <3>1 DEF Filling
  <2> HIDE DEF f, i0
  <2> QED BY <1>2, <1>3, <1>5, <1>6, <1>7, <2>1 DEF Filling, Filled
<1>9. OneRuns'
  BY <1>2, <1>5, <1>6 DEF OneRuns, CaptureInv
<1> QED BY <1>1, <1>2, <1>3, <1>5, <1>6, <1>7, <1>8, <1>9 DEF CaptureInv, Grabbing

\* The capture that runs is over: its frame becomes the current one.
LEMMA SwitchKeepsCapture ==
  ASSUME Inv, NEW n \in DOMAIN captures, Switch(n)
  PROVE  CaptureInv' /\ n = future /\ Grabbing /\ ~Grabbing' /\ frames'[curFrame] = frames[curFrame]
         /\ curFrame \in 0 .. 1 /\ \A f \in 0 .. 1 : frames'[f].by = frames[f].by
<1> USE DEF Inv
<1>1. /\ captures[n] \in Capture /\ Len(captures) \in Nat /\ DOMAIN captures = 1 .. Len(captures)
  BY TypeParts, ElementOfSeq, LenProperties DEF GrabType
<1>2. n = future /\ captures[n].pc = "grab" /\ captures[n].left = 0 /\ Filling
  BY <1>1 DEF Switch, CaptureInv, OneRuns
<1> DEFINE f == GetNextFrameId
<1>3. f \in 0 .. 1 /\ f # curFrame /\ curFrame \in 0 .. 1
  BY <1>2 DEF GetNextFrameId, Filling
<1>4. /\ frames' = [frames EXCEPT ![f].size = Parts] /\ UNCHANGED <<future, twoSteps>>
  BY DEF Switch, life
<1>5. /\ frames'[curFrame] = frames[curFrame] /\ frames'[f].size = Parts
      /\ \A g \in 0 .. 1 : frames'[g].by = frames[g].by
  <2>1. frames \in [0 .. 1 -> Frame]
    BY TypeParts DEF GrabType
  <2> HIDE DEF f
  <2> QED BY <1>3, <1>4, <2>1 DEF Frame
<1>6. \A i \in 1 .. Parts : frames'[f].by[i] = n
  <2>1. \A i \in 1 .. Parts : frames[f].by[i] = n
    BY <1>2, RemoteFbAssumption DEF Filling
  <2> HIDE DEF f
  <2> QED BY <1>3, <1>5, <2>1
<1>7. ASSUME NEW s, captures' = [captures EXCEPT ![n].pc = s]
      PROVE  /\ captures'[n].pc = s /\ Len(captures') = Len(captures)
             /\ \A m \in DOMAIN captures' : m # n => captures'[m] = captures[m]
             /\ DOMAIN captures' = DOMAIN captures
  BY <1>1, <1>7 DEF Capture
<1>8. OneRuns' /\ future' \in {0, Len(captures')}
  <2>1. \E s \in {"wrap", "rest"} : captures' = [captures EXCEPT ![n].pc = s]
    BY DEF Switch
  <2> QED BY <1>2, <1>4, <1>7, <2>1 DEF OneRuns, CaptureInv
<1>9. CASE twoSteps /\ curFrame + 1 > 1
  <2>1. captures'[n].pc = "wrap" /\ curFrame' = 2 /\ f = 0
    <3>1. captures' = [captures EXCEPT ![n].pc = "wrap"] /\ curFrame' = curFrame + 1
      BY <1>9 DEF Switch
    <3>2. captures'[n].pc = "wrap"
      BY <1>7, <3>1
    <3>3. curFrame = 1
      BY <1>3, <1>9
    <3> QED BY <3>1, <3>2, <3>3 DEF GetNextFrameId
  <2>2. Wrapping'
    BY <1>2, <1>4, <1>5, <1>6, <1>9, <2>1 DEF Wrapping, Filled
  <2> QED BY <1>1, <1>2, <1>3, <1>4, <1>5, <1>8, <2>1, <2>2 DEF CaptureInv, Grabbing
<1>10. CASE ~(twoSteps /\ curFrame + 1 > 1)
  <2>1. captures'[n].pc = "rest" /\ curFrame' = f
    <3>1. captures' = [captures EXCEPT ![n].pc = "rest"] /\ curFrame' = Switched(curFrame + 1)
      BY <1>10 DEF Switch
    <3>2. captures'[n].pc = "rest"
      BY <1>7, <3>1
    <3>3. curFrame' = IF curFrame + 1 > 1 THEN 0 ELSE curFrame + 1
      BY <3>1 DEF Switched
    <3> QED BY <1>3, <3>2, <3>3 DEF GetNextFrameId
  <2>2. Shows'
    <3> HIDE DEF f
    <3> QED BY <1>2, <1>3, <1>4, <1>5, <1>6, <2>1 DEF Shows, Filled
  <2> QED BY <1>1, <1>2, <1>3, <1>4, <1>5, <1>8, <2>1, <2>2 DEF CaptureInv, Grabbing
<1> QED BY <1>9, <1>10

\* A capture that was waited for is thrown away.
LEMMA WrapKeepsCapture ==
  ASSUME Inv, NEW n \in DOMAIN captures, Wrap(n) \/ Rested(n)
  PROVE  CaptureInv' /\ ~Grabbing /\ ~Grabbing' /\ frames' = frames
<1> USE DEF Inv
<1>1. /\ captures[n] \in Capture /\ Len(captures) \in Nat /\ DOMAIN captures = 1 .. Len(captures)
  BY TypeParts, ElementOfSeq, LenProperties DEF GrabType
<1>2. /\ n = future /\ captures[n].pc \in {"wrap", "rest"}
      /\ UNCHANGED <<frames, future, twoSteps>>
  BY <1>1 DEF Wrap, Rested, CaptureInv, OneRuns, life
<1>3. \E s \in {"rest", "done"} : captures' = [captures EXCEPT ![n].pc = s]
  BY DEF Wrap, Rested
<1>4. /\ captures'[n].pc \in {"rest", "done"} /\ Len(captures') = Len(captures)
      /\ \A m \in DOMAIN captures' : m # n => captures'[m] = captures[m]
      /\ DOMAIN captures' = DOMAIN captures
  BY <1>1, <1>3 DEF Capture
<1>5. OneRuns' /\ future' \in {0, Len(captures')}
  BY <1>2, <1>4 DEF OneRuns, CaptureInv
<1>6. Shows'
  <2>1. CASE Wrap(n)
    BY <1>1, <1>2, <2>1 DEF Wrap, CaptureInv, Wrapping, Shows, Filled, Switched
  <2>2. CASE Rested(n)
    BY <1>1, <1>2, <2>2 DEF Rested, CaptureInv, Shows, Filled
  <2> QED BY <2>1, <2>2
<1> QED BY <1>1, <1>2, <1>4, <1>5, <1>6 DEF CaptureInv, Grabbing

\* A page asks: a capture is started, or one is under way.
LEMMA BeginKeepsCapture ==
  ASSUME Inv, NEW p \in Pages, Begin(p)
  PROVE  /\ CaptureInv' /\ frames' = frames
         /\ \/ UNCHANGED <<captures, future, curFrame>>
            \/ Len(captures') = Len(captures) + 1
<1> USE DEF Inv
<1>1. Len(captures) \in Nat /\ DOMAIN captures = 1 .. Len(captures)
  BY TypeParts, LenProperties DEF GrabType
<1>2. UNCHANGED <<frames, curFrame, twoSteps>>
  BY DEF Begin
<1>3. CASE future = 0 \/ captures[future].pc = "done"
  <2> DEFINE c == [pc |-> "grab", left |-> Parts, into |-> 0]
             n == Len(captures) + 1
  <2>1. captures' = Append(captures, c) /\ future' = Len(captures')
    BY <1>3 DEF Begin
  <2>2. c \in Capture
    BY RemoteFbAssumption DEF Capture
  <2>3. /\ captures' \in Seq(Capture) /\ Len(captures') = n /\ captures'[n] = c
        /\ \A m \in 1 .. Len(captures) : captures'[m] = captures[m]
    BY <2>1, <2>2, AppendProperties, TypeParts DEF GrabType
  <2>4. OneRuns'
    <3>1. \A m \in DOMAIN captures : captures[m].pc = "done"
      BY <1>1, <1>3 DEF CaptureInv, OneRuns
    <3>2. DOMAIN captures' = 1 .. n
      BY <2>3, LenProperties
    <3> HIDE DEF c
    <3> QED BY <1>1, <2>1, <2>3, <3>1, <3>2 DEF OneRuns
  <2>5. Filling'
    <3>1. curFrame \in 0 .. 1 /\ (frames[curFrame].size = 0 \/ (Len(captures) > 0 /\ Filled(curFrame, Len(captures))))
      BY <1>1, <1>3 DEF CaptureInv, Unfilled, Shows
    <3>2. captures'[future'].left = Parts
      BY <2>1, <2>3
    <3>3. 1 .. Parts - captures'[future'].left = {} /\ ~(captures'[future'].left < Parts)
      BY <3>2, RemoteFbAssumption
    <3>4. future' - 1 = Len(captures) /\ (Len(captures) > 0 => future' > 1)
      BY <1>1, <2>1, <2>3
    <3> QED BY <1>2, <3>1, <3>3, <3>4 DEF Filling, Filled
  <2> QED BY <1>1, <1>2, <2>1, <2>3, <2>4, <2>5 DEF CaptureInv
<1>4. CASE ~(future = 0 \/ captures[future].pc = "done")
  <2>1. UNCHANGED <<captures, future>>
    BY <1>4 DEF Begin
  <2> QED BY <1>2, <2>1 DEF CaptureInv, OneRuns, Unfilled, Filling, Wrapping, Shows, Filled,
                            GetNextFrameId
<1> QED BY <1>3, <1>4

\* When the program stops, its captures are done.
LEMMA EndsKeepsCapture ==
  ASSUME Inv, Ends
  PROVE  CaptureInv' /\ Len(captures') = Len(captures)
<1> USE DEF Inv
<1>1. Len(captures') = Len(captures) /\ \A n \in DOMAIN captures' : captures'[n].pc = "done"
  BY CapturesEnd, TypeParts DEF Ends
<1>2. Unfilled'
  BY DEF Ends, Unfilled, NoFrame
<1> QED BY <1>1, <1>2 DEF Ends, CaptureInv, OneRuns

\* CaptureInv and its kin speak of these variables alone.
LEMMA ScreenSame ==
  ASSUME UNCHANGED <<grab, twoSteps>>
  PROVE  (CaptureInv <=> CaptureInv') /\ (Grabbing <=> Grabbing')
  BY DEF grab, CaptureInv, Grabbing, OneRuns, Unfilled, Filling, Wrapping, Shows, Filled,
         GetNextFrameId

\* The steps of the server and the pages that leave the screen alone.
Asks(p) == SendFrame(p) \/ SendPiece(p) \/ PollFrame(p) \/ Wait(p) \/ OnLoad(p) \/ OnError(p)

\* What a page does does not touch the buffers.
LEMMA AsksKeeps == ASSUME NEW p \in Pages, Asks(p) PROVE UNCHANGED <<grab, twoSteps>>
  BY DEF Asks, SendFrame, SendPiece, PollFrame, Wait, OnLoad, OnError, life

-----------------------------------------------------------------------------
(* The pages *)

\* The answer of page p is as PageInv says.
PageOK(p) ==
  /\ answer[p].frame = 2 => twoSteps
  /\ answer[p].since <= Len(captures)
  /\ Unspoilt(p) /\ answer[p].size # 0 =>
       \E k \in {answer[p].since - 1, answer[p].since} \ {0} : Intact(p, k)

\* PageInv, page by page.
LEMMA PageInvIs == PageInv <=> \A p \in Pages : page[p] = "sent" => PageOK(p)
  BY DEF PageInv, PageOK

\* An answer that is left alone stays as it is, if its frame does, too.
LEMMA AnswerKept ==
  ASSUME Inv, NEW p \in Pages, page[p] = "sent", page'[p] = "sent", answer'[p] = answer[p],
         UNCHANGED twoSteps, Len(captures') = Len(captures),
         \/ AllSent(p)
         \/ /\ answer[p].frame \in 0 .. 1 /\ (Grabbing => answer[p].frame = curFrame) =>
                  \A i \in 1 .. Parts : frames'[answer[p].frame].by[i] = frames[answer[p].frame].by[i]
            /\ Grabbing' => Grabbing /\ UNCHANGED curFrame
  PROVE  PageOK(p)'
<1>1. PageOK(p)
  BY PageInvIs DEF Inv
<1>2. AllSent(p)' <=> AllSent(p)
  BY DEF AllSent
<1>3. ASSUME NEW k, Intact(p, k), answer[p].frame # 2 PROVE Intact(p, k)'
  <2>1. answer[p].frame \in 0 .. 1
    <3>1. answer[p] \in Answer
      BY TypeParts DEF Inv, PollType
    <3> QED BY <1>3, <3>1 DEF Answer
  <2>2. CASE AllSent(p)
    BY <1>2, <1>3, <2>2 DEF Intact
  <2>3. CASE ~AllSent(p)
    <3>1. /\ \A i \in 1 .. Parts : frames'[answer[p].frame].by[i] = k
          /\ Grabbing' => answer[p].frame = curFrame'
      BY <1>3, <2>1, <2>3 DEF Intact
    <3> QED BY <1>3, <3>1 DEF Intact
  <2> QED BY <2>2, <2>3
<1>4. Unspoilt(p)' <=> Unspoilt(p)
  BY DEF Unspoilt
<1>5. Unspoilt(p) => answer[p].frame # 2
  BY DEF Unspoilt
<1> QED BY <1>1, <1>3, <1>4, <1>5 DEF PageOK

\* A thread writes where no answer of before it is, ends, or begins.
LEMMA ThreadKeepsPages ==
  ASSUME Inv, NEW n \in DOMAIN captures, PrepareFrame(n)
  PROVE  PageInv'
<1> SUFFICES ASSUME NEW p \in Pages, page'[p] = "sent" PROVE PageOK(p)'
  BY PageInvIs DEF PageInv, PageOK
<1>1. captures[n].pc = "grab" => curFrame # 2
  <2>1. Grab(n) \/ Switch(n) => curFrame \in 0 .. 1
    BY GrabKeepsCapture, SwitchKeepsCapture
  <2>2. Wrap(n) \/ Rested(n) => captures[n].pc # "grab"
    BY DEF Wrap, Rested
  <2> QED BY <2>1, <2>2 DEF PrepareFrame
<1>2. Len(captures') = Len(captures) /\ UNCHANGED <<page, answer, twoSteps>>
  BY <1>1, GrabStepType DEF Inv, life, poll
<1>3. CASE Grab(n)
  BY <1>2, <1>3, GrabKeepsCapture, AnswerKept DEF Grabbing, Grab
<1>4. CASE Switch(n)
  BY <1>2, <1>4, SwitchKeepsCapture, AnswerKept
<1>5. CASE Wrap(n) \/ Rested(n)
  BY <1>2, <1>5, WrapKeepsCapture, AnswerKept
<1> QED BY <1>3, <1>4, <1>5 DEF PrepareFrame

\* When the program stops, no page waits for the rest of an answer.
LEMMA EndsKeepsPages ==
  ASSUME Inv, Ends, UNCHANGED twoSteps
  PROVE  PageInv'
<1> SUFFICES ASSUME NEW p \in Pages, page'[p] = "sent" PROVE PageOK(p)'
  BY PageInvIs DEF PageInv, PageOK
<1>1. page[p] = "sent" /\ AllSent(p) /\ answer'[p] = answer[p]
  BY DEF Ends, Inv, AllSent, TypeOK
<1> QED BY <1>1, EndsKeepsCapture, AnswerKept

\* An answer of before a new thread is spoilt.
LEMMA BeginKeepsPages ==
  ASSUME Inv, NEW q \in Pages, Begin(q)
  PROVE  PageInv'
<1> SUFFICES ASSUME NEW p \in Pages, page'[p] = "sent" PROVE PageOK(p)'
  BY PageInvIs DEF PageInv, PageOK
<1>1. page[p] = "sent" /\ UNCHANGED <<answer, twoSteps, frames, curFrame>>
  BY TypeParts DEF Begin, Inv, PollType
<1>2. CASE UNCHANGED <<captures, future, curFrame>>
  BY <1>1, <1>2, AnswerKept DEF Grabbing
<1>3. CASE Len(captures') = Len(captures) + 1
  <2>1. PageOK(p) /\ answer[p].since \in Nat /\ Len(captures) \in Nat
    <3>1. answer[p] \in Answer
      BY TypeParts DEF Inv, PollType
    <3> QED BY <1>1, <3>1, PageInvIs, LenProperties, TypeParts DEF Inv, Answer, GrabType
  <2>2. answer'[p].since <= Len(captures') /\ ~Unspoilt(p)'
    BY <1>1, <1>3, <2>1 DEF PageOK, Unspoilt
  <2> QED BY <1>1, <2>1, <2>2 DEF PageOK
<1> QED BY <1>2, <1>3, BeginKeepsCapture

\* A new answer is of the frame shown.
LEMMA SendFrameKeepsPages ==
  ASSUME Inv, NEW q \in Pages, SendFrame(q)
  PROVE  PageInv'
<1> SUFFICES ASSUME NEW p \in Pages, page'[p] = "sent" PROVE PageOK(p)'
  BY PageInvIs DEF PageInv, PageOK
<1>1. UNCHANGED <<captures, future, curFrame, frames, twoSteps>>
  BY AsksKeeps DEF Asks, grab
<1>2. CASE p # q
  BY <1>1, <1>2, AnswerKept, TypeParts DEF SendFrame, Inv, PollType, Grabbing
<1>3. CASE p = q
  <2>1. PICK size \in GetFrame :
          answer'[p] = [frame |-> curFrame, size |-> size, got |-> <<>>, since |-> Len(captures)]
    BY <1>3, TypeParts DEF SendFrame, Inv, PollType
  <2>2. Len(captures) \in Nat /\ curFrame \in 0 .. 2
    BY TypeParts, LenProperties DEF Inv, GrabType
  <2>3. curFrame = 2 => twoSteps
    BY <2>2 DEF Inv, CaptureInv, Unfilled, Filling, Wrapping, Shows
  <2>4. ASSUME curFrame # 2, size # 0
        PROVE  \E k \in {Len(captures) - 1, Len(captures)} \ {0} :
                 \A i \in 1 .. Parts : frames[curFrame].by[i] = k
    <3>1. future # 0 /\ future = Len(captures) /\ frames[curFrame].size # 0
      BY <2>2, <2>4 DEF GetFrame, Inv, CaptureInv, Unfilled
    <3>2. CASE captures[future].pc = "grab"
      <4>1. future > 1 /\ Filled(curFrame, future - 1)
        BY <3>1, <3>2 DEF Inv, CaptureInv, Filling
      <4> QED BY <2>2, <3>1, <4>1 DEF Filled
    <3>3. CASE captures[future].pc # "grab"
      <4>1. Filled(curFrame, future)
        BY <2>4, <3>1, <3>3 DEF Inv, CaptureInv, Wrapping, Shows
      <4> QED BY <3>1, <4>1 DEF Filled
    <3> QED BY <3>2, <3>3
  <2>5. /\ answer'[p].frame = curFrame /\ answer'[p].size = size
        /\ answer'[p].got = <<>> /\ answer'[p].since = Len(captures)
    BY <2>1
  <2>6. ASSUME Unspoilt(p)', answer'[p].size # 0
        PROVE  \E k \in {answer'[p].since - 1, answer'[p].since} \ {0} : Intact(p, k)'
    <3>1. PICK k \in {Len(captures) - 1, Len(captures)} \ {0} :
            \A i \in 1 .. Parts : frames[curFrame].by[i] = k
      BY <2>4, <2>5, <2>6 DEF Unspoilt
    <3>2. Intact(p, k)'
      BY <1>1, <2>5, <3>1 DEF Intact
    <3> QED BY <2>5, <3>1, <3>2
  <2> QED BY <1>1, <2>2, <2>3, <2>5, <2>6 DEF PageOK
<1> QED BY <1>2, <1>3

\* The next piece is of the same capture.
LEMMA SendPieceKeepsPages ==
  ASSUME Inv, NEW q \in Pages, SendPiece(q)
  PROVE  PageInv'
<1> SUFFICES ASSUME NEW p \in Pages, page'[p] = "sent" PROVE PageOK(p)'
  BY PageInvIs DEF PageInv, PageOK
<1>1. UNCHANGED <<captures, future, curFrame, frames, twoSteps, page>>
  BY AsksKeeps DEF Asks, grab, SendPiece
<1>2. CASE p # q
  BY <1>1, <1>2, AnswerKept, TypeParts DEF SendPiece, Inv, PollType, Grabbing
<1>3. CASE p = q
  <2> DEFINE f == answer[p].frame
             i0 == Len(answer[p].got) + 1
             x == IF f = 2 THEN 0 ELSE frames[f].by[i0]
  <2>1. answer[p] \in Answer /\ i0 \in 1 .. Parts /\ ~AllSent(p) /\ PageOK(p)
    BY <1>3, SendPieceType, PageInvIs, TypeParts DEF SendPiece, Inv, PollType
  <2>2. /\ answer'[p].frame = f /\ answer'[p].size = answer[p].size
        /\ answer'[p].since = answer[p].since /\ answer'[p].got = Append(answer[p].got, x)
    BY <1>3, <2>1, TypeParts DEF SendPiece, Inv, PollType, Answer
  <2>3. ASSUME NEW k, Intact(p, k), f # 2 PROVE Intact(p, k)'
    <3>1. x = k
      BY <2>1, <2>3 DEF Intact
    <3>2. \A i \in DOMAIN Append(answer[p].got, x) : Append(answer[p].got, x)[i] = k
      <4>1. answer[p].got \in Seq(Nat)
        BY <2>1 DEF Answer
      <4> HIDE DEF x
      <4> QED BY <2>3, <3>1, <4>1 DEF Intact
    <3>3. \A i \in 1 .. Parts : frames'[answer'[p].frame].by[i] = k
      BY <1>1, <2>1, <2>2, <2>3 DEF Intact
    <3>4. Grabbing' => answer'[p].frame = curFrame'
      BY <1>1, <2>1, <2>2, <2>3 DEF Intact, Grabbing
    <3> HIDE DEF x, f
    <3> QED BY <2>2, <3>2, <3>3, <3>4 DEF Intact
  <2>4. Unspoilt(p)' <=> Unspoilt(p)
    BY <1>1, <2>2 DEF Unspoilt
  <2>5. Unspoilt(p) => f # 2
    BY DEF Unspoilt
  <2> QED BY <1>1, <2>1, <2>2, <2>3, <2>4, <2>5 DEF PageOK
<1> QED BY <1>2, <1>3

\* A page that starts over, or is done, does not touch the others.
LEMMA PagesKeepPages ==
  ASSUME Inv, NEW q \in Pages, PollFrame(q) \/ Wait(q) \/ OnLoad(q) \/ OnError(q)
  PROVE  PageInv'
<1> SUFFICES ASSUME NEW p \in Pages, page'[p] = "sent" PROVE PageOK(p)'
  BY PageInvIs DEF PageInv, PageOK
<1>1. UNCHANGED <<captures, future, curFrame, frames, twoSteps>>
  BY AsksKeeps DEF Asks, grab
<1>2. page[p] = "sent" /\ answer'[p] = answer[p]
  BY TypeParts DEF PollFrame, Wait, OnLoad, OnError, Inv, PollType
<1> QED BY <1>1, <1>2, AnswerKept DEF Grabbing

-----------------------------------------------------------------------------
(* Theorems *)

\* No page has asked and no capture runs.
LEMMA InitInv == Init => Inv
<1> SUFFICES ASSUME Init PROVE Inv
  OBVIOUS
<1>1. CaptureInv
  BY DEF Init, CaptureInv, OneRuns, Unfilled, NoFrame
<1>2. PageInv
  BY DEF Init, PageInv
<1> QED BY <1>1, <1>2, InitType DEF Inv

\* Every step of the program and of the pages.
LEMMA NextInv == Inv /\ [Next]_vars => Inv'
<1> SUFFICES ASSUME Inv, [Next]_vars PROVE Inv'
  OBVIOUS
<1> USE TypeParts, TypePartsNext
<1>1. RestType'
  BY RestKept DEF Inv
<1>2. CASE Apart
  <2>1. UNCHANGED <<grab, poll, twoSteps>>
    BY <1>2, ApartKeeps
  <2>2. GrabType' /\ PollType'
    BY <2>1 DEF Inv, GrabType, PollType, grab, poll
  <2>3. CaptureInv' /\ (Grabbing' <=> Grabbing)
    BY <2>1, ScreenSame DEF Inv
  <2>4. PageInv'
    <3> SUFFICES ASSUME NEW p \in Pages, page'[p] = "sent" PROVE PageOK(p)'
      BY PageInvIs DEF PageInv, PageOK
    <3> QED BY <2>1, <2>3, AnswerKept DEF grab, poll
  <2> QED BY <1>1, <2>2, <2>3, <2>4 DEF Inv
<1>3. CASE \E n \in DOMAIN captures : PrepareFrame(n)
  <2>1. PICK n \in DOMAIN captures : PrepareFrame(n)
    BY <1>3
  <2>2. CaptureInv' /\ (captures[n].pc = "grab" => curFrame # 2)
    <3>1. CASE Grab(n)
      BY <3>1, GrabKeepsCapture
    <3>2. CASE Switch(n)
      BY <3>2, SwitchKeepsCapture
    <3>3. CASE Wrap(n) \/ Rested(n)
      BY <3>3, WrapKeepsCapture DEF Wrap, Rested
    <3> QED BY <2>1, <3>1, <3>2, <3>3 DEF PrepareFrame
  <2>3. GrabType' /\ PollType'
    BY <2>1, <2>2, GrabStepType DEF Inv, PollType, poll
  <2> QED BY <1>1, <2>1, <2>2, <2>3, ThreadKeepsPages DEF Inv
<1>4. CASE StopCmd \/ \E p \in Pages : SegmentationFault(p)
  <2>1. Ends /\ UNCHANGED <<ready, timeouts, asks, twoSteps>>
    BY <1>4 DEF StopCmd, SegmentationFault
  <2> QED BY <1>1, <2>1, EndsType, EndsKeepsCapture, EndsKeepsPages DEF Inv
<1>5. CASE \E p \in Pages : Begin(p)
  BY <1>1, <1>5, BeginType, BeginKeepsCapture, BeginKeepsPages DEF Inv
<1>6. CASE \E p \in Pages : Asks(p)
  <2>1. PICK p \in Pages : Asks(p)
    BY <1>6
  <2>2. UNCHANGED <<grab, twoSteps>>
    BY <2>1, AsksKeeps
  <2>3. GrabType' /\ CaptureInv'
    BY <2>2, ScreenSame DEF Inv, GrabType, grab
  <2>4. PollType'
    BY <2>1, SendFrameType, SendPieceType, PageType DEF Asks, Inv
  <2>5. PageInv'
    BY <2>1, SendFrameKeepsPages, SendPieceKeepsPages, PagesKeepPages DEF Asks
  <2> QED BY <1>1, <2>3, <2>4, <2>5 DEF Inv
<1> QED BY <1>2, <1>3, <1>4, <1>5, <1>6 DEF Next, Apart, Asks

\* The inductive invariant of frames, captures and answers holds in every run of
\* the server.
THEOREM FramesInvariant == Spec => []Inv
  BY InitInv, NextInv, PTL DEF Spec

\* Every variable keeps its type; _cur_frame is never more than 2.
THEOREM TypeCorrect == Spec => []TypeOK
<1>1. Inv => TypeOK
  BY DEF Inv
<1> QED BY <1>1, FramesInvariant, PTL

\* What a page has got of an answer no later thread was started after is of one
\* capture, although nothing locks the two frames.
THEOREM AnswersAreWhole == Spec => []BodyIsOneCapture
<1>1. Inv => BodyIsOneCapture
  <2> SUFFICES ASSUME Inv, NEW p \in Pages, page[p] = "sent"
               PROVE  /\ answer[p].frame = 2 => twoSteps
                      /\ Unspoilt(p) => \A i, k \in DOMAIN answer[p].got :
                                answer[p].got[i] = answer[p].got[k] /\ answer[p].got[i] # 0
    BY DEF BodyIsOneCapture
  <2>1. PageOK(p) /\ answer[p] \in Answer /\ Len(answer[p].got) <= answer[p].size
    BY PageInvIs, TypeParts DEF Inv, PollType
  <2>2. CASE answer[p].size = 0
    <3>1. DOMAIN answer[p].got = {}
      BY <2>1, <2>2 DEF Answer
    <3> QED BY <2>1, <3>1 DEF PageOK
  <2>3. CASE answer[p].size # 0
    BY <2>1, <2>3 DEF PageOK, Intact
  <2> QED BY <2>2, <2>3
<1> QED BY <1>1, FramesInvariant, PTL

\* ... and that capture is the last one or the one before it.
THEOREM AnswersAreRecent == Spec => []AtMostOneBehind
<1>1. Inv => AtMostOneBehind
  <2> SUFFICES ASSUME Inv, NEW p \in Pages, page[p] = "sent", Unspoilt(p),
                      NEW i \in DOMAIN answer[p].got
               PROVE  answer[p].got[i] + 1 >= answer[p].since
    BY DEF AtMostOneBehind
  <2>1. PageOK(p) /\ answer[p] \in Answer /\ Len(answer[p].got) <= answer[p].size
    BY PageInvIs, TypeParts DEF Inv, PollType
  <2>2. answer[p].size # 0
    BY <2>1 DEF Answer
  <2>3. PICK k \in {answer[p].since - 1, answer[p].since} : answer[p].got[i] = k
    BY <2>1, <2>2 DEF PageOK, Intact
  <2> QED BY <2>1, <2>3 DEF Answer
<1> QED BY <1>1, FramesInvariant, PTL

\* A page that is alone waits for its answer before it asks again, and only
\* asking starts a thread.
Alone == \A p \in Pages : page[p] = "sent" => answer[p].since = Len(captures)

\* A page that is alone starts every capture itself.
LEMMA NextAlone ==
  ASSUME NEW P0, Pages = {P0}, Inv, Alone, [Next]_vars
  PROVE  Alone'
<1> SUFFICES ASSUME page'[P0] = "sent" PROVE answer'[P0].since = Len(captures')
  BY DEF Alone
<1>1. page \in [{P0} -> {"armed", "asked", "begun", "sent", "broken"}] /\ answer \in [{P0} -> Answer]
  BY TypeParts DEF Inv, PollType
<1>2. CASE Apart
  BY <1>2, ApartKeeps DEF Alone, grab, poll
<1>3. ASSUME NEW n \in DOMAIN captures, PrepareFrame(n) PROVE answer'[P0].since = Len(captures')
  <2>1. captures[n].pc = "grab" => curFrame # 2
    <3>1. Grab(n) \/ Switch(n) => curFrame \in 0 .. 1
      BY GrabKeepsCapture, SwitchKeepsCapture
    <3>2. Wrap(n) \/ Rested(n) => captures[n].pc # "grab"
      BY DEF Wrap, Rested
    <3> QED BY <1>3, <3>1, <3>2 DEF PrepareFrame
  <2> QED BY <1>3, <2>1, GrabStepType DEF Alone, Inv, poll
<1>4. CASE Ends
  BY <1>4, EndsKeepsCapture DEF Ends, Alone, AllSent
<1>5. CASE Begin(P0)
  BY <1>1, <1>5 DEF Begin
<1>6. CASE Asks(P0)
  <2>1. UNCHANGED captures
    BY <1>6, AsksKeeps DEF grab
  <2> QED BY <1>1, <1>6, <2>1 DEF Asks, SendFrame, SendPiece, PollFrame, Wait, OnLoad, OnError,
                                  Alone, Answer
<1> QED BY <1>2, <1>3, <1>4, <1>5, <1>6 DEF Next, Apart, Asks, StopCmd, SegmentationFault

\* SendFrame with one page: it never gets a mixture of two captures.
OneCapture ==
  \A p \in Pages : page[p] = "sent" /\ answer[p].frame # 2 =>
    \A i, k \in DOMAIN answer[p].got : answer[p].got[i] = answer[p].got[k]

\* With one page that asks, no answer is a mixture of two captures, whatever is
\* clicked, waited for or broken off meanwhile.
THEOREM OnePageIsNeverSpoilt ==
  ASSUME NEW P0, Pages = {P0}
  PROVE  Spec => []OneCapture
<1>1. Init => Alone
  BY DEF Init, Alone
<1>2. Inv /\ Alone /\ [Next]_vars => Alone'
  BY NextAlone
<1>3. Alone /\ BodyIsOneCapture => OneCapture
  BY DEF Alone, BodyIsOneCapture, OneCapture, Unspoilt
<1> QED BY <1>1, <1>2, <1>3, FramesInvariant, AnswersAreWhole, PTL DEF Spec

-----------------------------------------------------------------------------
(* Colours *)

\* Convert24ToPalette and Convert32ToPalette: 16 bits are wide enough, so that
\* the index of a pixel is what GetId gives it in 32.
THEOREM LanesSuffice == \A c \in Colour : Index(c) = GetId(c) /\ Index(c) \in Byte
<1> SUFFICES ASSUME NEW r \in Byte, NEW g \in Byte, NEW b \in Byte
             PROVE  Index(<<r, g, b>>) = GetId(<<r, g, b>>) /\ Index(<<r, g, b>>) \in Byte
  BY DEF Colour
<1> DEFINE w == r * 28 + g * 151 + b * 77
<1>1. Weighted(<<r, g, b>>, kRGBWeight) = w
  BY DEF Weighted, kRGBWeight
<1>2. w \in Nat /\ w < 65536
  BY DEF Byte
<1> HIDE DEF w
<1>3. w % 65536 = w /\ (w \div 256) % 256 = w \div 256
  BY <1>2
<1>4. w \div 256 \in Byte
  BY <1>2 DEF Byte
<1> QED BY <1>1, <1>3, <1>4 DEF Index, GetId

-----------------------------------------------------------------------------
(* The table of colours *)

\* The indices of the colours of kColors, in their order.
ColourIds ==
  <<0, 255, 193, 238, 136, 160, 225, 89, 120, 157, 166, 205,
    244, 148, 209, 108, 140, 91, 144, 68, 58, 190, 171>>

\* Each colour of the table has the index that ColourIds lists.
LEMMA ColourTable ==
  /\ DOMAIN kColors = 1 .. 23
  /\ \A n \in 1 .. 23 : kColors[n] \in Colour /\ GetId(kColors[n]) = ColourIds[n]
<1> DEFINE Entry(n, c, i) == /\ kColors[n] = c /\ ColourIds[n] = i
                             /\ c \in Colour /\ GetId(c) = i
<1> USE DEF kColors, RGBQuad, ColourIds, Colour, Byte, GetId, Weighted, kRGBWeight
<1>1. Entry(1, <<0, 0, 0>>, 0)
  OBVIOUS
<1>2. Entry(2, <<255, 255, 255>>, 255)
  OBVIOUS
<1>3. Entry(3, <<199, 195, 189>>, 193)
  OBVIOUS
<1>4. Entry(4, <<241, 240, 236>>, 238)
  OBVIOUS
<1>5. Entry(5, <<141, 140, 127>>, 136)
  OBVIOUS
<1>6. Entry(6, <<166, 165, 149>>, 160)
  OBVIOUS
<1>7. Entry(7, <<225, 225, 225>>, 225)
  OBVIOUS
<1>8. Entry(8, <<0, 75, 150>>, 89)
  OBVIOUS
<1>9. Entry(9, <<60, 76, 231>>, 120)
  OBVIOUS
<1>10. Entry(10, <<128, 129, 225>>, 157)
  OBVIOUS
<1>11. Entry(11, <<0, 153, 255>>, 166)
  OBVIOUS
<1>12. Entry(12, <<0, 218, 255>>, 205)
  OBVIOUS
<1>13. Entry(13, <<156, 255, 255>>, 244)
  OBVIOUS
<1>14. Entry(14, <<119, 187, 85>>, 148)
  OBVIOUS
<1>15. Entry(15, <<119, 255, 153>>, 209)
  OBVIOUS
<1>16. Entry(16, <<185, 128, 41>>, 108)
  OBVIOUS
<1>17. Entry(17, <<255, 191, 0>>, 140)
  OBVIOUS
<1>18. Entry(18, <<255, 0, 210>>, 91)
  OBVIOUS
<1>19. Entry(19, <<219, 103, 199>>, 144)
  OBVIOUS
<1>20. Entry(20, <<94, 73, 52>>, 68)
  OBVIOUS
<1>21. Entry(21, <<80, 62, 44>>, 58)
  OBVIOUS
<1>22. Entry(22, <<255, 225, 99>>, 190)
  OBVIOUS
<1>23. Entry(23, <<0, 165, 246>>, 171)
  OBVIOUS
<1>24. DOMAIN kColors = 1 .. 23
  OBVIOUS
<1> HIDE DEF Entry, kColors, RGBQuad, ColourIds, Colour, Byte, GetId, Weighted, kRGBWeight
<1>25. ASSUME NEW n \in 1 .. 8 PROVE \E c, i : Entry(n, c, i)
  BY <1>1, <1>2, <1>3, <1>4, <1>5, <1>6, <1>7, <1>8
<1>26. ASSUME NEW n \in 9 .. 16 PROVE \E c, i : Entry(n, c, i)
  BY <1>9, <1>10, <1>11, <1>12, <1>13, <1>14, <1>15, <1>16
<1>27. ASSUME NEW n \in 17 .. 23 PROVE \E c, i : Entry(n, c, i)
  BY <1>17, <1>18, <1>19, <1>20, <1>21, <1>22, <1>23
<1>28. ASSUME NEW n \in 1 .. 23 PROVE \E c, i : Entry(n, c, i)
  <2>1. n \in 1 .. 8 \/ n \in 9 .. 16 \/ n \in 17 .. 23
    OBVIOUS
  <2> QED BY <2>1, <1>25, <1>26, <1>27
<1> QED BY <1>24, <1>28 DEF Entry

\* No two colours of the table have one index.
LEMMA ColourIdsDiffer == \A n, k \in 1 .. 23 : ColourIds[n] = ColourIds[k] => n = k
  BY DEF ColourIds

\* A page that has got a whole picture shows each colour regigraf draws with as it is:
\* the assembler's index of a colour of the table selects this colour of the palette,
\* since no other colour of the table is put there.
THEOREM ColoursAreShown == Spec => []ColoursShown
<1>1. ASSUME NEW n \in DOMAIN kColors PROVE Shown(kColors[n]) = kColors[n]
  <2> DEFINE i == GetId(kColors[n])
  <2>1. Index(kColors[n]) = i /\ i \in Byte
    BY <1>1, ColourTable, LanesSuffice
  <2>2. At(i) = {n}
    BY <1>1, ColourTable, ColourIdsDiffer DEF At
  <2>3. (CHOOSE k \in At(i) : \A m \in At(i) : m <= k) = n
    BY <2>2, <1>1, ColourTable
  <2>4. palette[i] = kColors[n]
    BY <2>1, <2>2, <2>3 DEF palette
  <2> QED BY <2>1, <2>4 DEF Shown
<1>2. ColoursShown
  BY <1>1 DEF ColoursShown
<1> QED BY <1>2, PTL
=============================================================================
