---------------------------- MODULE YModemProofs ----------------------------
(***************************************************************************)
(* Proofs about YModem, for files of any length and any number of packet   *)
(* numbers, whatever is garbled or asked for twice.                        *)
(*                                                                         *)
(* Packets are numbered modulo Numbers, so a packet may be taken for       *)
(* another one that is Numbers away.  It never is, because SendFile is     *)
(* never far enough ahead of the receiver: it goes on only for an          *)
(* acknowledgement, and SpliceInv bounds how many of them can be on their  *)
(* way (AtMost).  The closing packet has number 0 whatever went before: it *)
(* is not taken for a frame, because an EOT is read first (Ended).         *)
(*                                                                         *)
(* ReleaseInv follows the two EOTs and the closing packet to the receiver, *)
(* if nothing was garbled; Lockstep says where both sides are in a         *)
(* transfer without any disturbance.                                       *)
(***************************************************************************)
EXTENDS YModem, ModArith, SequenceTheorems

-----------------------------------------------------------------------------
(* Frames, numbers and acknowledgements *)

\* How many frames were received; what is at place i of the line.
Got == Len(rcv.file)
IsSTX(i) == toBoard[i].kind = "STX"
IsEOT(i) == toBoard[i].kind = "EOT"
Closing == Frames + 1
IsClosing(i) == IsSTX(i) /\ toBoard[i].data = Closing

\* At most n acknowledgements are on their way in q.
AtMost(q, n) ==
  /\ n \in 0 .. 2
  /\ n = 0 => \A i \in DOMAIN q : q[i] # "ACK"
  /\ n = 1 => \A i, k \in DOMAIN q : q[i] = "ACK" /\ q[k] = "ACK" => i = k
  /\ n = 2 => \A i, k, l \in DOMAIN q :
                q[i] = "ACK" /\ q[k] = "ACK" /\ q[l] = "ACK" => i = k \/ k = l \/ i = l

Sending == pc \in {"firstAck", "firstRequest", "ack"}

\* The number that is next is the one of the frame that is next.
NumberIsOwn ==
  /\ Sending => num = (sent + 1) % Numbers
  /\ pc = "request" => num = 0 /\ toBoard = <<>> /\ rcv.state = "ask"
  /\ pc \in {"request", "firstAck", "firstRequest"} => sent = 0

\* Packets have the numbers of their frames, the closing packet is the last ...
Numbered ==
  \A i \in DOMAIN toBoard : IsSTX(i) =>
    \/ toBoard[i].data <= sent /\ toBoard[i].num = toBoard[i].data % Numbers
    \/ /\ toBoard[i].data = Closing /\ toBoard[i].num = 0
       /\ i = Len(toBoard) /\ pc \in {"closeAck", "done"}

\* ... and they are in order.
Increasing ==
  \A i, k \in DOMAIN toBoard : IsSTX(i) /\ IsSTX(k) /\ i < k => toBoard[i].data < toBoard[k].data

\* The receiver has acknowledged nothing yet.
Asking ==
  rcv.state = "ask" =>
    /\ rcv.file = <<>> /\ sent <= 1 /\ AtMost(toHost, 0)

\* SendFile is at most two frames ahead, by the acknowledgements on their way.
Receiving ==
  rcv.state = "data" =>
    /\ rcv.next = Got + 1 /\ Got <= sent /\ sent <= Got + 2
    /\ pc \in {"firstAck", "firstRequest"} => AtMost(toHost, 1)
    /\ pc = "ack" => AtMost(toHost, Got + 2 - sent)
    /\ \A i \in DOMAIN toBoard : IsSTX(i) => toBoard[i].data > Got

Ending == pc \in {"eot1", "eot2", "closeRequest"}

\* Between a frame and the closing packet there is an EOT.
Ended ==
  /\ Ending => \A i \in DOMAIN toBoard : IsSTX(i) => \E k \in DOMAIN toBoard : i < k /\ IsEOT(k)
  /\ Ending /\ rcv.state = "data" => \E k \in DOMAIN toBoard : IsEOT(k)
  /\ \A i, l \in DOMAIN toBoard : IsSTX(i) /\ i < l /\ IsClosing(l) =>
       \E k \in DOMAIN toBoard : i < k /\ k < l /\ IsEOT(k)
  /\ rcv.state = "data" => \A l \in DOMAIN toBoard : IsClosing(l) =>
       \E k \in DOMAIN toBoard : k < l /\ IsEOT(k)

SpliceInv == /\ TypeOK /\ NumberIsOwn /\ Numbered /\ Increasing /\ Asking /\ Receiving /\ Ended
             /\ NoSplice

-----------------------------------------------------------------------------
(* The way out of the session *)

\* An EOT is still to come, or both.
EotLeft  == \E i \in DOMAIN toBoard : IsEOT(i)
EotsLeft == \E i, k \in DOMAIN toBoard : i < k /\ IsEOT(i) /\ IsEOT(k)

Closed == pc = "closeAck" \/ (pc = "done" /\ result)

Twice == pc \in {"eot2", "closeRequest"} \/ Closed

AllGood   == \A i \in DOMAIN toBoard : toBoard[i].good
NameFirst == rcv.state = "ask" /\ pc # "request" => toBoard # <<>> /\ toBoard[1] = Frame(0, 0)
EotToCome ==
  /\ rcv.state \in {"ask", "data"} /\ pc = "eot1" => EotLeft
  /\ rcv.state \in {"ask", "data"} /\ Twice => EotsLeft
  /\ rcv.state = "eot" /\ Twice => EotLeft
ClosingLast ==
  Closed /\ rcv.state # "over" => toBoard # <<>> /\ toBoard[Len(toBoard)] = Frame(0, Closing)

ReleaseInv == garbled = 0 => AllGood /\ NameFirst /\ EotToCome /\ ClosingLast

-----------------------------------------------------------------------------
(* A transfer without disturbance *)

Quiet == garbled = 0 /\ asks = 0 /\ noise <= Waits

AtName ==
  \/ rcv.state = "ask" /\ toBoard = <<Frame(0, 0)>> /\ toHost = <<>>
  \/ rcv.state = "data" /\ toBoard = <<>> /\ toHost = <<"ACK", "C">>

\* The request was not waited for, and is read as the first answer.
AtNameLate ==
  \/ rcv.state = "ask" /\ toBoard = <<Frame(0, 0)>> /\ toHost = <<"C">>
  \/ rcv.state = "data" /\ toBoard = <<>> /\ toHost = <<"C", "ACK", "C">>

AtFrame ==
  /\ rcv.state = "data" /\ rcv.next = Got + 1
  /\ \/ toBoard = <<Frame(sent % Numbers, sent)>> /\ toHost = <<>> /\ Got + 1 = sent
     \/ toBoard = <<>> /\ toHost = <<"ACK">> /\ Got = sent

Lockstep ==
  Quiet =>
    /\ pc = "request" =>
         /\ toBoard = <<>> /\ rcv = [state |-> "ask", next |-> 0, file |-> <<>>]
         /\ Len(toHost) = noise + 1 - tries /\ tries <= noise
         /\ \A i \in DOMAIN toHost : toHost[i] = IF i = Len(toHost) THEN "C" ELSE "other"
    /\ pc = "firstAck" =>
         rcv.file = <<>> /\ (rcv.state = "data" => rcv.next = 1) /\ (AtName \/ AtNameLate)
    /\ pc = "firstRequest" =>
         /\ rcv.file = <<>> /\ (rcv.state = "data" => rcv.next = 1)
         /\ \/ rcv.state = "data" /\ toBoard = <<>> /\ toHost = <<"C">>
            \/ AtName
    /\ pc = "ack" => AtFrame
    /\ Ending \/ Closed =>
         /\ Got = Frames /\ rcv.state # "ask"
         /\ rcv.state = "data" => toBoard # <<>> /\ Head(toBoard).kind = "EOT"

Inv == SpliceInv /\ ReleaseInv /\ Lockstep

-----------------------------------------------------------------------------
(* Types *)

\* The packets SendFile writes.
LEMMA PacketsType ==
  /\ \A n \in 0 .. Numbers - 1, d \in 0 .. Frames + 1 : Frame(n, d) \in Packets
  /\ EOT \in Packets /\ \A n \in 0 .. Numbers - 1 : After(n) \in 0 .. Numbers - 1
  /\ 0 \in 0 .. Numbers - 1 /\ 0 \in 0 .. Frames + 1 /\ 1 \in 0 .. Frames + 1 /\ Closing \in 0 .. Frames + 1
  BY YModemAssumption DEF Frame, EOT, Packets, After, Closing

\* The answers of the receiver.
LEMMA AnswersType ==
  ASSUME toHost \in Seq(Bytes)
  PROVE  /\ toHost # <<>> => Tail(toHost) \in Seq(Bytes)
         /\ toHost \o <<"ACK", "C">> \in Seq(Bytes) /\ toHost \o <<"ACK">> \in Seq(Bytes)
         /\ toHost \o <<"NAK">> \in Seq(Bytes) /\ Append(toHost, "C") \in Seq(Bytes)
         /\ <<"other">> \o toHost \in Seq(Bytes)
<1>1. /\ <<"ACK", "C">> \in Seq(Bytes) /\ <<"ACK">> \in Seq(Bytes) /\ <<"NAK">> \in Seq(Bytes)
      /\ <<"other">> \in Seq(Bytes) /\ "C" \in Bytes
  BY DEF Bytes
<1> QED BY <1>1

StageType == pc \in Waiting \cup {"done"} /\ result \in BOOLEAN

CountType == tries \in 0 .. Waits - 1 /\ num \in 0 .. Numbers - 1 /\ sent \in 0 .. Frames

SenderType == StageType /\ CountType

RcvType ==
  rcv \in [state : {"ask", "data", "eot", "close", "over"}, next : Nat, file : Seq(0 .. Frames + 1)]

FaultsType == noise \in 0 .. MaxNoise /\ asks \in 0 .. MaxAsks /\ garbled \in 0 .. MaxGarbled

\* TypeOK in the parts the steps share ...
LEMMA TypeParts ==
  TypeOK <=> SenderType /\ toBoard \in Seq(Packets) /\ toHost \in Seq(Bytes) /\ RcvType /\ FaultsType
  BY DEF TypeOK, SenderType, StageType, CountType, RcvType, FaultsType

\* ... of the next state, too.
LEMMA TypePartsNext ==
  SenderType' /\ toBoard' \in Seq(Packets) /\ toHost' \in Seq(Bytes) /\ RcvType' /\ FaultsType'
    => TypeOK'
  BY DEF TypeOK, SenderType, StageType, CountType, RcvType, FaultsType

\* No byte was read yet.
LEMMA InitType == Init => TypeOK
<1> SUFFICES ASSUME Init PROVE TypeOK
  OBVIOUS
<1>1. StageType
  BY DEF Init, StageType, Waiting
<1>5. CountType
  BY YModemAssumption DEF Init, CountType
<1>2. toBoard \in Seq(Packets) /\ toHost \in Seq(Bytes)
  BY DEF Init, Bytes
<1>3. RcvType
  <2>1. <<>> \in Seq(0 .. Frames + 1)
    OBVIOUS
  <2> QED BY <2>1 DEF Init, RcvType
<1>4. FaultsType
  BY YModemAssumption DEF Init, FaultsType
<1> QED BY <1>1, <1>2, <1>3, <1>4, <1>5, TypeParts DEF SenderType

\* The steps of SendFile, ...
LEMMA SendFileType == TypeOK /\ SendFile => TypeOK'
<1> SUFFICES ASSUME TypeOK, SendFile PROVE TypeOK'
  OBVIOUS
<1> USE TypeParts
<1>1. toHost' \in Seq(Bytes)
  BY AnswersType DEF SendFile, WaitForRequest, FirstAck, FirstRequest, Ack, Eot1, Eot2,
                     CloseRequest, CloseAck, Reads
<1>2. RcvType' /\ FaultsType'
  BY DEF SendFile, WaitForRequest, FirstAck, FirstRequest, Ack, Eot1, Eot2,
                     CloseRequest, CloseAck, RcvType, FaultsType, faults
<1>3. SenderType'
  <2>1. StageType'
    BY DEF SendFile, WaitForRequest, FirstAck, FirstRequest, Ack, Eot1, Eot2,
           CloseRequest, CloseAck, SenderType, StageType, Waiting
  <2>2. num' = num \/ num' = After(num) \/ num' = After(0)
    BY DEF SendFile, WaitForRequest, FirstAck, FirstRequest, Ack, Eot1, Eot2,
           CloseRequest, CloseAck, Write
  <2>3. num' \in 0 .. Numbers - 1
    BY <2>2, PacketsType DEF SenderType, CountType
  <2>4. sent' = sent \/ sent' = 1 \/ (sent < Frames /\ sent' = sent + 1)
    BY DEF SendFile, WaitForRequest, FirstAck, FirstRequest, Ack, Eot1, Eot2,
           CloseRequest, CloseAck
  <2>5. tries' = tries \/ (tries # Waits - 1 /\ tries' = tries + 1)
    BY DEF SendFile, WaitForRequest, FirstAck, FirstRequest, Ack, Eot1, Eot2,
           CloseRequest, CloseAck
  <2>6. sent' \in 0 .. Frames
    BY <2>4, YModemAssumption DEF SenderType, CountType
  <2>7. tries' \in 0 .. Waits - 1
    BY <2>5, YModemAssumption, SMTT(30) DEF SenderType, CountType
  <2> QED BY <2>1, <2>3, <2>6, <2>7 DEF SenderType, CountType
<1>4. toBoard' \in Seq(Packets)
  <2>1. \/ toBoard' = toBoard \/ toBoard' = Append(toBoard, EOT)
        \/ \E n \in 0 .. Numbers - 1, d \in 0 .. Frames + 1 : toBoard' = Append(toBoard, Frame(n, d))
    <3>1. num \in 0 .. Numbers - 1
      BY DEF SenderType, CountType
    <3>2. sent \in 0 .. Frames /\ (sent < Frames => sent + 1 \in 0 .. Frames + 1)
      BY YModemAssumption DEF SenderType, CountType
    <3>3. CASE WaitForRequest \/ FirstRequest
      BY <3>1, <3>3, PacketsType DEF WaitForRequest, FirstRequest, Write
    <3>4. CASE Ack
      BY <3>1, <3>2, <3>4 DEF Ack, Write
    <3>5. CASE CloseRequest
      BY <3>5, PacketsType DEF CloseRequest, Closing
    <3>6. CASE FirstAck \/ Eot1 \/ Eot2 \/ CloseAck
      BY <3>6 DEF FirstAck, Eot1, Eot2, CloseAck, Write
    <3> QED BY <3>3, <3>4, <3>5, <3>6 DEF SendFile
  <2>2. \A p \in Packets : Append(toBoard, p) \in Seq(Packets)
    OBVIOUS
  <2> QED BY <2>1, <2>2, PacketsType
<1> QED BY <1>1, <1>2, <1>3, <1>4, TypePartsNext

\* GetFrame, without its cases.
LEMMA GetFrameIs ==
  ASSUME TypeOK, GetFrame
  PROVE  /\ toBoard # <<>> /\ rcv.state = "data" /\ Head(toBoard) \in Packets
         /\ \/ /\ Head(toBoard).kind = "EOT"
               /\ Answers(<<"NAK">>, [rcv EXCEPT !.state = "eot"])
            \/ /\ Head(toBoard).kind = "STX" /\ Head(toBoard).num = rcv.next % Numbers
               /\ Answers(<<"ACK">>, [rcv EXCEPT !.next = @ + 1,
                                                 !.file = Append(@, Head(toBoard).data)])
            \/ /\ Head(toBoard).kind = "STX"
               /\ ~(Head(toBoard).good /\ Head(toBoard).num = rcv.next % Numbers)
               /\ Answers(<<"NAK">>, rcv)
<1>1. toBoard # <<>> /\ rcv.state = "data" /\ Head(toBoard) \in Packets
  BY DEF GetFrame, TypeOK
<1>2. Head(toBoard).kind = "STX" \/ Head(toBoard).kind = "EOT"
  BY <1>1 DEF Packets
<1> QED BY <1>1, <1>2 DEF GetFrame

\* ... of the receiver ...
LEMMA ReceiverType == TypeOK /\ Receiver => TypeOK'
<1> SUFFICES ASSUME TypeOK, Receiver PROVE TypeOK'
  OBVIOUS
<1> USE TypeParts
<1>5. \/ AskAgain
      \/ toBoard # <<>> /\ \E b \in {<<"ACK", "C">>, <<"ACK">>, <<"NAK">>} : Answers(b, rcv')
  <2>1. CASE GetName
    BY <2>1 DEF GetName, Answers
  <2>2. CASE GetFrame
    BY <2>2, GetFrameIs DEF Answers
  <2>3. CASE GetEnd
    BY <2>3 DEF GetEnd, Answers
  <2>4. CASE GetClosing
    BY <2>4 DEF GetClosing, Answers
  <2> QED BY <2>1, <2>2, <2>3, <2>4 DEF Receiver
<1>1. toHost' \in Seq(Bytes)
  BY <1>5, AnswersType DEF AskAgain, Answers
<1>2. toBoard' \in Seq(Packets)
  <2>1. toBoard' = toBoard \/ (toBoard # <<>> /\ toBoard' = Tail(toBoard))
    BY <1>5 DEF AskAgain, Answers
  <2> QED BY <2>1
<1>3. SenderType' /\ FaultsType'
  <2>1. SenderType'
    BY <1>5 DEF AskAgain, Answers, sender, SenderType, StageType, CountType
  <2>2. asks' = asks \/ (asks < MaxAsks /\ asks' = asks + 1)
    BY <1>5 DEF AskAgain, Answers, faults
  <2>3. UNCHANGED <<noise, garbled>>
    BY <1>5 DEF AskAgain, Answers, faults
  <2> QED BY <2>1, <2>2, <2>3, YModemAssumption DEF FaultsType
<1>4. RcvType'
  <2>1. CASE GetName
    <3>1. rcv' = rcv \/ rcv' = [rcv EXCEPT !.state = "data", !.next = 1]
      BY <2>1 DEF GetName, Answers
    <3>2. "data" \in {"ask", "data", "eot", "close", "over"} /\ 1 \in Nat
      OBVIOUS
    <3> QED BY <3>1, <3>2 DEF RcvType
  <2>2. CASE GetFrame
    <3>1. Head(toBoard) \in Packets
      BY <2>2, GetFrameIs
    <3>2. Append(rcv.file, Head(toBoard).data) \in Seq(0 .. Frames + 1) /\ rcv.next + 1 \in Nat
      BY <3>1 DEF Packets, RcvType
    <3>3. \/ rcv' = rcv \/ rcv' = [rcv EXCEPT !.state = "eot"]
          \/ rcv' = [rcv EXCEPT !.next = @ + 1, !.file = Append(@, Head(toBoard).data)]
      BY <2>2, GetFrameIs DEF Answers
    <3> QED BY <3>2, <3>3 DEF RcvType
  <2>3. CASE GetEnd \/ GetClosing \/ AskAgain
    BY <2>3 DEF GetEnd, GetClosing, AskAgain, Answers, RcvType
  <2> QED BY <2>1, <2>2, <2>3 DEF Receiver
<1> QED BY <1>1, <1>2, <1>3, <1>4, TypePartsNext

\* ... and of the line keep to the types.
LEMMA LineType == TypeOK /\ (Noise \/ Garble) => TypeOK'
<1> SUFFICES ASSUME TypeOK, Noise \/ Garble PROVE TypeOK'
  OBVIOUS
<1> USE TypeParts
<1>1. SenderType' /\ RcvType' /\ FaultsType'
  <2>1. SenderType' /\ RcvType'
    BY DEF Noise, Garble, SenderType, StageType, CountType, RcvType, sender
  <2>2. FaultsType'
    BY YModemAssumption, SMTT(30) DEF Noise, Garble, FaultsType
  <2> QED BY <2>1, <2>2
<1>2. toHost' \in Seq(Bytes)
  BY AnswersType DEF Noise, Garble
<1>3. toBoard' \in Seq(Packets)
  <2>1. ASSUME NEW i \in DOMAIN toBoard, toBoard' = [toBoard EXCEPT ![i].good = FALSE]
        PROVE  toBoard' \in Seq(Packets)
    <3>1. i \in 1 .. Len(toBoard) /\ toBoard[i] \in Packets
      OBVIOUS
    <3>2. [toBoard[i] EXCEPT !.good = FALSE] \in Packets
      BY <3>1 DEF Packets
    <3>3. toBoard' = [toBoard EXCEPT ![i] = [toBoard[i] EXCEPT !.good = FALSE]]
      BY <2>1
    <3> HIDE DEF Packets
    <3> QED BY <3>1, <3>2, <3>3, ExceptSeq
  <2> QED BY <2>1 DEF Noise, Garble
<1> QED BY <1>1, <1>2, <1>3, TypePartsNext

\* Every step does.
LEMMA NextType == TypeOK /\ [Next]_vars => TypeOK'
<1>1. TypeOK /\ UNCHANGED vars => TypeOK'
  BY DEF vars, sender, faults, TypeOK
<1> QED BY <1>1, SendFileType, ReceiverType, LineType DEF Next

-----------------------------------------------------------------------------
(* The line *)

\* A packet is written to the line.
LEMMA Written ==
  ASSUME toBoard \in Seq(Packets), NEW p \in Packets, toBoard' = Append(toBoard, p)
  PROVE  /\ Len(toBoard) \in Nat /\ Len(toBoard') = Len(toBoard) + 1
         /\ DOMAIN toBoard = 1 .. Len(toBoard) /\ DOMAIN toBoard' = 1 .. Len(toBoard) + 1
         /\ \A i \in 1 .. Len(toBoard) : toBoard'[i] = toBoard[i]
         /\ toBoard'[Len(toBoard) + 1] = p
  BY AppendProperties

\* A packet is read from it.
LEMMA Taken ==
  ASSUME toBoard \in Seq(Packets), toBoard # <<>>, toBoard' = Tail(toBoard)
  PROVE  /\ Len(toBoard) \in Nat /\ Len(toBoard) >= 1 /\ Len(toBoard') = Len(toBoard) - 1
         /\ DOMAIN toBoard = 1 .. Len(toBoard) /\ DOMAIN toBoard' = 1 .. Len(toBoard) - 1
         /\ \A i \in 1 .. Len(toBoard) - 1 : toBoard'[i] = toBoard[i + 1]
         /\ Head(toBoard) = toBoard[1]
<1>1. Len(toBoard) \in Nat /\ DOMAIN toBoard = 1 .. Len(toBoard) /\ Len(toBoard) >= 1
  BY LenProperties, EmptySeq
<1>2. /\ Tail(toBoard) \in Seq(Packets) /\ Len(Tail(toBoard)) = Len(toBoard) - 1
      /\ \A i \in 1 .. Len(Tail(toBoard)) : Tail(toBoard)[i] = toBoard[i + 1]
  BY HeadTailProperties
<1> QED BY <1>1, <1>2

\* It stays as it is, but for the checksums.
SameLine ==
  /\ DOMAIN toBoard' = DOMAIN toBoard /\ Len(toBoard') = Len(toBoard)
  /\ \A i \in DOMAIN toBoard :
       /\ toBoard'[i].kind = toBoard[i].kind /\ toBoard'[i].data = toBoard[i].data
       /\ toBoard'[i].num = toBoard[i].num

\* A packet that is garbled keeps its place and its number.
LEMMA GarbledLine == TypeOK /\ Garble => SameLine
<1> SUFFICES ASSUME TypeOK, Garble PROVE SameLine
  OBVIOUS
<1>1. PICK k \in DOMAIN toBoard : toBoard' = [toBoard EXCEPT ![k].good = FALSE]
  BY DEF Garble
<1>2. toBoard \in Seq(Packets)
  BY TypeParts
<1>3. k \in 1 .. Len(toBoard) /\ toBoard[k] \in Packets
  BY <1>2
<1>4. [toBoard[k] EXCEPT !.good = FALSE] \in Packets
  BY <1>3 DEF Packets
<1>5. toBoard' = [toBoard EXCEPT ![k] = [toBoard[k] EXCEPT !.good = FALSE]]
  BY <1>1
<1>6. /\ toBoard' \in Seq(Packets) /\ Len(toBoard') = Len(toBoard)
      /\ \A i \in 1 .. Len(toBoard) :
           toBoard'[i] = IF i = k THEN [toBoard[k] EXCEPT !.good = FALSE] ELSE toBoard[i]
  BY <1>2, <1>3, <1>4, <1>5, ExceptSeq
<1>7. DOMAIN toBoard' = DOMAIN toBoard /\ DOMAIN toBoard = 1 .. Len(toBoard)
  BY <1>2, <1>6, LenProperties
<1>8. /\ [toBoard[k] EXCEPT !.good = FALSE].kind = toBoard[k].kind
      /\ [toBoard[k] EXCEPT !.good = FALSE].data = toBoard[k].data
      /\ [toBoard[k] EXCEPT !.good = FALSE].num = toBoard[k].num
  BY <1>3 DEF Packets
<1> QED BY <1>6, <1>7, <1>8 DEF SameLine

-----------------------------------------------------------------------------
(* Acknowledgements on their way *)

\* A byte is read.
LEMMA AtMostRead ==
  ASSUME NEW q \in Seq(Bytes), q # <<>>, NEW n \in Int, AtMost(q, n)
  PROVE  AtMost(Tail(q), n) /\ (Head(q) = "ACK" => n >= 1 /\ AtMost(Tail(q), n - 1))
<1>1. /\ Len(q) \in Nat /\ Len(q) >= 1 /\ DOMAIN q = 1 .. Len(q) /\ DOMAIN Tail(q) = 1 .. Len(q) - 1
      /\ Head(q) = q[1] /\ \A i \in 1 .. Len(q) - 1 : Tail(q)[i] = q[i + 1]
  <2>1. Len(q) \in Nat /\ DOMAIN q = 1 .. Len(q) /\ Len(q) >= 1
    BY LenProperties, EmptySeq
  <2>2. /\ Tail(q) \in Seq(Bytes) /\ Len(Tail(q)) = Len(q) - 1
        /\ \A i \in 1 .. Len(Tail(q)) : Tail(q)[i] = q[i + 1]
    BY HeadTailProperties
  <2> QED BY <2>1, <2>2
<1> DEFINE r == Tail(q)
<1>2. \A i \in DOMAIN r : i + 1 \in DOMAIN q /\ i + 1 # 1 /\ r[i] = q[i + 1]
  BY <1>1
<1>3. \A i, k \in DOMAIN r : i + 1 = k + 1 => i = k
  BY <1>1
<1>4. 1 \in DOMAIN q /\ Head(q) = q[1]
  BY <1>1
<1> HIDE DEF r
<1>5. AtMost(r, n)
  BY <1>2, <1>3 DEF AtMost
<1>6. CASE Head(q) = "ACK"
  <2>1. n # 0
    BY <1>4, <1>6 DEF AtMost
  <2>2. n - 1 \in 0 .. 2 /\ (n = 1 \/ n = 2)
    BY <2>1 DEF AtMost
  <2>3. CASE n = 1
    BY <1>2, <1>4, <1>6, <2>3 DEF AtMost
  <2>4. CASE n = 2
    BY <1>2, <1>3, <1>4, <1>6, <2>4, SMTT(30) DEF AtMost
  <2> QED BY <2>2, <2>3, <2>4 DEF r
<1> QED BY <1>5, <1>6 DEF r

\* A byte is said.
LEMMA AtMostSaid ==
  ASSUME NEW q \in Seq(Bytes), NEW n \in Int, AtMost(q, n), NEW b \in Bytes
  PROVE  /\ b # "ACK" => AtMost(Append(q, b), n)
         /\ n <= 1 => AtMost(Append(q, b), n + 1)
<1> DEFINE r == Append(q, b)
           z == Len(q) + 1
<1>1. /\ DOMAIN r = DOMAIN q \cup {z} /\ z \notin DOMAIN q /\ r[z] = b
      /\ \A i \in DOMAIN q : r[i] = q[i]
  <2>1. DOMAIN q = 1 .. Len(q) /\ Len(q) \in Nat
    BY LenProperties
  <2>2. Len(r) = z /\ r \in Seq(Bytes) /\ r[z] = b /\ \A i \in 1 .. Len(q) : r[i] = q[i]
    BY AppendProperties
  <2> QED BY <2>1, <2>2
<1> HIDE DEF r, z
<1>2. b # "ACK" => AtMost(r, n)
  BY <1>1 DEF AtMost
<1>3. n = 0 => AtMost(r, n + 1)
  BY <1>1 DEF AtMost
<1>4. n = 1 => AtMost(r, n + 1)
  BY <1>1 DEF AtMost
<1>5. n <= 1 => n = 0 \/ n = 1
  BY DEF AtMost
<1> QED BY <1>2, <1>3, <1>4, <1>5 DEF r

\* A bound may be raised.
LEMMA AtMostMore ==
  ASSUME NEW q, NEW m \in Int, NEW n \in 0 .. 2, m <= n, AtMost(q, m)
  PROVE  AtMost(q, n)
  BY DEF AtMost

-----------------------------------------------------------------------------
(* Nothing is spliced: steps that leave the line alone *)

\* What a step has to keep that leaves the line alone.
LEMMA QuietKeeps ==
  ASSUME SpliceInv, SameLine, TypeOK', NumberIsOwn', UNCHANGED <<sent, rcv>>,
         \A n \in 0 .. 2 : AtMost(toHost, n) => AtMost(toHost', n),
         pc \in {"closeAck", "done"} => pc' \in {"closeAck", "done"},
         Ending' => Ending, Sending' => Sending, pc' = "ack" => pc = "ack",
         pc' \in {"firstAck", "firstRequest"} => pc \in {"firstAck", "firstRequest"}
  PROVE  SpliceInv'
<1>1. \A i \in DOMAIN toBoard' : IsSTX(i)' = IsSTX(i) /\ IsEOT(i)' = IsEOT(i) /\ IsClosing(i)' = IsClosing(i)
  BY DEF SameLine, IsSTX, IsEOT, IsClosing, Closing
<1>2. Numbered'
  BY <1>1 DEF SpliceInv, Numbered, SameLine, Closing
<1>3. Increasing'
  BY <1>1 DEF SpliceInv, Increasing, SameLine
<1>4. Asking'
  BY DEF SpliceInv, Asking
<1>5. Receiving'
  <2>1. SUFFICES ASSUME rcv.state = "data" PROVE Receiving'
    BY DEF Receiving
  <2>2. \A i \in DOMAIN toBoard' : IsSTX(i)' => toBoard'[i].data > Got
    BY <1>1, <2>1 DEF SpliceInv, Receiving, SameLine
  <2>3. pc' = "ack" => AtMost(toHost', Got + 2 - sent)
    BY <2>1 DEF SpliceInv, Receiving, AtMost
  <2> QED BY <2>1, <2>2, <2>3 DEF SpliceInv, Receiving, Got
<1>6. Ended'
  BY <1>1 DEF SpliceInv, Ended, SameLine
<1>7. NoSplice'
  BY DEF SpliceInv, NoSplice
<1> QED BY <1>2, <1>3, <1>4, <1>5, <1>6, <1>7 DEF SpliceInv

\* A byte is read, or one is said that is no acknowledgement.
LEMMA ReadKeeps ==
  ASSUME TypeOK, toHost # <<>>, toHost' = Tail(toHost)
  PROVE  \A n \in 0 .. 2 : AtMost(toHost, n) => AtMost(toHost', n)
  BY AtMostRead, TypeParts

\* Nothing is written.
LEMMA UnwrittenLine == UNCHANGED toBoard => SameLine
  BY DEF SameLine

\* Sending is not resumed, and nothing is written.
LEMMA StillKeeps ==
  ASSUME SpliceInv, TypeOK', toHost # <<>>, toHost' = Tail(toHost), UNCHANGED <<num, sent, toBoard, rcv>>,
         \/ pc = "request" /\ pc' = "request"
         \/ pc = "firstAck" /\ pc' = "firstRequest"
         \/ pc = "firstRequest" /\ pc' = "done"
         \/ pc = "eot2" /\ pc' = "closeRequest"
         \/ pc = "closeAck" /\ pc' = "done"
  PROVE  SpliceInv'
<1>1. \A n \in 0 .. 2 : AtMost(toHost, n) => AtMost(toHost', n)
  BY ReadKeeps DEF SpliceInv
<1>2. NumberIsOwn'
  BY DEF SpliceInv, NumberIsOwn, Sending
<1>3. /\ pc \in {"closeAck", "done"} => pc' \in {"closeAck", "done"}
      /\ (Ending' => Ending) /\ (Sending' => Sending) /\ (pc' = "ack" => pc = "ack")
      /\ pc' \in {"firstAck", "firstRequest"} => pc \in {"firstAck", "firstRequest"}
  BY DEF Ending, Sending
<1> QED BY <1>1, <1>2, <1>3, QuietKeeps, UnwrittenLine

\* The line or the console is disturbed.
LEMMA DisturbedKeeps == SpliceInv /\ TypeOK' /\ (Noise \/ Garble \/ AskAgain) => SpliceInv'
<1> SUFFICES ASSUME SpliceInv, TypeOK', Noise \/ Garble \/ AskAgain PROVE SpliceInv'
  OBVIOUS
<1>1. SameLine
  BY UnwrittenLine, GarbledLine DEF SpliceInv, Noise, Garble, AskAgain
<1>2. UNCHANGED <<pc, num, sent, rcv>>
  BY DEF Noise, Garble, AskAgain, sender
<1>3. \A n \in 0 .. 2 : AtMost(toHost, n) => AtMost(toHost', n)
  <2>1. toHost \in Seq(Bytes) /\ "C" \in Bytes /\ "other" \in Bytes
    BY TypeParts DEF SpliceInv, Bytes
  <2>2. CASE Noise
    <3> DEFINE q == toHost
               r == <<"other">> \o q
    <3>1. DOMAIN q = 1 .. Len(q) /\ Len(q) \in Nat /\ DOMAIN r = 1 .. Len(q) + 1
          /\ r[1] = "other" /\ \A i \in 2 .. Len(q) + 1 : r[i] = q[i - 1]
      BY <2>1
    <3>2. \A i \in DOMAIN r : r[i] = "ACK" => i - 1 \in DOMAIN q /\ q[i - 1] = "ACK"
      BY <3>1
    <3>3. \A i, k \in DOMAIN r : i - 1 = k - 1 => i = k
      BY <3>1
    <3> HIDE DEF r, q
    <3>4. \A n \in 0 .. 2 : AtMost(q, n) => AtMost(r, n)
      BY <3>2, <3>3 DEF AtMost
    <3>5. toHost' = r
      BY <2>2 DEF Noise, r, q
    <3> QED BY <3>4, <3>5 DEF q
  <2>3. CASE Garble
    BY <2>3 DEF Garble
  <2>4. CASE AskAgain
    BY <2>1, <2>4, AtMostSaid DEF AskAgain
  <2> QED BY <2>2, <2>3, <2>4
<1>4. NumberIsOwn'
  <2>1. toBoard = <<>> => toBoard' = <<>>
    BY DEF Noise, Garble, AskAgain
  <2> QED BY <1>2, <2>1 DEF SpliceInv, NumberIsOwn, Sending
<1>5. (Ending' => Ending) /\ (Sending' => Sending)
  BY <1>2 DEF Ending, Sending
<1> QED BY <1>1, <1>2, <1>3, <1>4, <1>5, QuietKeeps

-----------------------------------------------------------------------------
(* Nothing is spliced: packets are written *)

\* Sequence::Send counts the packets modulo Numbers.
LEMMA AfterCounts == ASSUME NEW m \in Nat PROVE After(m % Numbers) = (m + 1) % Numbers
<1> DEFINE n == m % Numbers
<1>1. n \in 0 .. Numbers - 1 /\ Numbers \in Nat /\ Numbers > 1
  BY YModemAssumption, DivMod
<1>2. (n + 1) % Numbers = (m + 1) % Numbers
  BY <1>1, ModStep
<1> HIDE DEF n
<1>3. After(n) = (n + 1) % Numbers
  <2>1. CASE n = Numbers - 1
    <3>1. n + 1 = Numbers /\ Numbers % Numbers = 0
      BY <1>1, <2>1
    <3> QED BY <2>1, <3>1 DEF After
  <2>2. CASE n # Numbers - 1
    <3>1. n + 1 \in 0 .. Numbers - 1
      BY <1>1, <2>2
    <3>2. (n + 1) % Numbers = n + 1
      BY <1>1, <3>1
    <3> QED BY <2>2, <3>2 DEF After
  <2> QED BY <2>1, <2>2
<1> QED BY <1>2, <1>3 DEF n

\* The first two numbers.
LEMMA SmallNumbers == 0 % Numbers = 0 /\ 1 % Numbers = 1
  BY YModemAssumption

\* The name is sent.
LEMMA NameKeeps ==
  ASSUME SpliceInv, TypeOK', pc = "request", pc' = "firstAck", toHost # <<>>, toHost' = Tail(toHost),
         toBoard' = Append(toBoard, Frame(num, 0)), num' = After(num), UNCHANGED <<sent, rcv>>
  PROVE  SpliceInv'
<1>1. num = 0 /\ toBoard = <<>> /\ rcv.state = "ask" /\ sent = 0
  BY DEF SpliceInv, NumberIsOwn
<1>2. toBoard' = <<Frame(0, 0)>>
  BY <1>1
<1>3. DOMAIN toBoard' = {1} /\ toBoard'[1].kind = "STX" /\ toBoard'[1].data = 0 /\ toBoard'[1].num = 0
  BY <1>2 DEF Frame
<1>4. Frames # 0 /\ Closing # 0
  BY YModemAssumption DEF Closing
<1>5. NumberIsOwn'
  <2>1. num' = (sent' + 1) % Numbers
    BY <1>1, AfterCounts, SmallNumbers
  <2> QED BY <1>1, <2>1 DEF NumberIsOwn, Sending
<1>6. Numbered' /\ Increasing'
  BY <1>1, <1>3, SmallNumbers DEF Numbered, Increasing
<1>7. Asking' /\ Receiving'
  BY <1>1, ReadKeeps DEF SpliceInv, Asking, Receiving
<1>8. Ended'
  BY <1>1, <1>3, <1>4 DEF Ended, Ending, IsClosing, IsSTX, Closing
<1>9. NoSplice'
  BY DEF SpliceInv, NoSplice
<1> QED BY <1>5, <1>6, <1>7, <1>8, <1>9 DEF SpliceInv

\* Before the closing packet: only what was sent is on the line.
LEMMA Unclosed ==
  ASSUME SpliceInv, pc \notin {"closeAck", "done"}, NEW i \in DOMAIN toBoard, IsSTX(i)
  PROVE  /\ toBoard[i].data \in Nat /\ toBoard[i].data <= sent /\ sent \in Nat /\ sent <= Frames
         /\ Frames \in Nat /\ ~IsClosing(i) /\ toBoard[i].num = toBoard[i].data % Numbers
<1>1. toBoard[i] \in Packets /\ sent \in 0 .. Frames /\ Frames \in Nat
  BY TypeParts, YModemAssumption DEF SpliceInv, SenderType, CountType
<1>2. toBoard[i].data \in 0 .. Frames + 1
  BY <1>1 DEF Packets
<1>3. toBoard[i].data <= sent /\ toBoard[i].num = toBoard[i].data % Numbers
  BY DEF SpliceInv, Numbered
<1> QED BY <1>1, <1>2, <1>3 DEF IsClosing, Closing

\* A frame is sent.
LEMMA FrameKeeps ==
  ASSUME SpliceInv, TypeOK', pc \in {"firstRequest", "ack"}, pc' = "ack",
         toHost # <<>>, toHost' = Tail(toHost), sent < Frames,
         toBoard' = Append(toBoard, Frame(num, sent + 1)), num' = After(num), sent' = sent + 1,
         UNCHANGED rcv,
         rcv.state = "ask" => sent = 0,
         rcv.state = "data" => AtMost(toHost', Got + 2 - (sent + 1))
  PROVE  SpliceInv'
<1> DEFINE z == Len(toBoard) + 1
           p == Frame(num, sent + 1)
<1>1. toBoard \in Seq(Packets) /\ sent \in Nat /\ sent + 1 <= Frames /\ Frames \in Nat
      /\ num \in 0 .. Numbers - 1 /\ Got \in Nat
  BY TypeParts, YModemAssumption DEF SpliceInv, SenderType, CountType, Got, RcvType
<1>2. p \in Packets
  BY <1>1, PacketsType
<1>3. /\ DOMAIN toBoard = 1 .. Len(toBoard) /\ DOMAIN toBoard' = 1 .. z /\ Len(toBoard) \in Nat
      /\ \A i \in 1 .. Len(toBoard) : toBoard'[i] = toBoard[i]
      /\ toBoard'[z] = p
  BY <1>1, <1>2, Written
<1>4. p.kind = "STX" /\ p.data = sent + 1 /\ p.num = num
  BY DEF Frame
<1>5. num = (sent + 1) % Numbers
  BY DEF SpliceInv, NumberIsOwn, Sending
<1>6. \A i \in DOMAIN toBoard : IsSTX(i) =>
        toBoard[i].data <= sent /\ toBoard[i].num = toBoard[i].data % Numbers /\ toBoard[i].data \in Nat
  BY Unclosed
<1>7. num' = (sent + 2) % Numbers
  BY <1>1, <1>5, AfterCounts
<1> HIDE DEF p, z
<1>8. NumberIsOwn'
  <2>1. sent' + 1 = sent + 2
    BY <1>1
  <2> QED BY <1>7, <2>1 DEF NumberIsOwn, Sending
<1>9. \A i \in DOMAIN toBoard' : IsSTX(i)' =>
        toBoard'[i].data <= sent + 1 /\ toBoard'[i].num = toBoard'[i].data % Numbers
  BY <1>1, <1>3, <1>4, <1>5, <1>6 DEF IsSTX, z
<1>10. Numbered'
  BY <1>9 DEF Numbered
<1>11. Increasing'
  BY <1>1, <1>3, <1>4, <1>6 DEF SpliceInv, Increasing, IsSTX, z
<1>12. Asking'
  BY ReadKeeps DEF SpliceInv, Asking
<1>13. Receiving'
  <2>1. SUFFICES ASSUME rcv.state = "data" PROVE Receiving'
    BY DEF Receiving
  <2>2. sent + 1 <= Got + 2 /\ Got <= sent
    BY <1>1, <2>1 DEF SpliceInv, Receiving, AtMost, Sending
  <2>3. \A i \in DOMAIN toBoard' : IsSTX(i)' => toBoard'[i].data > Got
    BY <1>1, <1>3, <1>4, <2>1, <2>2 DEF SpliceInv, Receiving, IsSTX, z
  <2> QED BY <1>1, <2>1, <2>2, <2>3 DEF SpliceInv, Receiving, Got
<1>14. Ended'
  <2>1. ~Ending' /\ \A i \in DOMAIN toBoard' : ~IsClosing(i)'
    BY <1>1, <1>9 DEF IsClosing, Closing, Ending
  <2> QED BY <2>1 DEF Ended
<1>15. NoSplice'
  BY DEF SpliceInv, NoSplice
<1> QED BY <1>8, <1>10, <1>11, <1>12, <1>13, <1>14, <1>15 DEF SpliceInv

\* What is left of Asking and Receiving when SendFile has sent its last frame.
LEMMA DoneSending ==
  ASSUME SpliceInv, ~Sending', toHost # <<>>, toHost' = Tail(toHost), UNCHANGED <<sent, rcv>>,
         rcv.state = "data" => \A i \in DOMAIN toBoard' : IsSTX(i)' => toBoard'[i].data > Got
  PROVE  Asking' /\ Receiving' /\ NoSplice'
<1>1. Asking'
  BY ReadKeeps DEF SpliceInv, Asking
<1>2. Receiving'
  BY DEF SpliceInv, Receiving, Sending, Got
<1> QED BY <1>1, <1>2 DEF SpliceInv, NoSplice

\* The end of the file is sent.
LEMMA EotKeeps ==
  ASSUME SpliceInv, TypeOK', pc \in {"ack", "eot1"}, pc' \in {"eot1", "eot2"},
         toHost # <<>>, toHost' = Tail(toHost), toBoard' = Append(toBoard, EOT),
         UNCHANGED <<sent, rcv>>
  PROVE  SpliceInv'
<1> DEFINE z == Len(toBoard) + 1
<1>1. toBoard \in Seq(Packets)
  BY TypeParts DEF SpliceInv
<1>2. /\ DOMAIN toBoard = 1 .. Len(toBoard) /\ DOMAIN toBoard' = 1 .. z /\ Len(toBoard) \in Nat
      /\ \A i \in 1 .. Len(toBoard) : toBoard'[i] = toBoard[i]
      /\ toBoard'[z] = EOT
  BY <1>1, PacketsType, Written
<1>3. /\ \A i \in DOMAIN toBoard : i < z /\ i \in DOMAIN toBoard' /\ toBoard'[i] = toBoard[i]
      /\ z \in DOMAIN toBoard'
  BY <1>2
<1>4. \A i \in DOMAIN toBoard' : IsSTX(i)' => i \in DOMAIN toBoard /\ IsSTX(i)
  BY <1>2 DEF IsSTX, EOT
<1>5. toBoard'[z].kind = "EOT"
  BY <1>2 DEF EOT
<1> HIDE DEF z
<1>6. NumberIsOwn'
  BY DEF NumberIsOwn, Sending
<1>7. Numbered'
  BY <1>3, <1>4, Unclosed DEF Numbered
<1>8. Increasing'
  BY <1>3, <1>4 DEF SpliceInv, Increasing
<1>9. Asking' /\ Receiving' /\ NoSplice'
  BY <1>3, <1>4, DoneSending DEF SpliceInv, Receiving, Sending
<1>10. Ended'
  <2>1. \A i \in DOMAIN toBoard' : ~IsClosing(i)'
    BY <1>3, <1>4, Unclosed DEF IsClosing, IsSTX, Closing
  <2>2. \E k \in DOMAIN toBoard' : IsEOT(k)'
    BY <1>3, <1>5 DEF IsEOT
  <2>3. \A i \in DOMAIN toBoard' : IsSTX(i)' => \E k \in DOMAIN toBoard' : i < k /\ IsEOT(k)'
    BY <1>3, <1>4, <1>5 DEF IsEOT
  <2> QED BY <2>1, <2>2, <2>3 DEF Ended
<1> QED BY <1>6, <1>7, <1>8, <1>9, <1>10 DEF SpliceInv

\* The closing packet is sent.
LEMMA ClosingKeeps ==
  ASSUME SpliceInv, TypeOK', pc = "closeRequest", pc' = "closeAck",
         toHost # <<>>, toHost' = Tail(toHost), toBoard' = Append(toBoard, Frame(0, Closing)),
         UNCHANGED <<sent, rcv>>
  PROVE  SpliceInv'
<1> DEFINE z == Len(toBoard) + 1
           p == Frame(0, Closing)
<1>1. toBoard \in Seq(Packets) /\ p \in Packets /\ sent \in 0 .. Frames /\ Frames \in Nat /\ Got \in Nat
  BY TypeParts, PacketsType, YModemAssumption, SMTT(30) DEF SpliceInv, SenderType, CountType, RcvType, Got
<1>2. /\ DOMAIN toBoard = 1 .. Len(toBoard) /\ DOMAIN toBoard' = 1 .. z /\ Len(toBoard) \in Nat
      /\ Len(toBoard') = z /\ \A i \in 1 .. Len(toBoard) : toBoard'[i] = toBoard[i]
      /\ toBoard'[z] = p
  BY <1>1, Written
<1>3. /\ \A i \in DOMAIN toBoard : i < z /\ i \in DOMAIN toBoard' /\ toBoard'[i] = toBoard[i]
      /\ z \in DOMAIN toBoard' /\ \A i \in DOMAIN toBoard' : i \in DOMAIN toBoard \/ i = z
      /\ Len(toBoard') = z /\ \A i \in DOMAIN toBoard : ~(z < i)
  BY <1>2
<1>4. p.kind = "STX" /\ p.data = Closing /\ p.num = 0
  BY DEF Frame
<1>5. \A i \in DOMAIN toBoard : IsSTX(i) =>
         /\ toBoard[i].data <= sent /\ toBoard[i].data < Closing /\ ~IsClosing(i)
         /\ toBoard[i].num = toBoard[i].data % Numbers
  BY <1>1, Unclosed DEF Closing
<1>6. toBoard'[z] = p
  BY <1>2
<1> HIDE DEF z, p
<1>7. NumberIsOwn'
  BY DEF NumberIsOwn, Sending
<1>8. Numbered'
  BY <1>3, <1>4, <1>5, <1>6 DEF Numbered, IsSTX, Closing
<1>9. Increasing'
  BY <1>3, <1>4, <1>5, <1>6 DEF SpliceInv, Increasing, IsSTX, Closing
<1>10. rcv.state = "data" => \A i \in DOMAIN toBoard' : IsSTX(i)' => toBoard'[i].data > Got
  <2>1. SUFFICES ASSUME rcv.state = "data", NEW i \in DOMAIN toBoard', IsSTX(i)'
                 PROVE  toBoard'[i].data > Got
    OBVIOUS
  <2>2. Closing > Got
    BY <1>1, <2>1 DEF SpliceInv, Receiving, Closing
  <2>3. CASE i = z
    BY <1>4, <1>6, <2>2, <2>3
  <2>4. CASE i \in DOMAIN toBoard
    BY <1>3, <2>1, <2>4 DEF SpliceInv, Receiving, IsSTX
  <2> QED BY <1>3, <2>3, <2>4
<1>11. Asking' /\ Receiving' /\ NoSplice'
  BY <1>10, DoneSending DEF Sending
<1>12. Ended'
  <2>1. \A i, l \in DOMAIN toBoard' : IsSTX(i)' /\ i < l /\ IsClosing(l)' => l = z /\ i \in DOMAIN toBoard /\ IsSTX(i)
    BY <1>3, <1>5 DEF IsClosing, IsSTX, Closing
  <2>2. \A i \in DOMAIN toBoard : IsSTX(i) => \E k \in DOMAIN toBoard : i < k /\ IsEOT(k)
    BY DEF SpliceInv, Ended, Ending
  <2>3. \A l \in DOMAIN toBoard' : IsClosing(l)' => l = z
    BY <1>3, <1>5 DEF IsClosing, IsSTX, Closing
  <2>4. rcv.state = "data" => \E k \in DOMAIN toBoard : IsEOT(k)
    BY DEF SpliceInv, Ended, Ending
  <2>5. \A k \in DOMAIN toBoard : IsEOT(k) => k < z /\ k \in DOMAIN toBoard' /\ IsEOT(k)'
    BY <1>3 DEF IsEOT
  <2> QED BY <2>1, <2>2, <2>3, <2>4, <2>5 DEF Ended, Ending
<1> QED BY <1>7, <1>8, <1>9, <1>11, <1>12 DEF SpliceInv

-----------------------------------------------------------------------------
(* Nothing is spliced: packets are read *)

\* What is left on the line is in order.
LEMMA TakenKeeps ==
  ASSUME SpliceInv, toBoard # <<>>, toBoard' = Tail(toBoard), UNCHANGED sender
  PROVE  /\ NumberIsOwn' /\ Numbered' /\ Increasing'
         /\ \A i \in DOMAIN toBoard' :
              /\ i + 1 \in DOMAIN toBoard /\ i + 1 > 1 /\ toBoard'[i] = toBoard[i + 1]
         /\ \A k \in DOMAIN toBoard : k # 1 => k - 1 \in DOMAIN toBoard'
         /\ 1 \in DOMAIN toBoard /\ Head(toBoard) = toBoard[1]
<1> USE DEF sender
<1>1. toBoard \in Seq(Packets)
  BY TypeParts DEF SpliceInv
<1>2. /\ Len(toBoard) \in Nat /\ Len(toBoard) >= 1 /\ Len(toBoard') = Len(toBoard) - 1
      /\ DOMAIN toBoard = 1 .. Len(toBoard) /\ DOMAIN toBoard' = 1 .. Len(toBoard) - 1
      /\ \A i \in 1 .. Len(toBoard) - 1 : toBoard'[i] = toBoard[i + 1]
      /\ Head(toBoard) = toBoard[1]
  BY <1>1, Taken
<1>3. \A i \in DOMAIN toBoard' :
        /\ i + 1 \in DOMAIN toBoard /\ i + 1 > 1 /\ toBoard'[i] = toBoard[i + 1] /\ i \in Nat
        /\ i + 1 = Len(toBoard) => i = Len(toBoard')
  BY <1>2
<1>4. NumberIsOwn'
  BY DEF SpliceInv, NumberIsOwn, Sending
<1>5. Numbered'
  BY <1>3 DEF SpliceInv, Numbered, IsSTX, Closing
<1>6. Increasing'
  BY <1>3 DEF SpliceInv, Increasing, IsSTX
<1>7. 1 \in DOMAIN toBoard /\ \A k \in DOMAIN toBoard : k # 1 => k - 1 \in DOMAIN toBoard'
  BY <1>2
<1> QED BY <1>2, <1>3, <1>4, <1>5, <1>6, <1>7

\* Ended holds of the rest, too, if the receiver does not read an EOT and is at
\* the frames still, or the first packet was the name.
LEMMA EndedKeeps ==
  ASSUME SpliceInv, toBoard # <<>>, toBoard' = Tail(toBoard), UNCHANGED sender,
         rcv'.state = "data" => Head(toBoard).kind = "STX"
  PROVE  Ended'
<1> USE DEF sender
<1>1. /\ \A i \in DOMAIN toBoard' :
           i + 1 \in DOMAIN toBoard /\ i + 1 > 1 /\ toBoard'[i] = toBoard[i + 1]
      /\ \A k \in DOMAIN toBoard : k # 1 => k - 1 \in DOMAIN toBoard'
      /\ 1 \in DOMAIN toBoard /\ Head(toBoard) = toBoard[1]
  BY TakenKeeps
<1>2. DOMAIN toBoard \subseteq Nat /\ DOMAIN toBoard' \subseteq Nat
  BY TypeParts DEF SpliceInv
<1>3. \A k \in DOMAIN toBoard : k # 1 => k - 1 \in DOMAIN toBoard' /\ k > 1 /\ toBoard'[k - 1] = toBoard[k]
  <2>1. SUFFICES ASSUME NEW k \in DOMAIN toBoard, k # 1
                 PROVE  k - 1 \in DOMAIN toBoard' /\ k > 1 /\ toBoard'[k - 1] = toBoard[k]
    OBVIOUS
  <2>2. k - 1 \in DOMAIN toBoard' /\ k \in Nat
    BY <1>1, <1>2, <2>1
  <2>3. (k - 1) + 1 = k
    BY <2>2
  <2>4. toBoard'[k - 1] = toBoard[(k - 1) + 1] /\ (k - 1) + 1 > 1
    BY <1>1, <2>2
  <2> QED BY <2>2, <2>3, <2>4
<1>4. \A k \in DOMAIN toBoard : IsEOT(k) /\ k # 1 => k - 1 \in DOMAIN toBoard' /\ IsEOT(k - 1)'
  BY <1>3 DEF IsEOT
<1>5. \A i \in DOMAIN toBoard' :
        i + 1 \in DOMAIN toBoard /\ i + 1 > 1 /\ IsSTX(i)' = IsSTX(i + 1) /\ IsClosing(i)' = IsClosing(i + 1)
  BY <1>1 DEF IsSTX, IsClosing, Closing
<1>6. ASSUME Ending, NEW i \in DOMAIN toBoard', IsSTX(i)'
      PROVE  \E k \in DOMAIN toBoard' : i < k /\ IsEOT(k)'
  <2>1. i + 1 \in DOMAIN toBoard /\ i + 1 > 1 /\ IsSTX(i + 1)
    BY <1>5, <1>6
  <2>2. PICK k \in DOMAIN toBoard : i + 1 < k /\ IsEOT(k)
    BY <1>6, <2>1 DEF SpliceInv, Ended
  <2>3. k - 1 \in DOMAIN toBoard' /\ IsEOT(k - 1)' /\ i < k - 1
    BY <1>2, <1>4, <2>2
  <2> QED BY <2>3
<1>7. ASSUME NEW i \in DOMAIN toBoard', NEW l \in DOMAIN toBoard', IsSTX(i)', i < l, IsClosing(l)'
      PROVE  \E k \in DOMAIN toBoard' : i < k /\ k < l /\ IsEOT(k)'
  <2>1. /\ i + 1 \in DOMAIN toBoard /\ i + 1 > 1 /\ IsSTX(i + 1)
        /\ l + 1 \in DOMAIN toBoard /\ IsClosing(l + 1) /\ i + 1 < l + 1
    BY <1>2, <1>5, <1>7
  <2>2. PICK k \in DOMAIN toBoard : i + 1 < k /\ k < l + 1 /\ IsEOT(k)
    BY <2>1 DEF SpliceInv, Ended
  <2>3. k - 1 \in DOMAIN toBoard' /\ IsEOT(k - 1)' /\ i < k - 1 /\ k - 1 < l
    BY <1>2, <1>4, <2>2
  <2> QED BY <2>3
<1>8. ASSUME rcv'.state = "data" PROVE IsSTX(1)
  BY <1>1, <1>8 DEF IsSTX
<1>9. ASSUME Ending, rcv'.state = "data" PROVE \E k \in DOMAIN toBoard' : IsEOT(k)'
  <2>1. PICK k \in DOMAIN toBoard : 1 < k /\ IsEOT(k)
    BY <1>1, <1>8, <1>9 DEF SpliceInv, Ended
  <2> QED BY <1>4, <2>1
<1>10. ASSUME rcv'.state = "data", NEW l \in DOMAIN toBoard', IsClosing(l)'
       PROVE  \E k \in DOMAIN toBoard' : k < l /\ IsEOT(k)'
  <2>1. l + 1 \in DOMAIN toBoard /\ 1 < l + 1 /\ IsClosing(l + 1)
    BY <1>2, <1>5, <1>10
  <2>2. PICK k \in DOMAIN toBoard : 1 < k /\ k < l + 1 /\ IsEOT(k)
    BY <1>1, <1>8, <1>10, <2>1 DEF SpliceInv, Ended
  <2>3. k - 1 \in DOMAIN toBoard' /\ IsEOT(k - 1)' /\ k - 1 < l
    BY <1>2, <1>4, <2>2
  <2> QED BY <2>3
<1> QED BY <1>6, <1>7, <1>9, <1>10 DEF Ended, Ending

\* The receiver answers once more.
LEMMA SaidIs ==
  ASSUME toHost \in Seq(Bytes)
  PROVE  /\ toHost \o <<"NAK">> = Append(toHost, "NAK") /\ toHost \o <<"ACK">> = Append(toHost, "ACK")
         /\ toHost \o <<"ACK", "C">> = Append(Append(toHost, "ACK"), "C")
         /\ Append(toHost, "ACK") \in Seq(Bytes)
         /\ "ACK" \in Bytes /\ "NAK" \in Bytes /\ "C" \in Bytes
<1>1. "ACK" \in Bytes /\ "NAK" \in Bytes /\ "C" \in Bytes
  BY DEF Bytes
<1> QED BY <1>1

\* A packet is refused: that is no acknowledgement.
LEMMA RefusedKeeps ==
  ASSUME toHost \in Seq(Bytes), toHost' = toHost \o <<"NAK">>
  PROVE  \A n \in 0 .. 2 : AtMost(toHost, n) => AtMost(toHost', n)
<1>1. toHost' = Append(toHost, "NAK") /\ "NAK" \in Bytes
  BY SaidIs
<1>2. ASSUME NEW n \in 0 .. 2, AtMost(toHost, n) PROVE AtMost(Append(toHost, "NAK"), n)
  <2>1. n \in Int
    OBVIOUS
  <2> QED BY <1>1, <1>2, <2>1, AtMostSaid
<1> QED BY <1>1, <1>2

\* The first packet is accepted as the name, or refused.
LEMMA GetNameKeeps == SpliceInv /\ TypeOK' /\ GetName => SpliceInv'
<1> SUFFICES ASSUME SpliceInv, TypeOK', GetName PROVE SpliceInv'
  OBVIOUS
<1> DEFINE p == Head(toBoard)
<1>1. /\ toBoard # <<>> /\ rcv.state = "ask" /\ toBoard' = Tail(toBoard) /\ UNCHANGED sender
      /\ toBoard \in Seq(Packets) /\ toHost \in Seq(Bytes) /\ p \in Packets
  BY TypeParts DEF GetName, Answers, SpliceInv
<1>2. /\ NumberIsOwn' /\ Numbered' /\ Increasing'
      /\ \A i \in DOMAIN toBoard' :
           i + 1 \in DOMAIN toBoard /\ i + 1 > 1 /\ toBoard'[i] = toBoard[i + 1]
      /\ 1 \in DOMAIN toBoard /\ p = toBoard[1]
  BY <1>1, TakenKeeps
<1>3. rcv.file = <<>> /\ sent <= 1 /\ AtMost(toHost, 0) /\ sent \in Nat
  BY <1>1, TypeParts DEF SpliceInv, Asking, SenderType, CountType
<1>4. CASE p.kind = "STX" /\ rcv' = [rcv EXCEPT !.state = "data", !.next = 1]
           /\ toHost' = toHost \o <<"ACK", "C">>
  <2>1. rcv'.state = "data" /\ rcv'.next = 1 /\ rcv'.file = <<>> /\ Got' = 0
    BY <1>3, <1>4, TypeParts DEF SpliceInv, RcvType, Got
  <2>2. Ended'
    BY <1>1, <1>4, EndedKeeps
  <2>3. AtMost(toHost', 1)
    <3>1. AtMost(Append(toHost, "ACK"), 1)
      BY <1>1, <1>3, SaidIs, AtMostSaid
    <3>2. AtMost(Append(Append(toHost, "ACK"), "C"), 1)
      <4> DEFINE q == Append(toHost, "ACK")
      <4>1. q \in Seq(Bytes) /\ "C" \in Bytes /\ AtMost(q, 1)
        BY <1>1, <3>1, SaidIs
      <4> HIDE DEF q
      <4>2. AtMost(Append(q, "C"), 1)
        BY <4>1, AtMostSaid
      <4> QED BY <4>2 DEF q
    <3> QED BY <1>1, <1>4, <3>2, SaidIs
  <2>4. AtMost(toHost', 2 - sent)
    BY <1>3, <2>3, AtMostMore
  <2>5. \A i \in DOMAIN toBoard' : IsSTX(i)' => toBoard'[i].data > 0
    <3>1. SUFFICES ASSUME NEW i \in DOMAIN toBoard', toBoard'[i].kind = "STX"
                   PROVE  toBoard'[i].data > 0
      BY DEF IsSTX
    <3>2. i + 1 \in DOMAIN toBoard /\ 1 < i + 1 /\ toBoard'[i] = toBoard[i + 1]
      BY <1>2
    <3>3. toBoard[1].data < toBoard[i + 1].data
      BY <1>2, <1>4, <3>1, <3>2 DEF SpliceInv, Increasing, IsSTX
    <3>4. toBoard[1] \in Packets /\ toBoard[i + 1] \in Packets
      BY <1>1, <1>2, <3>2
    <3>5. toBoard[1].data \in 0 .. Frames + 1 /\ toBoard[i + 1].data \in 0 .. Frames + 1
      BY <3>4 DEF Packets
    <3> QED BY <3>2, <3>3, <3>4, <3>5, YModemAssumption
  <2>6. UNCHANGED <<pc, sent>>
    BY <1>1 DEF sender
  <2>7. Receiving'
    BY <1>3, <2>1, <2>3, <2>4, <2>5, <2>6 DEF Receiving
  <2>8. Asking' /\ NoSplice'
    BY <2>1 DEF Asking, NoSplice
  <2> QED BY <1>2, <2>2, <2>7, <2>8 DEF SpliceInv
<1>5. CASE rcv' = rcv /\ toHost' = toHost \o <<"NAK">>
  <2>1. AtMost(toHost', 0)
    BY <1>1, <1>3, <1>5, RefusedKeeps
  <2>2. Ended'
    BY <1>1, <1>5, EndedKeeps
  <2>3. Asking' /\ Receiving' /\ NoSplice'
    BY <1>1, <1>3, <1>5, <2>1 DEF Asking, Receiving, SpliceInv, NoSplice, sender
  <2> QED BY <1>2, <2>2, <2>3 DEF SpliceInv
<1> QED BY <1>4, <1>5 DEF GetName, Answers

\* The frame that is accepted is the next one.
LEMMA AcceptedIsNext ==
  ASSUME SpliceInv, toBoard # <<>>, rcv.state = "data", Head(toBoard) = toBoard[1], 1 \in DOMAIN toBoard,
         Head(toBoard).kind = "STX", Head(toBoard).num = rcv.next % Numbers
  PROVE  Head(toBoard).data = Got + 1 /\ Got + 1 <= sent /\ ~IsClosing(1)
<1> DEFINE d == toBoard[1].data
<1>1. toBoard[1] \in Packets /\ sent \in Nat /\ Got \in Nat
  BY TypeParts DEF SpliceInv, SenderType, CountType, RcvType, Got
<1>2. d \in Nat
  BY <1>1, YModemAssumption DEF Packets
<1>3. ~IsClosing(1)
  <2>1. SUFFICES ASSUME IsClosing(1) PROVE FALSE
    OBVIOUS
  <2>2. PICK k \in DOMAIN toBoard : k < 1
    BY <2>1 DEF SpliceInv, Ended
  <2>3. DOMAIN toBoard = 1 .. Len(toBoard) /\ Len(toBoard) \in Nat
    BY TypeParts, LenProperties DEF SpliceInv
  <2> QED BY <2>2, <2>3
<1>4. d <= sent /\ toBoard[1].num = d % Numbers
  BY <1>3 DEF SpliceInv, Numbered, IsClosing, IsSTX
<1>5. d > Got /\ sent <= Got + 2 /\ rcv.next = Got + 1
  BY DEF SpliceInv, Receiving, IsSTX
<1>6. d % Numbers = (Got + 1) % Numbers
  BY <1>4, <1>5
<1>7. d = Got + 1 \/ d = (Got + 1) + 1
  BY <1>1, <1>2, <1>4, <1>5
<1>8. ((Got + 1) % Numbers) # (((Got + 1) + 1) % Numbers)
  <2>1. Got + 1 \in Nat /\ Numbers \in Nat /\ Numbers > 1
    BY <1>1, YModemAssumption
  <2> QED BY <2>1, ModNext
<1>9. d = Got + 1
  BY <1>6, <1>7, <1>8
<1> QED BY <1>3, <1>4, <1>9

\* A frame is accepted or refused, or the first EOT is read.
LEMMA GetFrameKeeps == SpliceInv /\ TypeOK' /\ GetFrame => SpliceInv'
<1> SUFFICES ASSUME SpliceInv, TypeOK', GetFrame PROVE SpliceInv'
  OBVIOUS
<1> DEFINE p == Head(toBoard)
<1>1. /\ toBoard # <<>> /\ rcv.state = "data" /\ toBoard' = Tail(toBoard) /\ UNCHANGED sender
      /\ toBoard \in Seq(Packets) /\ toHost \in Seq(Bytes) /\ p \in Packets
  BY GetFrameIs, TypeParts DEF Answers, SpliceInv
<1>2. /\ NumberIsOwn' /\ Numbered' /\ Increasing'
      /\ \A i \in DOMAIN toBoard' :
           i + 1 \in DOMAIN toBoard /\ i + 1 > 1 /\ toBoard'[i] = toBoard[i + 1]
      /\ 1 \in DOMAIN toBoard /\ p = toBoard[1]
  BY <1>1, TakenKeeps
<1>3. UNCHANGED <<pc, sent>>
  BY <1>1 DEF sender
<1>4. sent \in Nat /\ Got \in Nat
  BY TypeParts DEF SpliceInv, SenderType, CountType, RcvType, Got
<1>5. CASE p.kind = "EOT" /\ rcv' = [rcv EXCEPT !.state = "eot"]
  <2>1. rcv'.state = "eot" /\ rcv'.file = rcv.file
    BY <1>5, TypeParts DEF SpliceInv, RcvType
  <2>2. Ended'
    BY <1>1, <2>1, EndedKeeps
  <2> QED BY <1>2, <2>1, <2>2 DEF SpliceInv, Asking, Receiving, NoSplice
<1>6. CASE /\ p.kind = "STX" /\ p.num = rcv.next % Numbers /\ toHost' = toHost \o <<"ACK">>
           /\ rcv' = [rcv EXCEPT !.next = @ + 1, !.file = Append(@, p.data)]
  <2>1. p.data = Got + 1 /\ Got + 1 <= sent
    BY <1>1, <1>2, <1>6, AcceptedIsNext
  <2>2. rcv'.state = "data" /\ rcv'.next = rcv.next + 1 /\ rcv'.file = Append(rcv.file, p.data)
    BY <1>1, <1>6, TypeParts DEF SpliceInv, RcvType
  <2>3. /\ Got' = Got + 1 /\ rcv'.file[Got + 1] = Got + 1
        /\ \A i \in DOMAIN rcv'.file : i = Got + 1 \/ (i \in DOMAIN rcv.file /\ rcv'.file[i] = rcv.file[i])
    <3>1. rcv.file \in Seq(0 .. Frames + 1) /\ p.data \in 0 .. Frames + 1
      BY <1>1, TypeParts DEF SpliceInv, RcvType, Packets
    <3> DEFINE f == rcv.file
               e == p.data
    <3>2. f \in Seq(0 .. Frames + 1) /\ e \in 0 .. Frames + 1
      BY <3>1
    <3> HIDE DEF f, e
    <3>3. /\ Append(f, e) \in Seq(0 .. Frames + 1) /\ Len(Append(f, e)) = Len(f) + 1
          /\ \A i \in 1 .. Len(f) : Append(f, e)[i] = f[i]
          /\ Append(f, e)[Len(f) + 1] = e /\ Len(f) \in Nat
          /\ DOMAIN f = 1 .. Len(f) /\ DOMAIN Append(f, e) = 1 .. Len(f) + 1
      BY <3>2, AppendProperties, LenProperties
    <3> QED BY <2>1, <2>2, <3>3 DEF f, e, Got
  <2>4. NoSplice'
    BY <2>3 DEF SpliceInv, NoSplice
  <2>5. Ended'
    BY <1>1, <1>6, EndedKeeps
  <2>6. pc \notin {"firstAck", "firstRequest"}
    BY <1>4, <2>1 DEF SpliceInv, NumberIsOwn
  <2>7. pc = "ack" => AtMost(toHost', Got' + 2 - sent)
    <3>1. SUFFICES ASSUME pc = "ack" PROVE AtMost(toHost', Got' + 2 - sent)
      OBVIOUS
    <3>2. AtMost(toHost, Got + 2 - sent) /\ Got + 2 - sent <= 1 /\ Got + 2 - sent \in Int
      BY <1>1, <1>4, <2>1, <3>1 DEF SpliceInv, Receiving
    <3>3. AtMost(Append(toHost, "ACK"), (Got + 2 - sent) + 1)
      BY <1>1, <3>2, SaidIs, AtMostSaid
    <3>4. (Got + 2 - sent) + 1 = Got' + 2 - sent
      BY <1>4, <2>3
    <3>5. toHost' = Append(toHost, "ACK")
      BY <1>1, <1>6, SaidIs
    <3> QED BY <3>3, <3>4, <3>5
  <2>8. \A i \in DOMAIN toBoard' : IsSTX(i)' => toBoard'[i].data > Got'
    BY <1>2, <1>6, <2>1, <2>3 DEF SpliceInv, Increasing, IsSTX
  <2>9. Receiving'
    <3>1. rcv.next = Got + 1 /\ sent <= Got + 2
      BY <1>1 DEF SpliceInv, Receiving
    <3> QED BY <1>3, <1>4, <2>1, <2>2, <2>3, <2>6, <2>7, <2>8, <3>1 DEF Receiving
  <2>10. Asking'
    BY <2>2 DEF Asking
  <2> QED BY <1>2, <2>4, <2>5, <2>9, <2>10 DEF SpliceInv
<1>7. CASE p.kind = "STX" /\ rcv' = rcv /\ toHost' = toHost \o <<"NAK">>
  <2>1. Ended'
    BY <1>1, <1>7, EndedKeeps
  <2>2. \A n \in 0 .. 2 : AtMost(toHost, n) => AtMost(toHost', n)
    BY <1>1, <1>7, RefusedKeeps
  <2>3. \A i \in DOMAIN toBoard' : IsSTX(i)' => toBoard'[i].data > Got
    BY <1>1, <1>2 DEF SpliceInv, Receiving, IsSTX
  <2>4. pc = "ack" => AtMost(toHost', Got + 2 - sent)
    BY <1>1, <2>2 DEF SpliceInv, Receiving, AtMost
  <2>5. Receiving'
    BY <1>1, <1>3, <1>7, <2>2, <2>3, <2>4 DEF SpliceInv, Receiving, Got
  <2>6. Asking' /\ NoSplice'
    BY <1>1, <1>7 DEF SpliceInv, Asking, NoSplice
  <2> QED BY <1>2, <2>1, <2>5, <2>6 DEF SpliceInv
<1> QED BY <1>5, <1>6, <1>7, GetFrameIs DEF Answers, SpliceInv

\* After the first EOT nothing is put into the file.
LEMMA EndKeeps == SpliceInv /\ TypeOK' /\ (GetEnd \/ GetClosing) => SpliceInv'
<1> SUFFICES ASSUME SpliceInv, TypeOK', GetEnd \/ GetClosing PROVE SpliceInv'
  OBVIOUS
<1>1. toBoard # <<>> /\ toBoard' = Tail(toBoard) /\ UNCHANGED sender
  BY DEF GetEnd, GetClosing, Answers
<1>2. rcv'.state \notin {"ask", "data"} /\ rcv'.file = rcv.file
  BY TypeParts DEF GetEnd, GetClosing, Answers, SpliceInv, RcvType
<1>3. Ended'
  BY <1>1, <1>2, EndedKeeps
<1>4. NumberIsOwn' /\ Numbered' /\ Increasing'
  BY <1>1, TakenKeeps
<1> QED BY <1>2, <1>3, <1>4 DEF SpliceInv, Asking, Receiving, NoSplice

\* Every step of SendFile.
LEMMA SendFileKeeps == SpliceInv /\ TypeOK' /\ SendFile => SpliceInv'
<1> SUFFICES ASSUME SpliceInv, TypeOK', SendFile PROVE SpliceInv'
  OBVIOUS
<1>1. CASE WaitForRequest
  BY <1>1, NameKeeps, StillKeeps DEF WaitForRequest, Reads, Write
<1>2. CASE FirstAck \/ Eot2 \/ CloseAck
  BY <1>2, StillKeeps DEF FirstAck, Eot2, CloseAck, Reads
<1>3. /\ toHost \in Seq(Bytes) /\ sent \in Nat /\ Got \in Nat /\ sent <= Frames
      /\ Frames \in Nat /\ Frames # 0
  BY TypeParts, YModemAssumption DEF SpliceInv, SenderType, CountType, RcvType, Got
<1>4. CASE FirstRequest
  <2>1. pc = "firstRequest" /\ toHost # <<>> /\ toHost' = Tail(toHost) /\ rcv' = rcv
    BY <1>4 DEF FirstRequest, Reads
  <2>2. sent = 0
    BY <2>1 DEF SpliceInv, NumberIsOwn
  <2>3. CASE toBoard' = Append(toBoard, Frame(num, 1)) /\ num' = After(num) /\ sent' = 1 /\ pc' = "ack"
    <3>1. ASSUME rcv.state = "data" PROVE AtMost(toHost', Got + 2 - (sent + 1))
      <4>1. Got = 0 /\ AtMost(toHost, 1)
        BY <1>3, <2>1, <2>2, <3>1 DEF SpliceInv, Receiving
      <4>2. AtMost(toHost', 1)
        BY <1>3, <2>1, <4>1, AtMostRead
      <4> QED BY <2>2, <4>1, <4>2
    <3> QED BY <1>3, <2>1, <2>2, <2>3, <3>1, FrameKeeps
  <2>4. CASE pc' = "done" /\ UNCHANGED <<num, sent, toBoard>>
    BY <2>1, <2>4, StillKeeps
  <2> QED BY <1>4, <2>3, <2>4 DEF FirstRequest, Write
<1>5. CASE Ack
  <2>1. pc = "ack" /\ toHost # <<>> /\ toHost' = Tail(toHost) /\ rcv' = rcv
    BY <1>5 DEF Ack, Reads
  <2>2. CASE /\ Head(toHost) = "ACK" /\ sent < Frames /\ pc' = pc
             /\ toBoard' = Append(toBoard, Frame(num, sent + 1)) /\ num' = After(num) /\ sent' = sent + 1
    <3>1. rcv.state # "ask"
      BY <1>3, <2>1, <2>2, AtMostRead DEF SpliceInv, Asking
    <3>2. ASSUME rcv.state = "data" PROVE AtMost(toHost', Got + 2 - (sent + 1))
      <4>1. AtMost(toHost, Got + 2 - sent) /\ Got + 2 - sent \in Int
        BY <1>3, <2>1, <3>2 DEF SpliceInv, Receiving
      <4>2. AtMost(toHost', (Got + 2 - sent) - 1)
        BY <1>3, <2>1, <2>2, <4>1, AtMostRead
      <4>3. (Got + 2 - sent) - 1 = Got + 2 - (sent + 1)
        BY <1>3
      <4> QED BY <4>2, <4>3
    <3> QED BY <2>1, <2>2, <3>1, <3>2, FrameKeeps
  <2>3. CASE toBoard' = Append(toBoard, EOT) /\ pc' = "eot1" /\ UNCHANGED sent
    BY <2>1, <2>3, EotKeeps
  <2> QED BY <1>5, <2>2, <2>3 DEF Ack, Write, Said
<1>6. CASE Eot1
  BY <1>6, EotKeeps DEF Eot1, Reads, Write
<1>7. CASE CloseRequest
  BY <1>7, ClosingKeeps DEF CloseRequest, Reads, Closing
<1> QED BY <1>1, <1>2, <1>4, <1>5, <1>6, <1>7 DEF SendFile

\* Nothing is sent yet.
LEMMA InitSplice == Init => SpliceInv
<1> SUFFICES ASSUME Init PROVE SpliceInv
  OBVIOUS
<1>1. TypeOK
  BY InitType
<1>2. NumberIsOwn /\ Numbered /\ Increasing /\ Ended /\ NoSplice
  BY DEF Init, NumberIsOwn, Sending, Numbered, Increasing, Ended, NoSplice
<1>3. Asking /\ Receiving
  BY DEF Init, Asking, Receiving, AtMost
<1> QED BY <1>1, <1>2, <1>3 DEF SpliceInv

\* Every step keeps SpliceInv.
LEMMA NextSplice == SpliceInv /\ [Next]_vars => SpliceInv'
<1> SUFFICES ASSUME SpliceInv, [Next]_vars PROVE SpliceInv'
  OBVIOUS
<1>1. TypeOK'
  BY NextType DEF SpliceInv
<1>2. CASE UNCHANGED vars
  <2>1. UNCHANGED <<pc, num, sent, toBoard, toHost, rcv>>
    BY <1>2 DEF vars, sender
  <2>2. NumberIsOwn'
    BY <2>1 DEF SpliceInv, NumberIsOwn, Sending
  <2> QED BY <1>1, <2>1, <2>2, QuietKeeps, UnwrittenLine DEF Ending, Sending
<1> QED BY <1>1, <1>2, SendFileKeeps, GetNameKeeps, GetFrameKeeps, EndKeeps, DisturbedKeeps
        DEF Next, Receiver

-----------------------------------------------------------------------------
(* The receiver is released *)

\* The line and the receiver are left alone.
LEMMA StillReleases ==
  ASSUME ReleaseInv, UNCHANGED <<toBoard, rcv>>, garbled' = 0 => garbled = 0,
         pc' # "request" => pc # "request", pc' = "eot1" => pc = "eot1", Twice' => Twice,
         Closed' => Closed
  PROVE  ReleaseInv'
  BY DEF ReleaseInv, AllGood, NameFirst, EotToCome, ClosingLast, EotLeft, EotsLeft, IsEOT, Closing

\* EOTs on the line after a packet was written ...
LEMMA EotsWritten ==
  ASSUME toBoard \in Seq(Packets), NEW p \in Packets, toBoard' = Append(toBoard, p)
  PROVE  /\ (EotLeft => EotLeft') /\ (EotsLeft => EotsLeft')
         /\ p.kind = "EOT" => EotLeft' /\ (EotLeft => EotsLeft')
<1> DEFINE z == Len(toBoard) + 1
<1>1. /\ DOMAIN toBoard = 1 .. Len(toBoard) /\ DOMAIN toBoard' = 1 .. z /\ Len(toBoard) \in Nat
      /\ \A i \in 1 .. Len(toBoard) : toBoard'[i] = toBoard[i]
      /\ toBoard'[z] = p
  BY Written
<1>2. /\ \A i \in DOMAIN toBoard : i < z /\ i \in DOMAIN toBoard' /\ toBoard'[i] = toBoard[i]
      /\ z \in DOMAIN toBoard' /\ toBoard'[z] = p
  BY <1>1
<1> HIDE DEF z
<1> QED BY <1>2 DEF EotLeft, EotsLeft, IsEOT

\* ... and after one was read.
LEMMA EotsTaken ==
  ASSUME toBoard \in Seq(Packets), toBoard # <<>>, toBoard' = Tail(toBoard)
  PROVE  /\ EotsLeft => EotLeft'
         /\ Head(toBoard).kind # "EOT" => (EotLeft => EotLeft') /\ (EotsLeft => EotsLeft')
         /\ EotLeft' => toBoard' # <<>>
<1>1. /\ Len(toBoard) \in Nat /\ Len(toBoard) >= 1
      /\ DOMAIN toBoard = 1 .. Len(toBoard) /\ DOMAIN toBoard' = 1 .. Len(toBoard) - 1
      /\ \A i \in 1 .. Len(toBoard) - 1 : toBoard'[i] = toBoard[i + 1]
      /\ Head(toBoard) = toBoard[1]
  BY Taken
<1>2. ASSUME NEW k \in DOMAIN toBoard, k # 1
      PROVE  k - 1 \in DOMAIN toBoard' /\ toBoard'[k - 1] = toBoard[k] /\ k > 1
  <2>1. k - 1 \in 1 .. Len(toBoard) - 1 /\ (k - 1) + 1 = k
    BY <1>1, <1>2
  <2> QED BY <1>1, <2>1
<1>3. \A k \in DOMAIN toBoard : k \in Nat
  BY <1>1
<1>4. ASSUME EotsLeft PROVE EotLeft'
  <2>1. PICK i, k \in DOMAIN toBoard : i < k /\ IsEOT(i) /\ IsEOT(k)
    BY <1>4 DEF EotsLeft
  <2>2. k # 1
    BY <1>1, <2>1
  <2> QED BY <1>2, <2>1, <2>2 DEF EotLeft, IsEOT
<1>5. ASSUME Head(toBoard).kind # "EOT", EotLeft PROVE EotLeft'
  <2>1. PICK k \in DOMAIN toBoard : IsEOT(k)
    BY <1>5 DEF EotLeft
  <2>2. k # 1
    BY <1>1, <1>5, <2>1 DEF IsEOT
  <2> QED BY <1>2, <2>1, <2>2 DEF EotLeft, IsEOT
<1>6. ASSUME Head(toBoard).kind # "EOT", EotsLeft PROVE EotsLeft'
  <2>1. PICK i, k \in DOMAIN toBoard : i < k /\ IsEOT(i) /\ IsEOT(k)
    BY <1>6 DEF EotsLeft
  <2>2. i # 1 /\ k # 1
    BY <1>1, <1>6, <2>1 DEF IsEOT
  <2>3. /\ i - 1 \in DOMAIN toBoard' /\ toBoard'[i - 1] = toBoard[i]
        /\ k - 1 \in DOMAIN toBoard' /\ toBoard'[k - 1] = toBoard[k] /\ i - 1 < k - 1
    BY <1>2, <1>3, <2>1, <2>2
  <2> QED BY <2>1, <2>3 DEF EotsLeft, IsEOT
<1>7. EotLeft' => toBoard' # <<>>
  BY DEF EotLeft
<1> QED BY <1>4, <1>5, <1>6, <1>7

\* A packet is written.
LEMMA WriteReleases ==
  ASSUME SpliceInv, ReleaseInv, NEW p \in Packets, toBoard' = Append(toBoard, p), p.good,
         UNCHANGED <<rcv, garbled>>, pc # "request",
         \/ ~Twice' /\ pc' # "eot1"
         \/ p.kind = "EOT" /\ ~Closed' /\ pc' = "eot1"
         \/ p.kind = "EOT" /\ ~Closed' /\ pc = "eot1"
         \/ p = Frame(0, Closing) /\ Twice /\ Closed'
  PROVE  ReleaseInv'
<1> SUFFICES ASSUME garbled = 0 PROVE AllGood' /\ NameFirst' /\ EotToCome' /\ ClosingLast'
  BY DEF ReleaseInv
<1> USE DEF ReleaseInv
<1>1. toBoard \in Seq(Packets)
  BY TypeParts DEF SpliceInv
<1>2. /\ Len(toBoard) \in Nat /\ Len(toBoard') = Len(toBoard) + 1
      /\ DOMAIN toBoard = 1 .. Len(toBoard) /\ DOMAIN toBoard' = 1 .. Len(toBoard) + 1
      /\ \A i \in 1 .. Len(toBoard) : toBoard'[i] = toBoard[i]
      /\ toBoard'[Len(toBoard) + 1] = p
  BY <1>1, Written
<1>3. AllGood'
  BY <1>2 DEF AllGood
<1>4. toBoard' # <<>>
  BY <1>1
<1>5. NameFirst'
  <2>1. toBoard # <<>> => 1 \in 1 .. Len(toBoard)
    BY <1>1, <1>2, EmptySeq
  <2> QED BY <1>2, <1>4, <2>1 DEF NameFirst
<1>6. /\ (EotLeft => EotLeft') /\ (EotsLeft => EotsLeft')
      /\ p.kind = "EOT" => EotLeft' /\ (EotLeft => EotsLeft')
  BY <1>1, EotsWritten
<1>7. EotToCome'
  BY <1>6 DEF EotToCome, Twice, Closed
<1>8. ClosingLast'
  BY <1>2, <1>4 DEF ClosingLast, Twice, Closing
<1> QED BY <1>3, <1>5, <1>7, <1>8

\* A packet is read, and the receiver goes on as it should.
LEMMA TakeReleases ==
  ASSUME SpliceInv, ReleaseInv, toBoard # <<>>, toBoard' = Tail(toBoard), UNCHANGED <<sender, garbled>>,
         garbled = 0 =>
           \/ rcv.state = "ask" /\ rcv'.state = "data" /\ Head(toBoard).kind = "STX"
           \/ rcv.state = "data" /\ rcv'.state = "data" /\ Head(toBoard).kind = "STX"
           \/ rcv.state = "data" /\ rcv'.state = "eot"
           \/ rcv.state = "eot" /\ rcv'.state = "close" /\ Head(toBoard).kind = "EOT"
           \/ rcv.state = "eot" /\ rcv'.state = "eot" /\ Head(toBoard).kind = "STX"
           \/ rcv.state = "close" /\ rcv'.state = "close" /\ ~(Head(toBoard).good /\ Head(toBoard).num = 0)
           \/ rcv'.state = "over"
  PROVE  ReleaseInv'
<1> SUFFICES ASSUME garbled = 0 PROVE AllGood' /\ NameFirst' /\ EotToCome' /\ ClosingLast'
  BY DEF ReleaseInv
<1> USE DEF ReleaseInv
<1>1. toBoard \in Seq(Packets)
  BY TypeParts DEF SpliceInv
<1>2. /\ Len(toBoard) \in Nat /\ Len(toBoard) >= 1 /\ Len(toBoard') = Len(toBoard) - 1
      /\ DOMAIN toBoard = 1 .. Len(toBoard) /\ DOMAIN toBoard' = 1 .. Len(toBoard) - 1
      /\ \A i \in 1 .. Len(toBoard) - 1 : toBoard'[i] = toBoard[i + 1]
      /\ Head(toBoard) = toBoard[1]
  BY <1>1, Taken
<1>3. AllGood'
  BY <1>2 DEF AllGood
<1>4. rcv'.state # "ask"
  OBVIOUS
<1>5. NameFirst'
  BY <1>4 DEF NameFirst
<1>6. /\ EotsLeft => EotLeft'
      /\ Head(toBoard).kind # "EOT" => (EotLeft => EotLeft') /\ (EotsLeft => EotsLeft')
      /\ EotLeft' => toBoard' # <<>>
  BY <1>1, EotsTaken
<1>7. pc' = pc /\ result' = result
  BY DEF sender
<1>8. EotToCome'
  BY <1>6, <1>7 DEF EotToCome, Twice, Closed
<1>9. ClosingLast'
  <2>1. SUFFICES ASSUME Closed, rcv'.state # "over"
                 PROVE  toBoard' # <<>> /\ toBoard'[Len(toBoard')] = Frame(0, Closing)
    BY <1>7 DEF ClosingLast, Closed, Closing
  <2>2. rcv.state # "over" => toBoard[Len(toBoard)] = Frame(0, Closing)
    BY <2>1 DEF ClosingLast
  <2>3. rcv.state # "over"
    BY <2>1
  <2>4. Len(toBoard) # 1
    <3>1. CASE rcv.state = "ask" \/ (rcv.state = "data" /\ Head(toBoard).kind = "STX")
      <4>1. toBoard' # <<>>
        BY <1>6, <2>1, <3>1 DEF EotToCome, Twice
      <4> QED BY <1>2, <4>1
    <3>2. CASE rcv.state = "data" /\ rcv'.state = "eot"
      <4>1. toBoard' # <<>>
        BY <1>6, <2>1, <3>2 DEF EotToCome, Twice
      <4> QED BY <1>2, <4>1
    <3>3. CASE rcv.state = "eot" /\ Head(toBoard).kind = "STX"
      <4>1. toBoard' # <<>>
        BY <1>6, <2>1, <3>3 DEF EotToCome, Twice
      <4> QED BY <1>2, <4>1
    <3>4. CASE rcv.state = "eot" /\ Head(toBoard).kind = "EOT"
      BY <1>2, <2>2, <3>4 DEF Frame
    <3>5. CASE rcv.state = "close"
      BY <1>2, <2>1, <2>2, <3>5 DEF Frame
    <3> QED BY <2>1, <2>3, <3>1, <3>2, <3>3, <3>4, <3>5
  <2>5. /\ Len(toBoard') \in 1 .. Len(toBoard) - 1 /\ Len(toBoard') + 1 = Len(toBoard)
    BY <1>2, <2>4
  <2>6. toBoard' # <<>>
    BY <2>5
  <2>7. toBoard'[Len(toBoard')] = toBoard[Len(toBoard)]
    BY <1>2, <2>5
  <2> QED BY <2>2, <2>3, <2>6, <2>7
<1> QED BY <1>3, <1>5, <1>8, <1>9

\* Every step of SendFile ...
LEMMA SendFileReleases == SpliceInv /\ ReleaseInv /\ SendFile => ReleaseInv'
<1> SUFFICES ASSUME SpliceInv, ReleaseInv, SendFile PROVE ReleaseInv'
  OBVIOUS
<1>1. rcv' = rcv /\ garbled' = garbled
  BY DEF SendFile, WaitForRequest, FirstAck, FirstRequest, Ack, Eot1, Eot2, CloseRequest, CloseAck, faults
<1>2. num \in 0 .. Numbers - 1 /\ sent \in 0 .. Frames /\ (sent < Frames => sent + 1 \in 0 .. Frames + 1)
  BY TypeParts, YModemAssumption DEF SpliceInv, SenderType, CountType
<1>3. \A n, d : Frame(n, d).good /\ Frame(n, d).kind = "STX"
  BY DEF Frame
<1>4. EOT.good /\ EOT.kind = "EOT" /\ EOT \in Packets
  BY PacketsType DEF EOT
<1>5. CASE WaitForRequest
  <2>1. CASE pc' = "firstAck" /\ toBoard' = Append(toBoard, Frame(num, 0))
    <3>1. pc = "request" /\ num = 0 /\ toBoard = <<>>
      BY <1>5 DEF WaitForRequest, Reads, SpliceInv, NumberIsOwn
    <3>2. toBoard' = <<Frame(0, 0)>>
      BY <2>1, <3>1
    <3>3. AllGood' /\ NameFirst'
      BY <1>3, <3>2 DEF AllGood, NameFirst
    <3>4. EotToCome' /\ ClosingLast'
      BY <2>1 DEF EotToCome, ClosingLast, Twice, Closed
    <3> QED BY <3>3, <3>4 DEF ReleaseInv
  <2>2. CASE UNCHANGED <<pc, toBoard>>
    BY <1>1, <1>5, <2>2, StillReleases DEF WaitForRequest, Twice, Closed
  <2> QED BY <1>5, <2>1, <2>2 DEF WaitForRequest, Write
<1>6. CASE FirstAck \/ Eot2 \/ CloseAck
  <2>1. /\ UNCHANGED toBoard /\ (pc' # "request" => pc # "request") /\ (pc' = "eot1" => pc = "eot1")
        /\ (Twice' => Twice) /\ (Closed' => Closed)
    BY <1>6 DEF FirstAck, Eot2, CloseAck, Reads, Twice, Closed
  <2> QED BY <1>1, <2>1, StillReleases
<1>7. CASE FirstRequest
  <2>1. pc = "firstRequest"
    BY <1>7 DEF FirstRequest, Reads
  <2>2. CASE pc' = "ack" /\ toBoard' = Append(toBoard, Frame(num, 1))
    <3>1. Frame(num, 1) \in Packets
      BY <1>2, PacketsType
    <3> QED BY <1>1, <1>3, <2>1, <2>2, <3>1, WriteReleases DEF Twice, Closed
  <2>3. CASE pc' = "done" /\ result' = FALSE /\ toBoard' = toBoard
    BY <1>1, <2>1, <2>3, StillReleases DEF Twice, Closed
  <2> QED BY <1>7, <2>2, <2>3 DEF FirstRequest, Write
<1>8. CASE Ack
  <2>1. pc = "ack"
    BY <1>8 DEF Ack, Reads
  <2>2. CASE sent < Frames /\ pc' = pc /\ toBoard' = Append(toBoard, Frame(num, sent + 1))
    <3>1. Frame(num, sent + 1) \in Packets
      BY <1>2, <2>2, PacketsType
    <3> QED BY <1>1, <1>3, <2>1, <2>2, <3>1, WriteReleases DEF Twice, Closed
  <2>3. CASE pc' = "eot1" /\ toBoard' = Append(toBoard, EOT)
    BY <1>1, <1>4, <2>1, <2>3, WriteReleases DEF Closed
  <2> QED BY <1>8, <2>2, <2>3 DEF Ack, Write
<1>9. CASE Eot1
  <2>1. pc = "eot1" /\ pc' = "eot2" /\ toBoard' = Append(toBoard, EOT)
    BY <1>9 DEF Eot1, Reads, Write
  <2> QED BY <1>1, <1>4, <2>1, WriteReleases DEF Closed
<1>10. CASE CloseRequest
  <2>1. pc = "closeRequest" /\ pc' = "closeAck" /\ toBoard' = Append(toBoard, Frame(0, Closing))
    BY <1>10 DEF CloseRequest, Reads, Closing
  <2>2. Frame(0, Closing) \in Packets
    BY PacketsType
  <2> QED BY <1>1, <1>3, <2>1, <2>2, WriteReleases DEF Twice, Closed
<1> QED BY <1>5, <1>6, <1>7, <1>8, <1>9, <1>10 DEF SendFile

\* ... and of the receiver ...
LEMMA ReceiverReleases == SpliceInv /\ ReleaseInv /\ Receiver => ReleaseInv'
<1> SUFFICES ASSUME SpliceInv, ReleaseInv, Receiver PROVE ReleaseInv'
  OBVIOUS
<1> DEFINE p == Head(toBoard)
<1>1. CASE AskAgain
  BY <1>1, StillReleases DEF AskAgain, sender, Twice, Closed
<1>2. ASSUME toBoard # <<>> PROVE p \in Packets /\ (p.kind = "STX" \/ p.kind = "EOT") /\ p = toBoard[1]
  <2>1. p \in Packets /\ p = toBoard[1]
    BY <1>2, TypeParts DEF SpliceInv
  <2> QED BY <2>1 DEF Packets
<1>3. CASE GetName
  <2>1. /\ toBoard # <<>> /\ toBoard' = Tail(toBoard) /\ UNCHANGED <<sender, garbled>> /\ rcv.state = "ask"
    BY <1>3 DEF GetName, Answers, faults
  <2>2. pc # "request"
    BY <2>1 DEF SpliceInv, NumberIsOwn
  <2>3. garbled = 0 => p = Frame(0, 0)
    BY <1>2, <2>1, <2>2 DEF ReleaseInv, NameFirst
  <2>4. garbled = 0 => p.kind = "STX" /\ rcv' = [rcv EXCEPT !.state = "data", !.next = 1]
    BY <1>3, <2>3 DEF GetName, Answers, Frame
  <2>5. garbled = 0 => rcv'.state = "data"
    BY <2>4, TypeParts DEF SpliceInv, RcvType
  <2> QED BY <2>1, <2>4, <2>5, TakeReleases
<1>4. CASE GetFrame
  <2>1. /\ toBoard # <<>> /\ toBoard' = Tail(toBoard) /\ UNCHANGED <<sender, garbled>> /\ rcv.state = "data"
    BY <1>4, GetFrameIs DEF Answers, faults, SpliceInv
  <2>2. rcv'.state = "eot" \/ (rcv'.state = "data" /\ p.kind = "STX")
    BY <1>4, GetFrameIs, TypeParts DEF Answers, SpliceInv, RcvType
  <2> QED BY <2>1, <2>2, TakeReleases
<1>5. CASE GetEnd
  <2>1. /\ toBoard # <<>> /\ toBoard' = Tail(toBoard) /\ UNCHANGED <<sender, garbled>> /\ rcv.state = "eot"
    BY <1>5 DEF GetEnd, Answers, faults
  <2>2. (rcv'.state = "close" /\ p.kind = "EOT") \/ (rcv'.state = "eot" /\ p.kind # "EOT")
    BY <1>5, TypeParts DEF GetEnd, Answers, SpliceInv, RcvType
  <2> QED BY <1>2, <2>1, <2>2, TakeReleases
<1>6. CASE GetClosing
  <2>1. /\ toBoard # <<>> /\ toBoard' = Tail(toBoard) /\ UNCHANGED <<sender, garbled>>
        /\ rcv.state \in {"close", "over"}
    BY <1>6 DEF GetClosing, Answers, faults
  <2>2. rcv'.state = "over" \/ (rcv' = rcv /\ ~(p.good /\ p.num = 0))
    BY <1>6, TypeParts DEF GetClosing, Answers, SpliceInv, RcvType
  <2> QED BY <2>1, <2>2, TakeReleases
<1> QED BY <1>1, <1>3, <1>4, <1>5, <1>6 DEF Receiver

\* ... keeps ReleaseInv.
LEMMA NextReleases == SpliceInv /\ ReleaseInv /\ [Next]_vars => ReleaseInv'
<1> SUFFICES ASSUME SpliceInv, ReleaseInv, [Next]_vars PROVE ReleaseInv'
  OBVIOUS
<1>1. CASE Noise
  BY <1>1, StillReleases DEF Noise, sender, Twice, Closed
<1>2. CASE Garble
  <2>1. garbled' # 0
    BY <1>2, TypeParts, YModemAssumption DEF Garble, SpliceInv, FaultsType
  <2> QED BY <2>1 DEF ReleaseInv
<1>3. CASE UNCHANGED vars
  BY <1>3, StillReleases DEF vars, sender, faults, Twice, Closed
<1> QED BY <1>1, <1>2, <1>3, SendFileReleases, ReceiverReleases DEF Next

-----------------------------------------------------------------------------
(* A transfer without disturbance is whole *)

\* In a quiet run of the past, too.
LEMMA QuietBefore == TypeOK /\ [Next]_vars /\ Quiet' => Quiet
<1> SUFFICES ASSUME TypeOK, [Next]_vars, Quiet' PROVE Quiet
  OBVIOUS
<1>1. noise \in Nat /\ asks \in Nat /\ garbled \in Nat /\ Waits \in Nat
  BY TypeParts, YModemAssumption DEF FaultsType
<1>2. CASE SendFile \/ UNCHANGED vars
  <2>1. UNCHANGED faults
    BY <1>2 DEF SendFile, WaitForRequest, FirstAck, FirstRequest, Ack, Eot1, Eot2, CloseRequest,
                CloseAck, vars
  <2> QED BY <2>1 DEF Quiet, faults
<1>3. CASE GetName \/ GetEnd \/ GetClosing
  <2>1. UNCHANGED faults
    BY <1>3 DEF GetName, GetEnd, GetClosing, Answers
  <2> QED BY <2>1 DEF Quiet, faults
<1>4. CASE GetFrame
  <2>1. UNCHANGED faults
    BY <1>4, GetFrameIs DEF Answers
  <2> QED BY <2>1 DEF Quiet, faults
<1>5. CASE AskAgain \/ Noise \/ Garble
  BY <1>1, <1>5 DEF AskAgain, Noise, Garble, Quiet
<1> QED BY <1>2, <1>3, <1>4, <1>5 DEF Next, Receiver

\* WaitForResponse reads the bytes before the request.
LEMMA RequestLocksteps ==
  ASSUME SpliceInv, Lockstep, Quiet, Quiet', WaitForRequest \/ (Noise /\ pc = "request")
  PROVE  Lockstep'
<1>1. pc = "request" /\ toHost \in Seq(Bytes)
  BY TypeParts DEF WaitForRequest, Reads, SpliceInv
<1>2. /\ toBoard = <<>> /\ rcv = [state |-> "ask", next |-> 0, file |-> <<>>]
      /\ Len(toHost) = noise + 1 - tries /\ tries <= noise
      /\ \A i \in DOMAIN toHost : toHost[i] = IF i = Len(toHost) THEN "C" ELSE "other"
  BY <1>1 DEF Lockstep
<1>3. /\ noise \in Nat /\ tries \in 0 .. Waits - 1 /\ noise <= Waits /\ Waits \in Nat
      /\ DOMAIN toHost = 1 .. Len(toHost) /\ Len(toHost) \in Nat /\ num = 0
  BY <1>1, TypeParts, LenProperties, YModemAssumption
     DEF SpliceInv, NumberIsOwn, SenderType, CountType, FaultsType, Quiet
<1>4. CASE WaitForRequest
  <2>1. toHost' = Tail(toHost) /\ rcv' = rcv /\ noise' = noise
    BY <1>4 DEF WaitForRequest, Reads, faults
  <2>2. /\ Len(toHost') = Len(toHost) - 1 /\ toHost' \in Seq(Bytes) /\ DOMAIN toHost' = 1 .. Len(toHost) - 1
        /\ \A i \in DOMAIN toHost' : toHost'[i] = toHost[i + 1]
        /\ Head(toHost) = toHost[1] /\ Len(toHost) >= 1
    <3>0. toHost # <<>>
      BY <1>4 DEF WaitForRequest, Reads
    <3>1. Tail(toHost) \in Seq(Bytes) /\ Len(Tail(toHost)) = Len(toHost) - 1
          /\ \A i \in 1 .. Len(Tail(toHost)) : Tail(toHost)[i] = toHost[i + 1]
      BY <1>1, <3>0, HeadTailProperties
    <3>2. DOMAIN Tail(toHost) = 1 .. Len(Tail(toHost))
      BY <3>1, LenProperties
    <3>3. Len(toHost) >= 1
      BY <1>1, <1>3, <3>0, EmptySeq
    <3> QED BY <1>1, <2>1, <3>1, <3>2, <3>3
  <2>3. CASE /\ Head(toHost) = "C" \/ tries = Waits - 1
             /\ toBoard' = Append(toBoard, Frame(num, 0)) /\ pc' = "firstAck"
    <3>1. toBoard' = <<Frame(0, 0)>>
      BY <1>2, <1>3, <2>3
    <3>2. CASE Head(toHost) = "C"
      <4>1. Len(toHost) = 1
        BY <1>2, <1>3, <2>2, <3>2
      <4>2. toHost' = <<>>
        BY <2>2, <4>1, EmptySeq
      <4> QED BY <1>2, <2>1, <2>3, <3>1, <4>2 DEF Lockstep, AtName, Ending, Closed
    <3>3. CASE Head(toHost) # "C" /\ tries = Waits - 1
      <4>1. Len(toHost) # 1
        BY <1>2, <1>3, <2>2, <3>3
      <4>2. Len(toHost) = 2
        BY <1>2, <1>3, <2>2, <3>3, <4>1
      <4>3. Len(toHost') = 1 /\ toHost'[1] = "C"
        <5>1. Len(toHost') = 1 /\ 1 \in DOMAIN toHost' /\ 2 \in DOMAIN toHost
          BY <1>3, <2>2, <4>2
        <5>2. toHost'[1] = toHost[1 + 1] /\ 1 + 1 = 2
          BY <2>2, <5>1
        <5>3. toHost[2] = "C"
          BY <1>2, <4>2, <5>1
        <5> QED BY <5>1, <5>2, <5>3
      <4>4. toHost' = <<"C">>
        <5> DEFINE q == <<"C">>
        <5>1. q \in Seq(Bytes) /\ Len(q) = 1 /\ q[1] = "C"
          BY DEF Bytes
        <5> HIDE DEF q
        <5>2. \A i \in 1 .. Len(q) : toHost'[i] = q[i]
          BY <4>3, <5>1
        <5>3. toHost' = q
          BY <2>2, <4>3, <5>1, <5>2, SeqEqual
        <5> QED BY <5>3 DEF q
      <4> QED BY <1>2, <2>1, <2>3, <3>1, <4>4 DEF Lockstep, AtNameLate, Ending, Closed
    <3> QED BY <2>3, <3>2, <3>3
  <2>4. CASE Head(toHost) # "C" /\ tries' = tries + 1 /\ UNCHANGED <<pc, toBoard>>
    <3>1. Len(toHost) # 1
      BY <1>2, <1>3, <2>2, <2>4
    <3>2. Len(toHost') = noise' + 1 - tries' /\ tries' <= noise'
      BY <1>2, <1>3, <2>1, <2>2, <2>4, <3>1
    <3>3. \A i \in DOMAIN toHost' : toHost'[i] = IF i = Len(toHost') THEN "C" ELSE "other"
      BY <1>2, <1>3, <2>2
    <3> QED BY <1>1, <1>2, <2>1, <2>4, <3>2, <3>3 DEF Lockstep, Ending, Closed
  <2> QED BY <1>4, <2>3, <2>4 DEF WaitForRequest, Said, Write
<1>5. CASE Noise
  <2>1. toHost' = <<"other">> \o toHost /\ noise' = noise + 1 /\ UNCHANGED <<pc, tries, toBoard, rcv>>
    BY <1>5 DEF Noise, sender
  <2>2. /\ Len(toHost') = Len(toHost) + 1 /\ DOMAIN toHost' = 1 .. Len(toHost) + 1 /\ toHost'[1] = "other"
        /\ \A i \in 2 .. Len(toHost) + 1 : toHost'[i] = toHost[i - 1]
    BY <1>1, <2>1
  <2>3. Len(toHost') = noise' + 1 - tries' /\ tries' <= noise' /\ Len(toHost) >= 1
    BY <1>2, <1>3, <2>1, <2>2
  <2>4. \A i \in DOMAIN toHost' : toHost'[i] = IF i = Len(toHost') THEN "C" ELSE "other"
    <3>1. SUFFICES ASSUME NEW i \in DOMAIN toHost'
                   PROVE  toHost'[i] = IF i = Len(toHost') THEN "C" ELSE "other"
      OBVIOUS
    <3>2. CASE i = 1
      BY <1>3, <2>2, <2>3, <3>2
    <3>3. CASE i # 1
      <4>1. i - 1 \in DOMAIN toHost /\ i \in 2 .. Len(toHost) + 1 /\ (i = Len(toHost') <=> i - 1 = Len(toHost))
        BY <1>3, <2>2, <3>3
      <4> QED BY <1>2, <2>2, <4>1
    <3> QED BY <3>2, <3>3
  <2> QED BY <1>1, <1>2, <2>1, <2>3, <2>4 DEF Lockstep, Ending, Closed
<1> QED BY <1>4, <1>5

\* The answers to the name, read one after the other.
LEMMA NameAnswers ==
  /\ Tail(<<"C">>) = <<>> /\ Tail(<<"ACK", "C">>) = <<"C">>
  /\ Tail(<<"C", "ACK", "C">>) = <<"ACK", "C">>
  /\ <<>> \o <<"ACK", "C">> = <<"ACK", "C">> /\ <<"C">> \o <<"ACK", "C">> = <<"C", "ACK", "C">>
<1>1. Tail(<<"C">>) = <<>>
  OBVIOUS
<1>2. Tail(<<"ACK", "C">>) = <<"C">>
  OBVIOUS
<1>3. Tail(<<"C", "ACK", "C">>) = <<"ACK", "C">>
  OBVIOUS
<1>4. <<>> \o <<"ACK", "C">> = <<"ACK", "C">>
  OBVIOUS
<1>5. <<"C">> \o <<"ACK", "C">> = <<"C", "ACK", "C">>
  <2> DEFINE q == <<"C">>
             r == <<"ACK", "C">>
             t == <<"C", "ACK", "C">>
  <2>1. /\ q \in Seq(Bytes) /\ Len(q) = 1 /\ q[1] = "C"
        /\ r \in Seq(Bytes) /\ Len(r) = 2 /\ r[1] = "ACK" /\ r[2] = "C"
        /\ t \in Seq(Bytes) /\ Len(t) = 3 /\ t[1] = "C" /\ t[2] = "ACK" /\ t[3] = "C"
    BY DEF Bytes
  <2> HIDE DEF q, r, t
  <2>2. /\ q \o r \in Seq(Bytes) /\ Len(q \o r) = Len(q) + Len(r)
        /\ \A i \in 1 .. Len(q) + Len(r) :
             (q \o r)[i] = IF i <= Len(q) THEN q[i] ELSE r[i - Len(q)]
    <3>1. q \in Seq(Bytes) /\ r \in Seq(Bytes)
      BY <2>1
    <3> QED BY <3>1, ConcatProperties
  <2>3. Len(q) + Len(r) = 3 /\ 1 \in 1 .. 3 /\ 2 \in 1 .. 3 /\ 3 \in 1 .. 3
    BY <2>1
  <2>4. \A i \in 1 .. Len(t) : (q \o r)[i] = t[i]
    <3>1. (q \o r)[1] = "C" /\ (q \o r)[2] = r[1] /\ (q \o r)[3] = r[2]
      BY <2>1, <2>2, <2>3
    <3>2. ASSUME NEW i \in 1 .. Len(t) PROVE i = 1 \/ i = 2 \/ i = 3
      BY <2>1
    <3> QED BY <2>1, <3>1, <3>2
  <2>5. q \o r = t
    BY <2>1, <2>2, <2>4, SeqEqual
  <2> QED BY <2>5 DEF q, r, t
<1> QED BY <1>1, <1>2, <1>3, <1>4, <1>5

\* The name is answered, and the first request is read.
LEMMA NameLocksteps ==
  ASSUME SpliceInv, Lockstep, Quiet, Quiet', FirstAck \/ FirstRequest
  PROVE  Lockstep'
<1> USE DEF Lockstep
<1>1. CASE FirstAck
  <2>1. pc = "firstAck" /\ toHost # <<>> /\ toHost' = Tail(toHost) /\ pc' = "firstRequest" /\ UNCHANGED <<toBoard, rcv>>
    BY <1>1 DEF FirstAck, Reads
  <2>2. rcv.file = <<>> /\ (rcv.state = "data" => rcv.next = 1) /\ (AtName \/ AtNameLate)
    BY <2>1
  <2>3. \/ rcv.state = "data" /\ toBoard = <<>> /\ toHost' = <<"C">>
        \/ AtName'
    <3>1. CASE AtName
      BY <2>1, <3>1, NameAnswers DEF AtName
    <3>2. CASE AtNameLate
      <4>1. (rcv.state = "ask" /\ toBoard = <<Frame(0, 0)>> /\ toHost' = <<>>)
            \/ (rcv.state = "data" /\ toBoard = <<>> /\ toHost' = <<"ACK", "C">>)
        BY <2>1, <3>2, NameAnswers DEF AtNameLate
      <4>2. Frame(0, 0)' = Frame(0, 0)
        BY DEF Frame
      <4> QED BY <2>1, <4>1, <4>2 DEF AtName
    <3> QED BY <2>2, <3>1, <3>2
  <2> QED BY <2>1, <2>2, <2>3 DEF Ending, Closed
<1>2. CASE FirstRequest
  <2>1. pc = "firstRequest" /\ toHost # <<>> /\ toHost' = Tail(toHost) /\ rcv' = rcv
    BY <1>2 DEF FirstRequest, Reads
  <2>2. num = 1 /\ sent = 0
    BY <2>1, SmallNumbers DEF SpliceInv, NumberIsOwn, Sending
  <2>3. CASE toBoard' = Append(toBoard, Frame(num, 1)) /\ sent' = 1 /\ pc' = "ack" /\ Head(toHost) = "C"
    <3>1. rcv.state = "data" /\ toBoard = <<>> /\ toHost = <<"C">>
      BY <2>1, <2>3 DEF AtName
    <3>2. rcv.file = <<>> /\ rcv.next = 1
      BY <2>1, <3>1
    <3>3. toHost' = <<>> /\ toBoard' = <<Frame(1, 1)>> /\ Len(rcv.file) = 0
      BY <2>1, <2>2, <2>3, <3>1, <3>2
    <3>4. sent' % Numbers = 1
      BY <2>3, SmallNumbers
    <3>5. AtFrame'
      BY <2>1, <2>3, <3>1, <3>2, <3>3, <3>4 DEF AtFrame, Got
    <3> QED BY <2>3, <3>5 DEF Ending, Closed
  <2>4. CASE pc' = "done" /\ result' = FALSE
    BY <2>4 DEF Ending, Closed
  <2> QED BY <1>2, <2>3, <2>4 DEF FirstRequest, Write, Said
<1> QED BY <1>1, <1>2

\* Frame after frame is acknowledged, and then the end is sent.
LEMMA AckLocksteps ==
  ASSUME SpliceInv, Lockstep, Quiet, Quiet', Ack
  PROVE  Lockstep'
<1> USE DEF Lockstep
<1>1. pc = "ack" /\ toHost # <<>> /\ toHost' = Tail(toHost) /\ rcv' = rcv
  BY DEF Ack, Reads
<1>2. rcv.state = "data" /\ rcv.next = Got + 1 /\ toBoard = <<>> /\ toHost = <<"ACK">> /\ Got = sent
  BY <1>1 DEF AtFrame
<1>3. toHost' = <<>> /\ Head(toHost) = "ACK"
  BY <1>1, <1>2
<1>4. num = (sent + 1) % Numbers /\ sent \in 0 .. Frames /\ Frames \in Nat
  BY <1>1, TypeParts, YModemAssumption DEF SpliceInv, NumberIsOwn, Sending, SenderType, CountType
<1>5. CASE sent < Frames
  <2>1. toBoard' = <<Frame(num, sent + 1)>> /\ sent' = sent + 1 /\ pc' = "ack"
    BY <1>1, <1>2, <1>3, <1>5 DEF Ack, Said, Write
  <2>2. AtFrame'
    BY <1>1, <1>2, <1>3, <1>4, <2>1 DEF AtFrame, Got
  <2> QED BY <2>1, <2>2 DEF Ending, Closed
<1>6. CASE ~(sent < Frames)
  <2>1. toBoard' = <<EOT>> /\ pc' = "eot1" /\ Got = Frames
    BY <1>2, <1>4, <1>6 DEF Ack, Write
  <2>2. toBoard' # <<>> /\ Head(toBoard').kind = "EOT"
    BY <2>1 DEF EOT
  <2> QED BY <1>1, <1>2, <2>1, <2>2 DEF Ending, Closed, Got
<1> QED BY <1>5, <1>6

\* Nothing more comes after the end.
LEMMA EndLocksteps ==
  ASSUME SpliceInv, Lockstep, Quiet, Quiet', Eot1 \/ Eot2 \/ CloseRequest \/ CloseAck
  PROVE  Lockstep'
<1> USE DEF Lockstep
<1>1. Ending \/ Closed
  BY DEF Eot1, Eot2, CloseRequest, CloseAck, Reads, Ending, Closed
<1>2. rcv' = rcv /\ Got = Frames /\ rcv.state # "ask"
      /\ (rcv.state = "data" => toBoard # <<>> /\ Head(toBoard).kind = "EOT")
  BY <1>1 DEF Eot1, Eot2, CloseRequest, CloseAck
<1>3. pc' \in {"eot2", "closeRequest", "closeAck", "done"}
  BY DEF Eot1, Eot2, CloseRequest, CloseAck
<1>4. toBoard # <<>> => toBoard' # <<>> /\ Head(toBoard') = Head(toBoard)
  <2>1. toBoard \in Seq(Packets)
    BY TypeParts DEF SpliceInv
  <2>2. CASE toBoard' = toBoard
    BY <2>2
  <2>3. CASE Eot1 \/ CloseRequest
    <3>1. PICK p \in Packets : toBoard' = Append(toBoard, p)
      BY <2>3, PacketsType DEF Eot1, CloseRequest, Write, Closing
    <3>2. toBoard # <<>> => Len(toBoard) >= 1 /\ 1 \in 1 .. Len(toBoard)
      BY <2>1, EmptySeq, LenProperties
    <3> QED BY <2>1, <3>1, <3>2, Written
  <2> QED BY <2>2, <2>3 DEF Eot2, CloseAck
<1> QED BY <1>2, <1>3, <1>4 DEF Got

\* The receiver answers what it is sent.
LEMMA ReceiverLocksteps ==
  ASSUME SpliceInv, Lockstep, Quiet, Quiet', Receiver
  PROVE  Lockstep'
<1> USE DEF Lockstep
<1>1. toBoard \in Seq(Packets)
  BY TypeParts DEF SpliceInv
<1>2. pc \in Waiting \cup {"done"}
  BY TypeParts DEF SpliceInv, SenderType, StageType
<1>3. CASE GetName
  <2>1. toBoard # <<>> /\ rcv.state = "ask" /\ toBoard' = Tail(toBoard) /\ UNCHANGED <<pc, result>>
    BY <1>3 DEF GetName, Answers, sender
  <2>2. pc \in {"firstAck", "firstRequest"} \/ (pc = "done" /\ ~result)
    BY <1>2, <2>1 DEF Waiting, AtFrame, Ending, Closed
  <2>3. CASE pc = "done" /\ ~result
    BY <2>1, <2>3 DEF Ending, Closed
  <2>4. CASE pc \in {"firstAck", "firstRequest"}
    <3>1. toBoard = <<Frame(0, 0)>> /\ rcv.file = <<>>
      BY <2>1, <2>4 DEF AtName, AtNameLate
    <3>2. Head(toBoard) = Frame(0, 0) /\ toBoard' = <<>>
      BY <2>1, <3>1
    <3>3. rcv' = [rcv EXCEPT !.state = "data", !.next = 1] /\ toHost' = toHost \o <<"ACK", "C">>
      BY <1>3, <3>2 DEF GetName, Answers, Frame
    <3>4. rcv'.state = "data" /\ rcv'.next = 1 /\ rcv'.file = <<>>
      BY <3>1, <3>3, TypeParts DEF SpliceInv, RcvType
    <3>5. toHost = <<>> => AtName'
      BY <3>2, <3>3, <3>4 DEF AtName
    <3>6. toHost = <<"C">> => AtNameLate'
      BY <3>2, <3>3, <3>4, NameAnswers DEF AtNameLate
    <3>7. toHost = <<>> \/ (pc = "firstAck" /\ toHost = <<"C">>)
      BY <2>1, <2>4 DEF AtName, AtNameLate
    <3> QED BY <2>1, <2>4, <3>4, <3>5, <3>6, <3>7 DEF Ending, Closed
  <2> QED BY <2>2, <2>3, <2>4
<1>4. CASE GetFrame
  <2> DEFINE p == Head(toBoard)
  <2>1. toBoard # <<>> /\ rcv.state = "data" /\ toBoard' = Tail(toBoard) /\ UNCHANGED <<pc, sent, result>>
    BY <1>4, GetFrameIs DEF Answers, sender, SpliceInv
  <2>2. pc = "ack" \/ Ending \/ Closed \/ (pc = "done" /\ ~result)
    BY <1>2, <2>1 DEF Waiting, AtName, AtNameLate, Ending, Closed
  <2>3. CASE pc = "ack"
    <3>1. toBoard = <<Frame(sent % Numbers, sent)>> /\ toHost = <<>> /\ Got + 1 = sent /\ rcv.next = Got + 1
      BY <2>1, <2>3 DEF AtFrame
    <3>2. p = Frame(sent % Numbers, sent) /\ toBoard' = <<>>
      BY <2>1, <3>1
    <3>3. p.kind = "STX" /\ p.good /\ p.num = rcv.next % Numbers
      BY <3>1, <3>2 DEF Frame
    <3>4. /\ rcv' = [rcv EXCEPT !.next = @ + 1, !.file = Append(@, p.data)]
          /\ toHost' = toHost \o <<"ACK">>
      BY <1>4, <3>3, GetFrameIs DEF Answers, SpliceInv
    <3>5. rcv'.state = "data" /\ rcv'.next = rcv.next + 1 /\ rcv'.file = Append(rcv.file, p.data)
      BY <2>1, <3>4, TypeParts DEF SpliceInv, RcvType
    <3>6. rcv.file \in Seq(0 .. Frames + 1) /\ p.data \in 0 .. Frames + 1
      <4>1. Head(toBoard) \in Packets
        BY <1>1, <2>1
      <4>2. p.data \in 0 .. Frames + 1
        BY <4>1 DEF Packets
      <4> QED BY <4>2, TypeParts DEF SpliceInv, RcvType
    <3>7. Got' = Got + 1
      <4> DEFINE f == rcv.file
                 e == p.data
      <4>1. f \in Seq(0 .. Frames + 1) /\ e \in 0 .. Frames + 1
        BY <3>6
      <4> HIDE DEF f, e
      <4>2. Len(Append(f, e)) = Len(f) + 1
        BY <4>1, AppendProperties
      <4> QED BY <3>5, <4>2 DEF f, e, Got
    <3>8. toHost' = <<"ACK">>
      BY <3>1, <3>4
    <3>9. AtFrame'
      BY <2>1, <3>1, <3>2, <3>5, <3>7, <3>8 DEF AtFrame
    <3> QED BY <2>1, <2>3, <3>9 DEF Ending, Closed
  <2>4. CASE Ending \/ Closed
    <3>1. p.kind = "EOT" /\ Got = Frames
      BY <2>1, <2>4
    <3>2. rcv' = [rcv EXCEPT !.state = "eot"]
      BY <1>4, <3>1, GetFrameIs DEF Answers, SpliceInv
    <3>3. rcv'.state = "eot" /\ rcv'.file = rcv.file
      BY <3>2, TypeParts DEF SpliceInv, RcvType
    <3> QED BY <2>1, <2>4, <3>1, <3>3 DEF Ending, Closed, Got
  <2>5. CASE pc = "done" /\ ~result
    BY <2>1, <2>5 DEF Ending, Closed
  <2> QED BY <2>2, <2>3, <2>4, <2>5
<1>5. CASE GetEnd \/ GetClosing
  <2>1. rcv.state \notin {"ask", "data"} /\ UNCHANGED <<pc, result>> /\ toBoard # <<>>
    BY <1>5 DEF GetEnd, GetClosing, Answers, sender
  <2>2. rcv'.state \notin {"ask", "data"} /\ rcv'.file = rcv.file
    BY <1>5, TypeParts DEF GetEnd, GetClosing, Answers, SpliceInv, RcvType
  <2>3. Ending \/ Closed \/ (pc = "done" /\ ~result)
    BY <1>2, <2>1 DEF Waiting, AtName, AtNameLate, AtFrame, Ending, Closed
  <2> QED BY <2>1, <2>2, <2>3 DEF Ending, Closed, Got
<1>6. CASE AskAgain
  <2>1. UNCHANGED <<pc, result>> /\ rcv.state = "ask" /\ toBoard = <<>> /\ toHost = <<>>
    <3>1. asks \in Nat /\ asks = 0 /\ asks' = 0
      BY TypeParts, YModemAssumption DEF SpliceInv, FaultsType, Quiet
    <3> QED BY <1>6, <3>1 DEF AskAgain, sender
  <2>2. pc # "request"
    <3>1. ASSUME pc = "request" PROVE FALSE
      <4>1. Len(toHost) = noise + 1 - tries /\ tries <= noise
        BY <3>1
      <4>2. Len(toHost) = 0 /\ noise \in Nat /\ tries \in Nat
        BY <2>1, TypeParts, YModemAssumption DEF SpliceInv, FaultsType, SenderType, CountType
      <4> QED BY <4>1, <4>2
    <3> QED BY <3>1
  <2>3. pc = "done" /\ ~result
    BY <1>2, <2>1, <2>2 DEF Waiting, AtName, AtNameLate, AtFrame, Ending, Closed
  <2> QED BY <2>1, <2>3 DEF Ending, Closed
<1> QED BY <1>3, <1>4, <1>5, <1>6 DEF Receiver

\* Every step keeps Lockstep.
LEMMA NextLocksteps == SpliceInv /\ Lockstep /\ [Next]_vars => Lockstep'
<1> SUFFICES ASSUME SpliceInv, Lockstep, [Next]_vars, Quiet, Quiet' PROVE Lockstep'
  BY QuietBefore DEF SpliceInv, Lockstep
<1>1. CASE SendFile
  BY <1>1, RequestLocksteps, NameLocksteps, AckLocksteps, EndLocksteps DEF SendFile
<1>2. CASE Noise
  BY <1>2, RequestLocksteps DEF Noise
<1>3. CASE Garble
  <2>1. garbled' # 0
    BY <1>3, TypeParts, YModemAssumption DEF Garble, SpliceInv, FaultsType
  <2> QED BY <2>1 DEF Quiet
<1>4. CASE UNCHANGED vars
  BY <1>4 DEF vars, sender, faults, Lockstep, AtName, AtNameLate, AtFrame, Ending, Closed, Got
<1> QED BY <1>1, <1>2, <1>3, <1>4, ReceiverLocksteps DEF Next

-----------------------------------------------------------------------------
(* Theorems *)

\* SendFile has begun.
LEMMA InitInv == Init => Inv
<1> SUFFICES ASSUME Init PROVE Inv
  OBVIOUS
<1>1. ReleaseInv
  BY DEF Init, ReleaseInv, AllGood, NameFirst, EotToCome, ClosingLast, Twice, Closed
<1>2. Lockstep
  BY DEF Init, Lockstep, Ending, Closed
<1> QED BY <1>1, <1>2, InitSplice DEF Inv

\* The inductive invariant: the frames on the line are numbered one after the
\* other, SendFile is at most two frames ahead of the receiver by the
\* acknowledgements on their way, and the end is never overtaken.
THEOREM LineInvariant == Spec => []Inv
<1>1. Inv /\ [Next]_vars => Inv'
  BY NextSplice, NextReleases, NextLocksteps DEF Inv
<1> QED BY <1>1, InitInv, PTL DEF Spec

\* SendFile, the receiver and the line keep to their types.
THEOREM TypeCorrect == Spec => []TypeOK
<1>1. Inv => TypeOK
  BY DEF Inv, SpliceInv
<1> QED BY <1>1, LineInvariant, PTL

\* What is received is a beginning of the file, whatever is garbled, refused or
\* asked for twice, and whatever number of packet numbers there is.
THEOREM NeverSpliced == Spec => []NoSplice
<1>1. Inv => NoSplice
  BY DEF Inv, SpliceInv
<1> QED BY <1>1, LineInvariant, PTL

\* When SendFile has returned true and no packet was garbled, the receiver is
\* out of the session, or the packet that leads it out is on its way.
THEOREM ReceiverIsReleased == Spec => []ReceiverReleased
<1>1. Inv => ReceiverReleased
  BY DEF Inv, ReleaseInv, ClosingLast, Closed, ReceiverReleased
<1> QED BY <1>1, LineInvariant, PTL

\* Without a disturbance, true means that the whole file was received.
THEOREM TrueIsReceived == Spec => []TrueMeansReceived
<1>1. Inv => TrueMeansReceived
  BY DEF Inv, Lockstep, Quiet, Closed, Got, TrueMeansReceived
<1> QED BY <1>1, LineInvariant, PTL
=============================================================================
