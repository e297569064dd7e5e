------------------------------- MODULE YModem -------------------------------
(***************************************************************************)
(* YModem::SendFile of regiloader: the kernel is sent over the console to  *)
(* U-Boot's loady (src/src/utils/regiloader/ymodem.cpp, ymodem.hpp).       *)
(*                                                                         *)
(* The sender writes a packet and reads one byte, without a timeout.  The  *)
(* receiver is external and does what the protocol's description, to which *)
(* ymodem.hpp refers, says of it: it asks with "C" until the first packet, *)
(* acknowledges the packet with the number it expects and refuses any      *)
(* other, and wants EOT twice.  It may ask too often, and packets may be   *)
(* garbled.  Reading a byte and writing what follows it is one step.       *)
(***************************************************************************)
EXTENDS Naturals, Sequences

CONSTANTS
  Frames,    \* how many frames of kFrameSize bytes the file has
  Numbers,   \* how many packet numbers there are, 256 in the code
  Waits,     \* WaitForResponse reads at most that many bytes, 255 in the code
  MaxNoise,  \* bound: how many other bytes the console says before
  MaxAsks,   \* bound: how often the receiver asks without need
  MaxGarbled \* bound: how many packets are garbled

ASSUME YModemAssumption ==
  /\ Frames \in Nat \ {0} /\ Numbers \in Nat /\ Numbers > 1 /\ Waits \in Nat \ {0}
  /\ MaxNoise \in Nat /\ MaxAsks \in Nat /\ MaxGarbled \in Nat

VARIABLES
  pc,         \* which answer SendFile waits for, or "done"
  tries,      \* WaitForResponse: the bytes it has read
  num,        \* Sequence::_pkt_num
  sent,       \* how many frames were sent (was_send)
  result,     \* what SendFile returns
  toBoard, toHost, \* the serial line
  rcv,        \* the receiver: [state, next, file]
  noise, asks, garbled

sender == <<pc, tries, num, sent, result>>
faults == <<noise, asks, garbled>>
vars   == <<sender, toBoard, toHost, rcv, faults>>

\* The answers SendFile waits for, in the order of a session.
Waiting == {"request", "firstAck", "firstRequest", "ack", "eot1", "eot2",
            "closeRequest", "closeAck"}

Bytes == {"C", "ACK", "NAK", "other"}

\* A frame with number n and data d: 0 is the packet with the file's name, the
\* frames of the file follow, Frames + 1 stands for the empty closing packet.
Frame(n, d) == [kind |-> "STX", num |-> n, data |-> d, good |-> TRUE]
EOT         == [kind |-> "EOT", num |-> 0, data |-> 0, good |-> TRUE]
Packets     == [kind : {"STX", "EOT"}, num : 0 .. Numbers - 1, data : 0 .. Frames + 1,
                good : BOOLEAN]

TypeOK ==
  /\ pc \in Waiting \cup {"done"} /\ tries \in 0 .. Waits - 1
  /\ num \in 0 .. Numbers - 1 /\ sent \in 0 .. Frames /\ result \in BOOLEAN
  /\ toBoard \in Seq(Packets) /\ toHost \in Seq(Bytes)
  /\ rcv \in [state : {"ask", "data", "eot", "close", "over"}, next : Nat,
              file : Seq(0 .. Frames + 1)]
  /\ noise \in 0 .. MaxNoise /\ asks \in 0 .. MaxAsks /\ garbled \in 0 .. MaxGarbled

Init ==
  /\ pc = "request" /\ tries = 0 /\ num = 0 /\ sent = 0 /\ result = FALSE
  /\ toBoard = <<>> /\ toHost = <<"C">>
  /\ rcv = [state |-> "ask", next |-> 0, file |-> <<>>]
  /\ noise = 0 /\ asks = 0 /\ garbled = 0

-----------------------------------------------------------------------------
(* SendFile *)

\* Mutant: packet numbers go from the last one to 1.
AfterOne(n) == IF n = Numbers - 1 THEN 1 ELSE n + 1

\* Mutant: packet numbers do not wrap.
AfterPlain(n) == n + 1

\* Sequence::Send: the number after n.
After(n) == IF n = Numbers - 1 THEN 0 ELSE n + 1

\* A packet is written under the number that is next.
Write(p) == toBoard' = Append(toBoard, p) /\ num' = After(num)

\* IsResponse while SendFile waits for w: one byte is read, whatever it is.
Reads(w) == /\ pc = w /\ toHost # <<>>
            /\ toHost' = Tail(toHost)
Said(b)  == Head(toHost) = b

\* WaitForResponse is left by the request or after so many other bytes, and the
\* packet with the name is sent in either case.
WaitForRequest ==
  /\ Reads("request")
  /\ IF Said("C") \/ tries = Waits - 1
       THEN /\ Write(Frame(num, 0))
            /\ pc' = "firstAck" /\ UNCHANGED tries
       ELSE tries' = tries + 1 /\ UNCHANGED <<pc, num, toBoard>>
  /\ UNCHANGED <<sent, result, rcv, faults>>

\* Nobody looks at what SendInitialPkt returns.
FirstAck ==
  /\ Reads("firstAck")
  /\ pc' = "firstRequest"
  /\ UNCHANGED <<tries, num, sent, result, toBoard, rcv, faults>>

\* Without a request for data SendFile returns false.
FirstRequest ==
  /\ Reads("firstRequest")
  /\ IF Said("C")
       THEN /\ Write(Frame(num, 1))
            /\ sent' = 1 /\ pc' = "ack" /\ UNCHANGED result
       ELSE pc' = "done" /\ result' = FALSE /\ UNCHANGED <<num, sent, toBoard>>
  /\ UNCHANGED <<tries, rcv, faults>>

\* Mutant: after an answer that is not an acknowledgement, the number is used
\* again for the next frame.
AckAgain ==
  /\ Reads("ack")
  /\ IF sent < Frames
       THEN /\ toBoard' = Append(toBoard, Frame(IF Said("ACK") THEN num
                                                ELSE (num + Numbers - 1) % Numbers, sent + 1))
            /\ num' = IF Said("ACK") THEN After(num) ELSE num
            /\ sent' = sent + 1 /\ UNCHANGED pc
       ELSE Write(EOT) /\ pc' = "eot1" /\ UNCHANGED sent
  /\ UNCHANGED <<tries, result, rcv, faults>>

\* The next frame, unless this one is not acknowledged or was the last.
Ack ==
  /\ Reads("ack")
  /\ IF Said("ACK") /\ sent < Frames
       THEN Write(Frame(num, sent + 1)) /\ sent' = sent + 1 /\ UNCHANGED pc
       ELSE Write(EOT) /\ pc' = "eot1" /\ UNCHANGED sent
  /\ UNCHANGED <<tries, result, rcv, faults>>

\* Mutant: EOT is sent once.
Eot1Once ==
  /\ Reads("eot1")
  /\ pc' = "eot2"
  /\ UNCHANGED <<tries, num, sent, result, toBoard, rcv, faults>>

\* The end, whatever is answered to it.
Eot1 ==
  /\ Reads("eot1")
  /\ Write(EOT) /\ pc' = "eot2"
  /\ UNCHANGED <<tries, sent, result, rcv, faults>>

Eot2 ==
  /\ Reads("eot2")
  /\ pc' = "closeRequest"
  /\ UNCHANGED <<tries, num, sent, result, toBoard, rcv, faults>>

\* Mutant: the sequence is not reset for the closing packet.
CloseRequestOn ==
  /\ Reads("closeRequest")
  /\ Write(Frame(num, Frames + 1))
  /\ pc' = "closeAck"
  /\ UNCHANGED <<tries, sent, result, rcv, faults>>

\* SendClosingPkt: an empty packet with number 0.
CloseRequest ==
  /\ Reads("closeRequest")
  /\ toBoard' = Append(toBoard, Frame(0, Frames + 1)) /\ num' = After(0)
  /\ pc' = "closeAck"
  /\ UNCHANGED <<tries, sent, result, rcv, faults>>

CloseAck ==
  /\ Reads("closeAck")
  /\ pc' = "done" /\ result' = TRUE
  /\ UNCHANGED <<tries, num, sent, toBoard, rcv, faults>>

-----------------------------------------------------------------------------
(* The receiver *)

\* It answers with the bytes bs and becomes r.
Answers(bs, r) ==
  /\ toBoard' = Tail(toBoard)
  /\ toHost' = toHost \o bs
  /\ rcv' = r
  /\ UNCHANGED <<sender, faults>>

\* The packet with the name.
GetName ==
  /\ toBoard # <<>> /\ rcv.state = "ask"
  /\ LET p == Head(toBoard)
     IN  IF p.good /\ p.kind = "STX" /\ p.num = 0
           THEN Answers(<<"ACK", "C">>, [rcv EXCEPT !.state = "data", !.next = 1])
           ELSE Answers(<<"NAK">>, rcv)

\* A frame, or the first EOT.
GetFrame ==
  /\ toBoard # <<>> /\ rcv.state = "data"
  /\ LET p == Head(toBoard)
     IN  CASE p.kind = "EOT" -> Answers(<<"NAK">>, [rcv EXCEPT !.state = "eot"])
           [] p.kind = "STX" /\ p.good /\ p.num = rcv.next % Numbers ->
                Answers(<<"ACK">>, [rcv EXCEPT !.next = @ + 1, !.file = Append(@, p.data)])
           [] p.kind = "STX" /\ ~(p.good /\ p.num = rcv.next % Numbers) ->
                Answers(<<"NAK">>, rcv)

\* The second EOT.
GetEnd ==
  /\ toBoard # <<>> /\ rcv.state = "eot"
  /\ IF Head(toBoard).kind = "EOT"
       THEN Answers(<<"ACK", "C">>, [rcv EXCEPT !.state = "close"])
       ELSE Answers(<<"NAK">>, rcv)

\* The closing packet.
GetClosing ==
  /\ toBoard # <<>> /\ rcv.state \in {"close", "over"}
  /\ IF Head(toBoard).good /\ Head(toBoard).num = 0
       THEN Answers(<<"ACK">>, [rcv EXCEPT !.state = "over"])
       ELSE Answers(<<"NAK">>, rcv)

\* The receiver asks again, because the first packet has not come: too early,
\* or when nothing is on the line.
AskAgain ==
  /\ rcv.state = "ask"
  /\ \/ asks < MaxAsks /\ asks' = asks + 1
     \/ toBoard = <<>> /\ toHost = <<>> /\ UNCHANGED asks
  /\ toHost' = Append(toHost, "C")
  /\ UNCHANGED <<sender, toBoard, rcv, noise, garbled>>

\* The rest of a line that SkipLines has left, or other output.
Noise ==
  /\ pc = "request" /\ noise < MaxNoise
  /\ noise' = noise + 1
  /\ toHost' = <<"other">> \o toHost
  /\ UNCHANGED <<sender, toBoard, rcv, asks, garbled>>

\* A packet is garbled on the line: its checksum (Crc) is wrong.
Garble ==
  /\ garbled < MaxGarbled
  /\ \E i \in DOMAIN toBoard :
       /\ toBoard[i].kind = "STX" /\ toBoard[i].good
       /\ toBoard' = [toBoard EXCEPT ![i].good = FALSE]
  /\ garbled' = garbled + 1
  /\ UNCHANGED <<sender, toHost, rcv, noise, asks>>

-----------------------------------------------------------------------------
SendFile == \/ WaitForRequest \/ FirstAck \/ FirstRequest \/ Ack \/ Eot1 \/ Eot2
            \/ CloseRequest \/ CloseAck
Receiver == GetName \/ GetFrame \/ GetEnd \/ GetClosing \/ AskAgain

Next == SendFile \/ Receiver \/ Noise \/ Garble

Spec == Init /\ [][Next]_vars

\* The program runs, and the receiver answers each packet and asks for the first.
FairSpec == Spec /\ WF_vars(SendFile) /\ WF_vars(Receiver)

-----------------------------------------------------------------------------
(* Properties *)

\* What the receiver has is the beginning of the file: after a packet that was
\* refused nothing is put in its place.
NoSplice == \A i \in DOMAIN rcv.file : rcv.file[i] = i

\* SendFile returns true for a file that was received, if no packet was garbled,
\* the receiver has not asked twice and the console has said no more before than
\* WaitForResponse reads.  (It returns true for any other transfer that has once
\* begun, too.)
TrueMeansReceived ==
  pc = "done" /\ result /\ garbled = 0 /\ asks = 0 /\ noise <= Waits
    => Len(rcv.file) = Frames

\* When SendFile returns true, the receiver has been led out of the session:
\* it does not wait for packets while the console is used for other things.
ReceiverReleased ==
  pc = "done" /\ result /\ garbled = 0 => rcv.state = "over" \/ toBoard # <<>>

\* Every read of an answer is answered: SendFile, which knows no timeout,
\* returns, if the line loses nothing.
SendFileEnds == <>(pc = "done")
=============================================================================
