----------------------------- MODULE TFtpProofs -----------------------------
(***************************************************************************)
(* Proofs about TFtp, for every set of files, every size of the files and  *)
(* of the block ids, every limit of tries and every bound.                 *)
(***************************************************************************)
EXTENDS TFtp, ModArith, TLAPS

\* A reduced block number is a block id.
LEMMA WrapType == ASSUME NEW n \in Nat PROVE Wrap(n) \in BlockId
  BY TFtpAssumption, DivMod DEF Wrap, BlockId

\* Neighbouring blocks have different ids, so a client tells them apart.
LEMMA WrapNext == ASSUME NEW n \in Nat PROVE Wrap(n) # Wrap(n + 1)
  BY TFtpAssumption, ModNext DEF Wrap

\* The id after a reduced one is the reduced next number (ack.get_block_id() + 1).
LEMMA WrapStep == ASSUME NEW n \in Nat PROVE Wrap(Wrap(n) + 1) = Wrap(n + 1)
  BY TFtpAssumption, ModStep DEF Wrap

-----------------------------------------------------------------------------
(* Types *)

\* What can be in _input, _buff and the network, by kind.
LEMMA PacketKinds ==
  ASSUME NEW m \in ToServerPackets
  PROVE  /\ m # NoPacket
         /\ m.cl \in Rounds
         /\ m.op = "RRQ" => m \in Requested
         /\ m.op = "ACK" => m \in Acks
  BY DEF ToServerPackets, Requested, Acks, Others, NoPacket

\* The constructors make packets of the right kind.
LEMMA PacketsMade ==
  ASSUME NEW c \in Rounds
  PROVE  /\ \A f \in Requests : RRQ(c, f) \in ToServerPackets
         /\ \A b \in BlockId : ACK(c, b) \in ToServerPackets
         /\ ERR(c) \in ToServerPackets
         /\ Stray(c) \in ToServerPackets
         /\ \A b \in BlockId, n \in Nat, s \in BOOLEAN :
              DATA(c, b, n, s) \in DataPackets
  BY DEF ToServerPackets, Requested, Acks, Others, DataPackets,
         RRQ, ACK, ERR, Stray, DATA

\* A packet that is sent is a data packet for some client.
LEMMA SendType ==
  ASSUME NEW pkt \in DataPackets, TypeOK, Send(pkt)
  PROVE  /\ input' = NoPacket /\ wr' \in {"done", "failed"}
         /\ toClient' \subseteq DataPackets
  BY DEF Send, TypeOK, DataPackets

\* ProcessTask keeps the types of what it assigns.
LEMMA SendNextBlockType ==
  ASSUME TypeOK, NEW f, NEW pos \in Nat, NEW id \in BlockId,
         SendNextBlock(f, pos, id)
  PROVE  /\ off' = pos + 1 /\ output' \in DataPackets
         /\ input' = NoPacket /\ wr' \in {"done", "failed"}
         /\ toClient' \subseteq DataPackets
<1> DEFINE short == pos + 1 = Blocks[f] /\ f \notin FullTail
           pkt == DATA(endpt, id, pos + 1, short)
<1>1. pkt \in DataPackets
  <2>1. pos + 1 \in Nat
    OBVIOUS
  <2>2. short \in BOOLEAN
    OBVIOUS
  <2> HIDE DEF short
  <2> QED BY <2>1, <2>2, PacketsMade DEF TypeOK
<1> QED BY <1>1, SendType DEF SendNextBlock

\* What is left of a network after a delivery was in it before.
LEMMA DeliveryType ==
  ASSUME NEW ms, NEW m, NEW rest \in AfterDelivery(ms, m)
  PROVE  rest \subseteq ms
  BY DEF AfterDelivery

\* A session that does not exist yet is well typed.
LEMMA InitType == Init => TypeOK
<1> SUFFICES ASSUME Init PROVE TypeOK
  OBVIOUS
<1>1. timeout \in BOOLEAN
  BY DEF Init
<1>2. got \in Seq(Nat) /\ tries \in 0 .. TriesLimit - 1 /\ lost \in 0 .. MaxLosses
  BY TFtpAssumption DEF Init
<1> QED BY <1>1, <1>2, TFtpAssumption DEF Init, TypeOK, Rounds

\* Every action keeps the types.
LEMMA TypeStep == TypeOK /\ [Next]_vars => TypeOK'
<1> SUFFICES ASSUME TypeOK, [Next]_vars PROVE TypeOK'
  OBVIOUS
<1> USE DEF loop, board, net, upload
<1>1. CASE Run
  <2>1. round + 1 \in Rounds /\ request' \in Requests
    BY <1>1, TFtpAssumption DEF Run, TypeOK, Rounds
  <2>2. timeout' \in BOOLEAN
    BY <1>1 DEF Run, Receive
  <2>3. toServer' \subseteq ToServerPackets
    BY <2>1, <1>1, PacketsMade DEF Run, TypeOK
  <2>4. got' \in Seq(Nat) /\ tries' \in 0 .. TriesLimit - 1
    BY <1>1, TFtpAssumption DEF Run
  <2> QED BY <2>1, <2>2, <2>3, <2>4, <1>1 DEF Run, Receive, TypeOK
<1>2. CASE HandlerTimer
  <2>1. /\ input' \in {input, NoPacket} /\ wr' \in {"none", "done", "failed"}
        /\ toClient' \subseteq DataPackets
    BY <1>2, SendType DEF HandlerTimer, TypeOK
  <2>2. timeout' \in BOOLEAN
    BY <1>2, Zenon DEF HandlerTimer, TypeOK
  <2>3. tries' \in 0 .. TriesLimit - 1
    BY <1>2, TFtpAssumption DEF HandlerTimer, TypeOK
  <2> QED BY <1>2, <2>1, <2>2, <2>3 DEF HandlerTimer, TypeOK
<1>3. CASE HandlerWrite
  <2>1. timeout' \in BOOLEAN
    BY <1>3, Zenon DEF HandlerWrite, Receive, TypeOK
  <2> QED BY <1>3, <2>1 DEF HandlerWrite, Receive, TypeOK
<1>4. CASE HandlerRead
  BY <1>4 DEF HandlerRead, TypeOK
<1>5. CASE ProcessRRQ
  <2>1. Wrap(1) \in BlockId
    BY WrapType
  <2>2. /\ off' \in Nat /\ output' \in DataPackets \cup {NoPacket}
        /\ input' = NoPacket /\ wr' \in {"none", "done", "failed"}
        /\ toClient' \subseteq DataPackets
    <3>1. CASE \E f : SendNextBlock(f, 0, Wrap(1))
      <4>1. PICK f : SendNextBlock(f, 0, Wrap(1))
        BY <3>1
      <4>2. off' = 0 + 1 /\ output' \in DataPackets /\ input' = NoPacket
            /\ wr' \in {"done", "failed"} /\ toClient' \subseteq DataPackets
        BY <4>1, <2>1, SendNextBlockType, 0 \in Nat, Zenon
      <4> QED BY <4>2
    <3>2. CASE /\ off' \in {0, off} /\ input' = NoPacket
               /\ UNCHANGED <<output, wr, toClient>>
      BY <3>2 DEF TypeOK
    <3> QED BY <1>5, <3>1, <3>2 DEF ProcessRRQ
  <2>3. task' \in {"kIdling", "kUploading"} /\ file' \in Published \cup Requests
    BY <1>5 DEF ProcessRRQ, TypeOK
  <2> QED BY <1>5, <2>2, <2>3 DEF ProcessRRQ, EndTurn, TypeOK
<1>6. CASE ProcessACK
  <2>1. Wrap(input.block + 1) \in BlockId
    <3>1. input \in Acks
      BY <1>6, PacketKinds DEF ProcessACK, TypeOK, NoPacket
    <3>2. input.block \in Nat
      BY <3>1, TFtpAssumption DEF Acks, BlockId
    <3> QED BY <3>2, WrapType
  <2>2. /\ off' \in Nat /\ output' \in DataPackets \cup {NoPacket}
        /\ input' = NoPacket /\ wr' \in {"none", "done", "failed"}
        /\ toClient' \subseteq DataPackets
    <3>1. CASE SendNextBlock(file, off, Wrap(input.block + 1))
      <4>1. off \in Nat
        BY DEF TypeOK
      <4>2. off' = off + 1 /\ output' \in DataPackets /\ input' = NoPacket
            /\ wr' \in {"done", "failed"} /\ toClient' \subseteq DataPackets
        BY <4>1, <3>1, <2>1, SendNextBlockType, Zenon
      <4> QED BY <4>1, <4>2
    <3>2. CASE input' = NoPacket /\ UNCHANGED <<off, output, wr, toClient>>
      BY <3>2 DEF TypeOK
    <3> QED BY <1>6, <3>1, <3>2 DEF ProcessACK
  <2> QED BY <1>6, <2>2 DEF ProcessACK, EndTurn, TypeOK
<1>7. CASE ProcessError
  BY <1>7 DEF ProcessError, EndTurn, TypeOK
<1>8. CASE ProcessNothing
  BY <1>8 DEF ProcessNothing, EndTurn, TypeOK
<1>9. ASSUME NEW m \in toServer, DeliverToServer(m) PROVE TypeOK'
  <2>1. m \in ToServerPackets /\ m.cl \in Rounds
    BY PacketKinds DEF TypeOK
  <2> QED BY <1>9, <2>1, DeliveryType DEF DeliverToServer, TypeOK
<1>10. ASSUME NEW m \in toServer, DropAtServer(m) PROVE TypeOK'
  BY <1>10 DEF DropAtServer, TypeOK
<1>11. ASSUME NEW m \in toServer, LoseToServer(m) PROVE TypeOK'
  BY <1>11, TFtpAssumption DEF LoseToServer, TypeOK
<1>12. ASSUME NEW m \in toClient, LoseToClient(m) PROVE TypeOK'
  BY <1>12, TFtpAssumption DEF LoseToClient, TypeOK
<1>13. ASSUME NEW m \in toClient, DropAtClient(m) PROVE TypeOK'
  BY <1>13 DEF DropAtClient, TypeOK
<1>14. CASE Expire
  BY <1>14 DEF Expire, TypeOK
<1>15. CASE SendStray
  BY <1>15, PacketsMade DEF SendStray, TypeOK
<1>16. ASSUME NEW m \in toClient, ClientReceive(m) PROVE TypeOK'
  <2>1. m \in DataPackets
    BY DEF TypeOK
  <2>2. m.block \in BlockId /\ m.chunk \in Nat /\ m.short \in BOOLEAN
    BY <2>1 DEF DataPackets
  <2>3. ACK(round, m.block) \in ToServerPackets
    BY <2>2, PacketsMade DEF TypeOK
  <2>4. toClient' \subseteq DataPackets
    BY <1>16, DeliveryType DEF ClientReceive, TypeOK
  <2>5. got' \in Seq(Nat)
    <3>1. Append(got, m.chunk) \in Seq(Nat)
      BY <2>2 DEF TypeOK
    <3> QED BY <1>16, <3>1 DEF ClientReceive, TypeOK
  <2>7. client' \in {"waiting", "done"}
    BY <1>16 DEF ClientReceive, TypeOK
  <2>6. toServer' \subseteq ToServerPackets
    BY <1>16, <2>3 DEF ClientReceive, TypeOK
  <2> QED BY <1>16, <2>4, <2>5, <2>6, <2>7 DEF ClientReceive, TypeOK
<1>17. CASE ClientResend
  <2>1. Wrap(Len(got)) \in BlockId
    BY WrapType DEF TypeOK
  <2> QED BY <1>17, <2>1, PacketsMade DEF ClientResend, TypeOK
<1>18. CASE ClientQuit
  BY <1>18, PacketsMade DEF ClientQuit, TypeOK
<1>19. CASE UNCHANGED vars
  BY <1>19 DEF vars, TypeOK
<1> QED
  BY <1>1, <1>2, <1>3, <1>4, <1>5, <1>6, <1>7, <1>8, <1>9, <1>10, <1>11, <1>12,
     <1>13, <1>14, <1>15, <1>16, <1>17, <1>18, <1>19
     DEF Next, Server, Network, Client

\* Every variable keeps its type, whatever the network and the client do.
THEOREM TypeCorrect == Spec => []TypeOK
  BY InitType, TypeStep, PTL DEF Spec

-----------------------------------------------------------------------------
(* The event loop, whatever the network and the client do *)

\* No order of the three handlers leaves a receive without its timer.
LEMMA LoopStep == TypeOK /\ LoopInv /\ [Next]_vars => LoopInv'
<1> SUFFICES ASSUME TypeOK, LoopInv, [Next]_vars PROVE LoopInv'
  OBVIOUS
<1> USE DEF loop, board, net, upload, LoopInv, ReceiveIsTimed
<1>1. CASE Run
  BY <1>1 DEF Run, Receive
<1>2. CASE HandlerTimer
  BY <1>2 DEF HandlerTimer
<1>3. CASE HandlerWrite
  BY <1>3 DEF HandlerWrite, Receive
<1>4. CASE HandlerRead
  BY <1>4 DEF HandlerRead
<1>5. CASE ProcessRRQ
  BY <1>5 DEF ProcessRRQ, Quiet, EndTurn
<1>6. CASE ProcessACK
  BY <1>6 DEF ProcessACK, Quiet, EndTurn
<1>7. CASE ProcessError \/ ProcessNothing
  BY <1>7 DEF ProcessError, ProcessNothing, Quiet, EndTurn
<1>8. ASSUME NEW m \in toServer, DeliverToServer(m) PROVE LoopInv'
  BY <1>8 DEF DeliverToServer
<1>9. CASE Expire
  BY <1>9 DEF Expire
<1>10. CASE UNCHANGED <<pc, loop>>
  BY <1>10
<1>11. ASSUME NEW m, DropAtServer(m) \/ LoseToServer(m) \/ LoseToClient(m)
                     \/ DropAtClient(m) \/ ClientReceive(m)
       PROVE  UNCHANGED <<pc, loop>>
  BY <1>11 DEF DropAtServer, LoseToServer, LoseToClient, DropAtClient, ClientReceive
<1>12. SendStray \/ ClientResend \/ ClientQuit \/ UNCHANGED vars
         => UNCHANGED <<pc, loop>>
  BY DEF SendStray, ClientResend, ClientQuit, vars
<1> QED
  BY <1>1, <1>2, <1>3, <1>4, <1>5, <1>6, <1>7, <1>8, <1>9, <1>10, <1>11, <1>12
     DEF Next, Server, Network, Client

\* A posted receive always has its timer, under every fault of the network,
\* the client and the socket (Session::Receive, HandlerTimer, HandlerRead).
THEOREM ReceiveAlwaysTimed == Spec => []ReceiveIsTimed
<1>1. Init => LoopInv
  BY DEF Init, LoopInv, ReceiveIsTimed
<1>2. LoopInv => ReceiveIsTimed
  BY DEF LoopInv
<1> QED BY <1>1, <1>2, LoopStep, TypeCorrect, PTL DEF Spec

-----------------------------------------------------------------------------
(* A network that only loses datagrams *)

\* Packets are told apart by kind and by block.
LEMMA PacketFields ==
  ASSUME NEW c, NEW f, NEW b, NEW n, NEW s
  PROVE  /\ RRQ(c, f).op = "RRQ" /\ RRQ(c, f).cl = c /\ RRQ(c, f).name = f
         /\ ACK(c, b).op = "ACK" /\ ACK(c, b).cl = c /\ ACK(c, b).block = b
         /\ DATA(c, b, n, s).op = "DATA" /\ DATA(c, b, n, s).cl = c
         /\ DATA(c, b, n, s).block = b /\ DATA(c, b, n, s).chunk = n
         /\ DATA(c, b, n, s).short = s
         /\ NoPacket.op = "none"
         /\ RRQ(c, f) # NoPacket /\ ACK(c, b) # NoPacket /\ DATA(c, b, n, s) # NoPacket
  BY DEF RRQ, ACK, DATA, NoPacket

\* Without faults a send of a packet for the client that is being served adds
\* exactly this packet.
LEMMA PlainSend ==
  ASSUME Faults = {}, NEW b, NEW n, NEW s, endpt = round,
         Send(DATA(round, b, n, s))
  PROVE  /\ input' = NoPacket /\ wr' = "done"
         /\ toClient' = toClient \cup {DATA(round, b, n, s)}
  BY DEF Send, DATA

\* Without duplicates a delivered datagram is gone.
LEMMA PlainDelivery ==
  ASSUME Faults = {}, NEW ms, NEW m, NEW rest \in AfterDelivery(ms, m)
  PROVE  rest = ms \ {m}
  BY DEF AfterDelivery

\* Before the first call there is no packet and nobody is ahead.
LEMMA LockstepInit == Init => LockstepInv
  BY TFtpAssumption DEF Init, LockstepInv, LoopInv, OnePacket, WhatIsSent, Progress, Ending,
         ReceiveIsTimed, TransferFaithful

\* A network that only loses datagrams keeps server and client in lockstep.
LEMMA LockstepStep ==
  ASSUME Faults = {}, TypeOK, LockstepInv, [Next]_vars
  PROVE  LockstepInv'
<1> USE DEF loop, board, net, upload, LockstepInv
<1>0. LoopInv'
  BY LoopStep
<1>1. CASE Run
  <2> USE <1>1 DEF Run, Receive
  <2>1. pc = "idle" /\ toServer = {} /\ toClient = {} /\ wr = "none"
    BY DEF Ending
  <2>2. OnePacket'
    BY <2>1 DEF OnePacket
  <2>3. WhatIsSent'
    BY <2>1, PacketFields DEF WhatIsSent, FromClient
  <2>4. Progress'
    <3>1. request' \in Requests /\ Blocks[request'] \in Nat
      BY TFtpAssumption
    <3> QED BY <3>1 DEF Progress, TransferFaithful, TypeOK
  <2>5. Ending'
    BY <2>1, TFtpAssumption DEF Ending, TypeOK, Rounds
  <2> QED BY <1>0, <2>2, <2>3, <2>4, <2>5
<1>2. CASE HandlerTimer
  BY <1>0, <1>2, PacketFields, PlainSend
     DEF HandlerTimer, LoopInv, OnePacket, WhatIsSent, Progress, Ending,
         TransferFaithful, FromClient
<1>3. CASE HandlerWrite
  BY <1>0, <1>3, PacketFields
     DEF HandlerWrite, Receive, OnePacket, WhatIsSent, Progress, Ending,
         TransferFaithful, FromClient
<1>4. CASE HandlerRead
  BY <1>0, <1>4, PacketFields
     DEF HandlerRead, OnePacket, WhatIsSent, Progress, Ending,
         TransferFaithful, FromClient
<1>5. CASE ProcessRRQ
  <2> USE <1>5 DEF ProcessRRQ, Quiet
  <2>1. /\ toServer = {} /\ toClient = {} /\ endpt = round /\ round > 0
        /\ task = "kIdling" /\ off = 0 /\ got = <<>> /\ output = NoPacket
        /\ input.name = request /\ ~timeout /\ file = request
        /\ client \in {"waiting", "done"}
    <3>1. input # NoPacket
      BY PacketFields
    <3>2. FromClient(input) /\ endpt = round
      BY <3>1 DEF WhatIsSent
    <3>3. /\ input = RRQ(round, request)
          /\ task = "kIdling" /\ off = 0 /\ got = <<>>
      BY <3>2, PacketFields DEF FromClient
    <3>4. toServer = {} /\ toClient = {} /\ ~timeout
      BY <3>1 DEF OnePacket, Ending
    <3>5. output = NoPacket /\ file = request
      BY <3>3 DEF WhatIsSent, Progress
    <3>6. client \in {"waiting", "done"} /\ round > 0
      BY DEF Progress, Ending, TypeOK, Rounds
    <3> QED BY <3>2, <3>3, <3>4, <3>5, <3>6, PacketFields
  <2>2. CASE SendNextBlock(request, 0, Wrap(1)) /\ request \in Published
             /\ Blocks[request] > 0
    <3> DEFINE pkt == DATA(round, Wrap(1), 1, 1 = Blocks[request] /\ request \notin FullTail)
    <3>1. /\ off' = 1 /\ output' = pkt /\ input' = NoPacket /\ wr' = "done"
          /\ toClient' = {pkt}
      BY <2>1, <2>2, PlainSend DEF SendNextBlock
    <3>2. /\ task' = "kUploading" /\ file' = request /\ UNCHANGED <<pc, result>>
      BY <2>1, <2>2 DEF EndTurn
    <3>3. OnePacket'
      BY <2>1, <3>1 DEF OnePacket
    <3>4. WhatIsSent'
      BY <2>1, <3>1, PacketFields DEF WhatIsSent
    <3>5. Progress'
      <4>1. Blocks[request] \in Nat /\ Blocks[request] >= 1 /\ Len(got) = 0
        BY <2>1, <2>2, TFtpAssumption DEF TypeOK
      <4> QED BY <4>1, <2>1, <3>1, <3>2, PacketFields DEF Progress, TransferFaithful
    <3>6. Ending'
      BY <2>1, <3>1, <3>2, PacketFields DEF Ending
    <3> QED BY <1>0, <3>3, <3>4, <3>5, <3>6
  <2>3. CASE /\ input' = NoPacket /\ UNCHANGED <<off, output, wr, toClient, file>>
             /\ request \notin Published \/ Blocks[request] = 0
    <3>1. OnePacket'
      BY <2>1, <2>3 DEF OnePacket
    <3>2. WhatIsSent'
      BY <2>1, <2>3 DEF WhatIsSent
    <3>3. Progress'
      BY <2>1, <2>3 DEF Progress, TransferFaithful, EndTurn
    <3>4. Ending'
      BY <2>1, <2>3 DEF Ending, EndTurn
    <3> QED BY <1>0, <3>1, <3>2, <3>3, <3>4
  <2> QED
    <3>1. Blocks[request] \in Nat
      BY TFtpAssumption DEF TypeOK
    <3> QED BY <2>1, <2>2, <2>3, <3>1
<1>6. CASE ProcessACK
  <2> USE <1>6 DEF ProcessACK, Quiet
  <2>1. /\ toServer = {} /\ toClient = {} /\ endpt = round /\ round > 0
        /\ task = "kUploading" /\ off = Len(got) /\ off > 0
        /\ input.block = Wrap(off) /\ file = request
        /\ client \in {"waiting", "done"}
    BY PacketFields DEF OnePacket, WhatIsSent, FromClient, Ending, Progress, TypeOK, Rounds
  <2>2. ~timeout
    BY <2>1 DEF Ending, Progress
  <2>3. CASE off < Blocks[request]
    <3> DEFINE pkt == DATA(round, Wrap(off + 1), off + 1,
                           off + 1 = Blocks[request] /\ request \notin FullTail)
    <3>1. Wrap(input.block + 1) = Wrap(off + 1)
      BY <2>1, WrapStep DEF TypeOK
    <3>2. /\ off' = off + 1 /\ output' = pkt /\ input' = NoPacket /\ wr' = "done"
          /\ toClient' = {pkt}
      BY <2>1, <2>3, <3>1, PlainSend DEF SendNextBlock
    <3>3. UNCHANGED <<pc, result>>
      BY <2>1, <2>2, <2>3 DEF EndTurn
    <3>4. OnePacket'
      BY <2>1, <3>2 DEF OnePacket
    <3>5. WhatIsSent'
      BY <2>1, <3>2, PacketFields DEF WhatIsSent, TypeOK
    <3>6. Progress'
      BY <2>1, <2>3, <3>2, <3>3, PacketFields, TFtpAssumption DEF Progress, TransferFaithful, TypeOK
    <3>7. Ending'
      BY <2>1, <2>2, <3>2, <3>3, PacketFields DEF Ending
    <3> QED BY <1>0, <3>4, <3>5, <3>6, <3>7
  <2>4. CASE ~(off < Blocks[request])
    <3>1. /\ input' = NoPacket /\ UNCHANGED <<off, output, wr, toClient>>
          /\ pc' = "idle" /\ result' = "true"
      BY <2>1, <2>2, <2>4 DEF EndTurn
    <3>2. off = Blocks[request]
      BY <2>4, TFtpAssumption DEF Progress, TypeOK
    <3>3. OnePacket'
      BY <2>1, <3>1 DEF OnePacket
    <3>4. WhatIsSent'
      BY <2>1, <3>1 DEF WhatIsSent
    <3>5. Progress'
      BY <2>1, <3>1 DEF Progress, TransferFaithful
    <3>6. Ending'
      BY <2>1, <3>1, <3>2 DEF Ending, Progress
    <3> QED BY <1>0, <3>3, <3>4, <3>5, <3>6
  <2> QED BY <2>3, <2>4
<1>7. CASE ProcessError \/ ProcessNothing
  <2>1. ~ProcessError
    <3>1. input # NoPacket => input.op \in {"RRQ", "ACK"}
      BY PacketFields, SMTT(30) DEF WhatIsSent, FromClient
    <3> QED BY <3>1, PacketFields DEF ProcessError
  <2>2. ProcessNothing /\ Quiet /\ timeout /\ input = NoPacket
    BY <1>7, <2>1 DEF ProcessNothing
  <2>3. output = NoPacket /\ toServer = {} /\ toClient = {} /\ pc = "run" /\ round > 0
    BY <2>2 DEF Ending, Quiet, ProcessNothing, Progress, TypeOK, Rounds
  <2>4. /\ pc' = "idle" /\ result' = "false"
        /\ UNCHANGED <<upload, input, buff, endpt, loop, board, net>>
    BY <2>2 DEF ProcessNothing, EndTurn
  <2>5. OnePacket' /\ WhatIsSent'
    BY <2>3, <2>4 DEF OnePacket, WhatIsSent, FromClient
  <2>6. Progress'
    BY <2>3, <2>4 DEF Progress, TransferFaithful
  <2>7. Ending'
    BY <2>2, <2>3, <2>4 DEF Ending, Quiet
  <2> QED BY <1>0, <2>5, <2>6, <2>7
<1>8. ASSUME NEW m \in toServer, DeliverToServer(m) PROVE LockstepInv'
  BY <1>0, <1>8, PacketFields, PlainDelivery
     DEF DeliverToServer, LoopInv, OnePacket, WhatIsSent, Progress, Ending,
         TransferFaithful, FromClient
<1>9. CASE Expire
  <2> USE <1>9 DEF Expire
  <2>1. toServer = {} /\ toClient = {} /\ rd = "pending"
    BY DEF LoopInv, ReceiveIsTimed, TypeOK
  <2> QED BY <1>0, <2>1 DEF OnePacket, WhatIsSent, Progress, Ending,
             TransferFaithful, FromClient
<1>10. ASSUME NEW m, DropAtServer(m) \/ LoseToServer(m) PROVE LockstepInv'
  BY <1>0, <1>10
     DEF DropAtServer, LoseToServer, OnePacket, WhatIsSent, Progress, Ending,
         TransferFaithful, FromClient
<1>11. ASSUME NEW m, DropAtClient(m) \/ LoseToClient(m) PROVE LockstepInv'
  BY <1>0, <1>11
     DEF DropAtClient, LoseToClient, OnePacket, WhatIsSent, Progress, Ending,
         TransferFaithful, FromClient
<1>12. ASSUME NEW m, ClientReceive(m) PROVE LockstepInv'
  <2> USE <1>12 DEF ClientReceive
  <2>1. /\ m = output /\ toServer = {} /\ rd # "done" /\ input = NoPacket
        /\ toClient = {output} /\ tm # "fired" /\ pc = "run" /\ client = "waiting"
    BY DEF OnePacket, WhatIsSent, Ending, TypeOK
  <2>2. /\ m.cl = round /\ m.block = Wrap(off) /\ m.chunk = off
        /\ m.short = (off = Blocks[request] /\ request \notin FullTail)
        /\ off > 0 /\ task = "kUploading"
    <3>1. output # NoPacket
      BY <2>1, PacketFields DEF TypeOK, DataPackets, NoPacket
    <3>2. /\ off > 0
          /\ m = DATA(round, Wrap(off), off,
                     off = Blocks[request] /\ request \notin FullTail)
      BY <2>1, <3>1 DEF WhatIsSent
    <3> QED BY <3>2, PacketFields DEF Progress
  <2>3. toClient' = {}
    BY <2>1, PlainDelivery
  <2>4. CASE off = Len(got) + 1
    <3>1. /\ got' = Append(got, off) /\ toServer' = {ACK(round, Wrap(off))}
          /\ client' = IF off = Blocks[request] /\ request \notin FullTail
                         THEN "done" ELSE "waiting"
      BY <2>1, <2>2, <2>4
    <3>2. Len(got') = off /\ got' # <<>>
      BY <2>4, <3>1 DEF TypeOK
    <3>3. OnePacket'
      BY <2>1, <2>3, <3>1 DEF OnePacket
    <3>4. WhatIsSent'
      BY <2>1, <2>2, <2>3, <3>1, <3>2, PacketFields DEF WhatIsSent, FromClient
    <3>5. TransferFaithful'
      BY <2>4, <3>1, <3>2 DEF TransferFaithful, Progress, TypeOK
    <3>6. Progress'
      BY <2>1, <2>2, <3>1, <3>2, <3>5 DEF Progress
    <3>7. Ending'
      BY <2>1, <2>3, <3>1 DEF Ending
    <3> QED BY <1>0, <3>3, <3>4, <3>6, <3>7
  <2>5. CASE off = Len(got)
    <3>1. m.block # Wrap(Len(got) + 1)
      BY <2>2, <2>5, WrapNext DEF TypeOK
    <3>2. /\ UNCHANGED <<got, client>>
          /\ toServer' = {ACK(round, Wrap(Len(got)))}
      BY <2>1, <2>2, <2>5, <3>1 DEF TypeOK
    <3>3. OnePacket'
      BY <2>1, <2>3, <3>2 DEF OnePacket
    <3>4. WhatIsSent'
      BY <2>1, <2>2, <2>3, <2>5, <3>2, PacketFields DEF WhatIsSent, FromClient
    <3>5. Progress'
      BY <2>1, <3>2 DEF Progress, TransferFaithful
    <3>6. Ending'
      BY <2>1, <2>3, <3>2 DEF Ending
    <3> QED BY <1>0, <3>3, <3>4, <3>5, <3>6
  <2> QED BY <2>4, <2>5 DEF Progress
<1>13. CASE ClientQuit
  BY <1>0, <1>13
     DEF ClientQuit, OnePacket, WhatIsSent, Progress, Ending,
         TransferFaithful, FromClient
<1>14. CASE UNCHANGED vars
  BY <1>0, <1>14
     DEF vars, OnePacket, WhatIsSent, Progress, Ending, TransferFaithful, FromClient
<1>15. ~SendStray /\ ~ClientResend
  BY DEF SendStray, ClientResend
<1> QED
  BY <1>1, <1>2, <1>3, <1>4, <1>5, <1>6, <1>7, <1>8, <1>9, <1>10, <1>11, <1>12, <1>13, <1>14, <1>15
     DEF Next, Server, Network, Client

\* Without faults but losses, one packet at most is under way between the
\* session (_output, _input, _buff) and its client, and it tells how far they are.
THEOREM Lockstep == ASSUME Faults = {} PROVE Spec => []LockstepInv
  BY LockstepInit, LockstepStep, TypeCorrect, PTL DEF Spec

\* If the network does no more than lose datagrams, however many, and the
\* server's timeout is longer than a round trip, what a client has stored is
\* the beginning of its file (ProcessTask, HandlerTimer).
THEOREM TransferIsFaithful ==
  ASSUME Faults = {} PROVE Spec => []TransferFaithful
<1>1. LockstepInv => TransferFaithful
  BY DEF LockstepInv, Progress
<1> QED BY <1>1, Lockstep, PTL

\* Then also, if every file asked for is published and none is a multiple of
\* 512 bytes long, Run answers true only for a file that arrived whole.
THEOREM TrueIsDelivered ==
  ASSUME Faults = {}, FullTail = {}, Requests \subseteq Published
  PROVE  Spec => []TrueMeansDelivered
<1>1. LockstepInv /\ TypeOK => TrueMeansDelivered
  BY DEF LockstepInv, Progress, Ending, TrueMeansDelivered, TypeOK
<1> QED BY <1>1, Lockstep, TypeCorrect, PTL

\* No completion outlives the Session it is bound to.
THEOREM NothingDangles ==
  ASSUME Faults = {} PROVE Spec => []NoDanglingHandler
<1>1. LockstepInv => NoDanglingHandler
  BY DEF LockstepInv, LoopInv, Ending, NoDanglingHandler, Quiet
<1> QED BY <1>1, Lockstep, PTL

\* Each turn of Server::Run leaves something for the next poll to wait for.
LEMMA NoDeadStep ==
  ASSUME Faults = {}, \A f \in Requests : Blocks[f] > 0,
         TypeOK, LockstepInv, NoDeadSession, [Next]_vars
  PROVE  NoDeadSession'
<1> USE DEF loop, board, net, upload, NoDeadSession, Quiet
<1>1. CASE Run
  BY <1>1 DEF Run, Receive
<1>2. CASE HandlerTimer
  BY <1>2 DEF HandlerTimer, Send
<1>3. CASE HandlerWrite
  BY <1>3 DEF HandlerWrite, Receive, LockstepInv, OnePacket
<1>4. CASE HandlerRead
  <2>1. FromClient(buff)
    BY <1>4 DEF HandlerRead, LockstepInv, WhatIsSent
  <2>2. buff.op # "other" /\ buff # NoPacket
    BY <2>1, PacketFields, SMTT(30) DEF FromClient
  <2> QED BY <1>4, <2>2 DEF HandlerRead
<1>5. CASE ProcessRRQ
  <2>1. input # NoPacket
    BY <1>5, PacketFields DEF ProcessRRQ
  <2>2. FromClient(input)
    BY <2>1 DEF LockstepInv, WhatIsSent
  <2>3. input.name = request /\ task = "kIdling" /\ ~timeout
    BY <1>5, <2>1, <2>2, PacketFields
       DEF ProcessRRQ, FromClient, LockstepInv, Ending
  <2>4. Blocks[request] > 0
    BY DEF TypeOK
  <2>5. CASE request \in Published
    BY <1>5, <2>3, <2>4, <2>5 DEF ProcessRRQ, SendNextBlock, Send
  <2>6. CASE request \notin Published
    BY <1>5, <2>3, <2>6 DEF ProcessRRQ, EndTurn
  <2> QED BY <2>5, <2>6
<1>6. CASE ProcessACK
  <2>1. CASE task = "kUploading" /\ off < Blocks[file]
    BY <1>6, <2>1 DEF ProcessACK, SendNextBlock, Send
  <2>2. CASE ~(task = "kUploading" /\ off < Blocks[file])
    BY <1>6, <2>2 DEF ProcessACK, EndTurn
  <2> QED BY <2>1, <2>2
<1>7. CASE ProcessError \/ ProcessNothing
  BY <1>7 DEF ProcessError, ProcessNothing, EndTurn
<1>8. ASSUME NEW m \in toServer, DeliverToServer(m) PROVE NoDeadSession'
  BY <1>8 DEF DeliverToServer
<1>9. CASE Expire
  BY <1>9 DEF Expire
<1>10. CASE UNCHANGED <<pc, loop, input>>
  BY <1>10
<1>11. ASSUME NEW m, DropAtServer(m) \/ LoseToServer(m) \/ LoseToClient(m)
                     \/ DropAtClient(m) \/ ClientReceive(m)
       PROVE  UNCHANGED <<pc, loop, input>>
  BY <1>11 DEF DropAtServer, LoseToServer, LoseToClient, DropAtClient, ClientReceive
<1>12. SendStray \/ ClientResend \/ ClientQuit \/ UNCHANGED vars
         => UNCHANGED <<pc, loop, input>>
  BY DEF SendStray, ClientResend, ClientQuit, vars
<1> QED
  BY <1>1, <1>2, <1>3, <1>4, <1>5, <1>6, <1>7, <1>8, <1>9, <1>10, <1>11, <1>12
     DEF Next, Server, Network, Client

\* While Run is open it always has something to wait for or to do, unless a
\* requested file is empty or a client repeats itself.
THEOREM NeverDead ==
  ASSUME Faults = {}, \A f \in Requests : Blocks[f] > 0
  PROVE  Spec => []NoDeadSession
<1>1. Init => NoDeadSession
  BY DEF Init, NoDeadSession
<1> QED BY <1>1, NoDeadStep, Lockstep, TypeCorrect, PTL DEF Spec

-----------------------------------------------------------------------------
(* The server keeps the promise of FileTransfer *)

\* The initial states are those of FileTransfer.
LEMMA PromiseInit == Init => Promise!Init
  BY DEF Init, Promise!Init

\* Each step of the session and the client is one of FileTransfer, or stutters.
LEMMA PromiseStep ==
  ASSUME Faults = {}, FullTail = {}, Requests \subseteq Published,
         TypeOK, LockstepInv, LockstepInv', [Next]_vars
  PROVE  [Promise!Next]_(Promise!vars)
<1> USE DEF loop, board, net, upload, Promise!vars
<1>1. CASE Run
  <2>1. round = 0 \/ result # "none"
    BY <1>1 DEF Run, LockstepInv, Ending, TypeOK, Rounds
  <2>2. Promise!Start
    BY <1>1, <2>1 DEF Run, Promise!Start
  <2> QED BY <2>2 DEF Promise!Next
<1>2. ASSUME pc = "run", pc' = "idle", UNCHANGED board PROVE Promise!Report
  <2>1. round > 0 /\ result = "none"
    BY <1>2 DEF LockstepInv, Ending, Progress, TypeOK, Rounds
  <2>2. result' # "none"
    BY <1>2, <2>1 DEF LockstepInv, Ending
  <2>3. result' = "true" => client = "done"
    BY <1>2 DEF LockstepInv, Ending, TypeOK
  <2>4. result' \in {"true", "false"}
    BY <1>2, <2>2, TypeStep DEF TypeOK
  <2> QED BY <1>2, <2>1, <2>3, <2>4 DEF Promise!Report
<1>3. ASSUME UNCHANGED board, UNCHANGED <<pc, result>>
      PROVE  UNCHANGED Promise!vars
  BY <1>3
<1>4. CASE HandlerTimer \/ HandlerWrite \/ HandlerRead
  BY <1>3, <1>4 DEF HandlerTimer, HandlerWrite, HandlerRead
<1>5. CASE ProcessRRQ \/ ProcessACK \/ ProcessError \/ ProcessNothing
  <2>1. pc = "run" /\ UNCHANGED board
    BY <1>5 DEF ProcessRRQ, ProcessACK, ProcessError, ProcessNothing
  <2>2. UNCHANGED <<pc, result>> \/ pc' = "idle"
    BY <1>5 DEF ProcessRRQ, ProcessACK, ProcessError, ProcessNothing, EndTurn
  <2> QED BY <1>2, <1>3, <2>1, <2>2 DEF Promise!Next
<1>6. CASE Network
  BY <1>3, <1>6 DEF Network, DeliverToServer, DropAtServer, LoseToServer, LoseToClient,
                    DropAtClient, Expire, SendStray
<1>7. ASSUME NEW m \in toClient, ClientReceive(m)
      PROVE  [Promise!Next]_(Promise!vars)
  <2>1. m = output /\ client = "waiting"
    BY <1>7 DEF ClientReceive, LockstepInv, WhatIsSent
  <2>2. /\ m.block = Wrap(off) /\ m.chunk = off
        /\ m.short = (off = Blocks[request] /\ request \notin FullTail)
    <3>1. output # NoPacket
      BY <2>1, PacketFields DEF TypeOK, DataPackets, NoPacket
    <3>2. m = DATA(round, Wrap(off), off,
                   off = Blocks[request] /\ request \notin FullTail)
      BY <2>1, <3>1 DEF LockstepInv, WhatIsSent
    <3> QED BY <3>2, PacketFields
  <2>3. CASE off = Len(got) + 1
    <3>1. /\ got' = Append(got, Len(got) + 1)
          /\ client' = IF Len(got) + 1 = Blocks[request] THEN "done" ELSE "waiting"
      BY <1>7, <2>2, <2>3 DEF ClientReceive
    <3>2. Len(got) < Blocks[request]
      BY <2>3, TFtpAssumption DEF LockstepInv, Progress, TypeOK
    <3>3. Promise!Deliver
      BY <1>7, <2>1, <3>1, <3>2 DEF ClientReceive, Promise!Deliver
    <3> QED BY <3>3 DEF Promise!Next
  <2>4. CASE off = Len(got)
    <3>1. m.block # Wrap(Len(got) + 1)
      BY <2>2, <2>4, WrapNext DEF TypeOK
    <3>2. UNCHANGED Promise!vars
      BY <1>7, <3>1 DEF ClientReceive
    <3> QED BY <3>2
  <2> QED BY <2>3, <2>4 DEF LockstepInv, Progress
<1>8. CASE ClientQuit
  <2>1. Promise!Abort
    BY <1>8 DEF ClientQuit, Promise!Abort
  <2> QED BY <2>1 DEF Promise!Next
<1>9. ~ClientResend
  BY DEF ClientResend
<1>10. CASE UNCHANGED vars
  BY <1>3, <1>10 DEF vars
<1> QED
  BY <1>1, <1>4, <1>5, <1>6, <1>7, <1>8, <1>9, <1>10 DEF Next, Server, Client

\* On a network that only loses datagrams, for published files that are no
\* multiple of 512 bytes, every behaviour of the server and its clients is
\* one of FileTransfer.
THEOREM Refinement ==
  ASSUME Faults = {}, FullTail = {}, Requests \subseteq Published
  PROVE  Spec => PromiseKept
<1>1. Init => Promise!Init
  BY PromiseInit
<1>2. TypeOK /\ LockstepInv /\ LockstepInv' /\ [Next]_vars
        => [Promise!Next]_(Promise!vars)
  BY PromiseStep
<1> QED
  BY <1>1, <1>2, Lockstep, TypeCorrect, PTL DEF Spec, PromiseKept, Promise!Spec
=============================================================================
