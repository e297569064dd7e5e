-------------------------------- MODULE TFtp --------------------------------
(***************************************************************************)
(* The TFTP server regiloader runs inside itself to feed a board its       *)
(* kernel and archives (src/src/utils/regiloader/tftp.cpp), one call of    *)
(* Server::Run per file.  A call owns one Session: a UDP socket, a timer   *)
(* and the task of uploading one file, all driven by one io_service.       *)
(*                                                                         *)
(* The state of the event loop is the state of its three asynchronous      *)
(* operations.  An operation that was completed but whose handler has not  *)
(* run yet is "done" or "fired": that is where the races are, because a    *)
(* cancel() no longer reaches it.  Handlers that are called with an error  *)
(* only for having been cancelled return at once and are not steps.        *)
(* Sends are started and finished by the same call, so what remains of one *)
(* is the completion of HandlerWrite.                                      *)
(*                                                                         *)
(* The network is UDP: datagrams are a set, a datagram is taken out when   *)
(* it is delivered, and Faults names what else may happen to it.  The      *)
(* client is the TFTP client of U-Boot or BusyBox, which is not in the     *)
(* repository; it is modelled after RFC 1350, to which tftp.hpp refers.    *)
(***************************************************************************)
EXTENDS Naturals, Sequences

CONSTANTS
  Published,    \* names in VirDir, the files the server offers
  Requests,     \* names a client may ask for
  Blocks,       \* blocks of each file, the last shorter than 512 bytes unless
  FullTail,     \* ... the file is one of these, of a multiple of 512 bytes
  BlockIds,     \* how many values a block id has: 2^16 in the code
  TriesLimit,   \* kTriesLimit of HandlerTimer, 12 in the code
  MaxRounds,    \* bound: how many calls of Run a behaviour may hold
  MaxLosses,    \* bound: how many datagrams the network may lose
  Faults        \* what may go wrong, a subset of FaultKinds

(***************************************************************************)
(* duplicate   a datagram is delivered and stays in the network            *)
(* early       the server's timer expires although an answer is under way  *)
(* retransmit  the client repeats its last datagram on a timer of its own  *)
(* quit        the client gives up, or ends the transfer with an ERROR     *)
(* stray       somebody sends a datagram whose opcode the server ignores   *)
(* senderror   a send fails, HandlerWrite is called with the error         *)
(***************************************************************************)
FaultKinds == {"duplicate", "early", "retransmit", "quit", "stray", "senderror"}

ASSUME TFtpAssumption ==
  /\ Requests # {}
  /\ Blocks \in [Published \cup Requests -> Nat]
  /\ BlockIds \in Nat /\ BlockIds > 1
  /\ TriesLimit \in Nat /\ TriesLimit > 0
  /\ MaxRounds \in Nat /\ MaxLosses \in Nat
  /\ Faults \subseteq FaultKinds

VARIABLES
  pc,       \* "idle": no call of Run is open, "run": inside io_service::run
  result,   \* what Run returned: "none" while it is open
  task,     \* _task.type
  file,     \* the name whose file _task.file has open
  off,      \* _task.file->tellg(), in blocks
  output,   \* _output, the packet a timeout sends again
  input,    \* _input, the packet Process will take
  buff,     \* _buff, the datagram the last receive stored
  endpt,    \* _endpt, the client (by call) that sent it
  rd,       \* the receive: "none", "pending" or "done"
  wr,       \* the send: "none", "done" or "failed"
  tm,       \* the timer: "none", "armed" or "fired"
  timeout,  \* _timeout
  tries,    \* _timeout_tries
  round,    \* number of calls of Run so far, and the name of its client
  request,  \* the file the client of this call asks for
  client,   \* "off", "waiting", "done" or "failed"
  got,      \* the blocks the client has stored
  toServer, \* datagrams on their way to the server's port
  toClient, \* datagrams on their way to a client
  lost      \* how many datagrams were lost

loop    == <<rd, wr, tm, timeout, tries>>
board   == <<round, request, client, got>>
net     == <<toServer, toClient, lost>>
upload  == <<task, file, off, output>>
vars    == <<pc, result, upload, input, buff, endpt, loop, board, net>>

-----------------------------------------------------------------------------
(* Datagrams *)

NoPacket      == [op |-> "none"]
RRQ(c, f)     == [op |-> "RRQ", cl |-> c, name |-> f]
ACK(c, b)     == [op |-> "ACK", cl |-> c, block |-> b]
ERR(c)        == [op |-> "ERROR", cl |-> c]
Stray(c)      == [op |-> "other", cl |-> c]
DATA(c, b, n, short) ==
  [op |-> "DATA", cl |-> c, block |-> b, chunk |-> n, short |-> short]

Rounds   == 0 .. MaxRounds
BlockId  == 0 .. BlockIds - 1
Wrap(n)  == n % BlockIds

Requested   == [op : {"RRQ"}, cl : Rounds, name : Requests]
Acks        == [op : {"ACK"}, cl : Rounds, block : BlockId]
Others      == [op : {"ERROR", "other"}, cl : Rounds]
ToServerPackets == Requested \cup Acks \cup Others
DataPackets == [op : {"DATA"}, cl : Rounds, block : BlockId, chunk : Nat,
                short : BOOLEAN]

TypeOK ==
  /\ pc \in {"idle", "run"}
  /\ result \in {"none", "true", "false"}
  /\ task \in {"kIdling", "kUploading"}
  /\ file \in Published \cup Requests
  /\ off \in Nat
  /\ output \in DataPackets \cup {NoPacket}
  /\ input \in ToServerPackets \cup {NoPacket}
  /\ buff \in ToServerPackets \cup {NoPacket}
  /\ endpt \in Rounds
  /\ rd \in {"none", "pending", "done"}
  /\ wr \in {"none", "done", "failed"}
  /\ tm \in {"none", "armed", "fired"}
  /\ timeout \in BOOLEAN
  /\ tries \in 0 .. TriesLimit - 1
  /\ round \in Rounds
  /\ request \in Requests
  /\ client \in {"off", "waiting", "done", "failed"}
  /\ got \in Seq(Nat)
  /\ toServer \subseteq ToServerPackets
  /\ toClient \subseteq DataPackets
  /\ lost \in 0 .. MaxLosses

Init ==
  /\ pc = "idle" /\ result = "none"
  /\ task = "kIdling" /\ off = 0 /\ output = NoPacket
  /\ file \in Requests /\ request = file
  /\ input = NoPacket /\ buff = NoPacket /\ endpt = 0
  /\ rd = "none" /\ wr = "none" /\ tm = "none"
  /\ timeout = FALSE /\ tries = 0
  /\ round = 0 /\ client = "off" /\ got = <<>>
  /\ toServer = {} /\ toClient = {} /\ lost = 0

-----------------------------------------------------------------------------
(* The session: handlers called by io_service::run *)

\* Every operation of the session has finished and its handler has returned.
Quiet == rd = "none" /\ wr = "none" /\ tm = "none"

\* Session::Send: _input is dropped, the datagram leaves for _endpt and the
\* completion is queued.
Send(pkt) ==
  /\ input' = NoPacket
  /\ \/ /\ wr' = "done"
        /\ toClient' = toClient \cup {[pkt EXCEPT !.cl = endpt]}
     \/ /\ "senderror" \in Faults
        /\ wr' = "failed"
        /\ UNCHANGED toClient

\* Session::Receive: a receive is posted and the timer is set up, which
\* clears _timeout.
Receive ==
  /\ input' = NoPacket
  /\ rd' = "pending"
  /\ timeout' = FALSE
  /\ tm' = "armed"

\* Mutant: the tries are compared with > and not with >=.
HandlerTimerOneMore ==
  /\ pc = "run" /\ tm = "fired"
  /\ tm' = "none"
  /\ rd' = IF rd = "pending" THEN "none" ELSE rd
  /\ IF output # NoPacket THEN Send(output) ELSE UNCHANGED <<input, wr, toClient>>
  /\ IF output = NoPacket \/ tries + 1 > TriesLimit
       THEN timeout' = TRUE /\ tries' = 0
       ELSE timeout' = timeout /\ tries' = tries + 1
  /\ UNCHANGED <<pc, result, upload, buff, endpt, board, toServer, lost>>

\* Mutant: the tries are counted, but nothing is sent again.
HandlerTimerSilent ==
  /\ pc = "run" /\ tm = "fired"
  /\ tm' = "none"
  /\ rd' = IF rd = "pending" THEN "none" ELSE rd
  /\ IF output = NoPacket \/ tries + 1 >= TriesLimit
       THEN timeout' = TRUE /\ tries' = 0
       ELSE timeout' = timeout /\ tries' = tries + 1
  /\ UNCHANGED <<pc, result, upload, input, buff, endpt, wr, board, net>>

\* Mutant: the pending receive is not cancelled.
HandlerTimerUncancelled ==
  /\ pc = "run" /\ tm = "fired"
  /\ tm' = "none"
  /\ IF output # NoPacket THEN Send(output) ELSE UNCHANGED <<input, wr, toClient>>
  /\ IF output = NoPacket \/ tries + 1 >= TriesLimit
       THEN timeout' = TRUE /\ tries' = 0
       ELSE timeout' = timeout /\ tries' = tries + 1
  /\ UNCHANGED <<pc, result, upload, buff, endpt, rd, board, toServer, lost>>

\* Mutant: a session that has sent nothing yet is not out of tries.
HandlerTimerPatient ==
  /\ pc = "run" /\ tm = "fired"
  /\ tm' = "none"
  /\ rd' = IF rd = "pending" THEN "none" ELSE rd
  /\ IF output # NoPacket THEN Send(output) ELSE UNCHANGED <<input, wr, toClient>>
  /\ IF output # NoPacket /\ tries + 1 >= TriesLimit
       THEN timeout' = TRUE /\ tries' = 0
       ELSE timeout' = timeout /\ tries' = (tries + 1) % TriesLimit
  /\ UNCHANGED <<pc, result, upload, buff, endpt, board, toServer, lost>>

\* Session::HandlerTimer after an expiry: the pending receive is cancelled,
\* the last packet is sent again and the tries are counted; a session that
\* has sent nothing yet counts as out of tries.
HandlerTimer ==
  /\ pc = "run" /\ tm = "fired"
  /\ tm' = "none"
  /\ rd' = IF rd = "pending" THEN "none" ELSE rd
  /\ IF output # NoPacket THEN Send(output) ELSE UNCHANGED <<input, wr, toClient>>
  /\ IF output = NoPacket \/ tries + 1 >= TriesLimit
       THEN timeout' = TRUE /\ tries' = 0
       ELSE timeout' = timeout /\ tries' = tries + 1
  /\ UNCHANGED <<pc, result, upload, buff, endpt, board, toServer, lost>>

\* Session::HandlerWrite: after a successful send AsyncAccept posts the next
\* receive, unless a packet waits for Process.  It runs after a HandlerRead
\* that was queued before it.
HandlerWrite ==
  /\ pc = "run" /\ wr # "none" /\ rd # "done"
  /\ wr' = "none"
  /\ IF wr = "done" /\ input = NoPacket
       THEN Receive
       ELSE UNCHANGED <<input, rd, timeout, tm>>
  /\ UNCHANGED <<pc, result, upload, buff, endpt, tries, board, net>>

\* Session::HandlerRead and DetectInputPkt: the timer is cancelled, which does
\* not reach one that has fired, and the datagram becomes _input unless its
\* opcode is unknown.
HandlerRead ==
  /\ pc = "run" /\ rd = "done"
  /\ rd' = "none"
  /\ tm' = IF tm = "armed" THEN "none" ELSE tm
  /\ input' = IF buff.op = "other" THEN input ELSE buff
  /\ UNCHANGED <<pc, result, upload, buff, endpt, wr, timeout, tries, board, net>>

-----------------------------------------------------------------------------
(* Server::Run polls the session each time io_service::run has no work *)

\* Mutant: Run answers true however the session ended.
EndTurnTrue(closed) ==
  IF closed \/ timeout
    THEN pc' = "idle" /\ result' = "true"
    ELSE UNCHANGED <<pc, result>>

\* The end of the loop's turn: a closed socket or _timeout ends the call.
EndTurn(closed) ==
  IF closed \/ timeout
    THEN pc' = "idle" /\ result' = IF timeout THEN "false" ELSE "true"
    ELSE UNCHANGED <<pc, result>>

\* Mutant: the offset moves on twice for one block.
SendNextBlockTwice(f, pos, id) ==
  LET pkt == DATA(endpt, id, pos + 1, pos + 1 = Blocks[f] /\ f \notin FullTail)
  IN  /\ off' = pos + (IF pos + 1 < Blocks[f] THEN 2 ELSE 1)
      /\ output' = pkt
      /\ Send(pkt)

\* ProcessTask succeeds: the next block of file f is read and sent as block id.
SendNextBlock(f, pos, id) ==
  LET pkt == DATA(endpt, id, pos + 1, pos + 1 = Blocks[f] /\ f \notin FullTail)
  IN  /\ off' = pos + 1
      /\ output' = pkt
      /\ Send(pkt)

\* Mutant: the missing reply to an unknown name is sent before the Close.
ProcessRRQReply ==
  /\ pc = "run" /\ Quiet /\ input.op = "RRQ"
  /\ IF input.name \in Published /\ task = "kIdling"
       THEN /\ task' = "kUploading"
            /\ file' = input.name
            /\ IF Blocks[input.name] > 0
                 THEN SendNextBlock(input.name, 0, Wrap(1))
                 ELSE off' = 0 /\ input' = NoPacket
                      /\ UNCHANGED <<output, wr, toClient>>
       ELSE input' = NoPacket /\ wr' = "done" /\ UNCHANGED <<upload, toClient>>
  /\ EndTurn(input.name \notin Published)
  /\ UNCHANGED <<buff, endpt, rd, tm, timeout, tries, board, toServer, lost>>

\* A read request.  An unknown name closes the session; the first request
\* opens the file and sends block 1, if the file has one; a request during an
\* upload is taken and nothing is started for it.
ProcessRRQ ==
  /\ pc = "run" /\ Quiet /\ input.op = "RRQ"
  /\ IF input.name \in Published /\ task = "kIdling"
       THEN /\ task' = "kUploading"
            /\ file' = input.name
            /\ IF Blocks[input.name] > 0
                 THEN SendNextBlock(input.name, 0, Wrap(1))
                 ELSE off' = 0 /\ input' = NoPacket
                      /\ UNCHANGED <<output, wr, toClient>>
       ELSE input' = NoPacket /\ UNCHANGED <<upload, wr, toClient>>
  /\ EndTurn(input.name \notin Published)
  /\ UNCHANGED <<buff, endpt, rd, tm, timeout, tries, board, toServer, lost>>

\* Mutant: the session is closed when the last block is sent, not acknowledged.
ProcessACKEarly ==
  /\ pc = "run" /\ Quiet /\ input.op = "ACK"
  /\ LET more == task = "kUploading" /\ off < Blocks[file]
     IN  /\ IF more
              THEN SendNextBlock(file, off, Wrap(input.block + 1))
              ELSE input' = NoPacket /\ UNCHANGED <<off, output, wr, toClient>>
         /\ EndTurn(~more \/ off + 1 = Blocks[file])
  /\ UNCHANGED <<task, file, buff, endpt, rd, tm, timeout, tries, board, toServer, lost>>

\* Mutant: the session is not closed at the end of the file.
ProcessACKOpen ==
  /\ pc = "run" /\ Quiet /\ input.op = "ACK"
  /\ LET more == task = "kUploading" /\ off < Blocks[file]
     IN  /\ IF more
              THEN SendNextBlock(file, off, Wrap(input.block + 1))
              ELSE input' = NoPacket /\ UNCHANGED <<off, output, wr, toClient>>
         /\ EndTurn(FALSE)
  /\ UNCHANGED <<task, file, buff, endpt, rd, tm, timeout, tries, board, toServer, lost>>

\* An acknowledgement, of whatever block: the next unread block is sent under
\* the id after the acknowledged one; at the end of the file, or without an
\* upload, the session is closed.
ProcessACK ==
  /\ pc = "run" /\ Quiet /\ input.op = "ACK"
  /\ LET more == task = "kUploading" /\ off < Blocks[file]
     IN  /\ IF more
              THEN SendNextBlock(file, off, Wrap(input.block + 1))
              ELSE input' = NoPacket /\ UNCHANGED <<off, output, wr, toClient>>
         /\ EndTurn(~more)
  /\ UNCHANGED <<task, file, buff, endpt, rd, tm, timeout, tries, board, toServer, lost>>

\* An ERROR packet, or any other that is not expected, closes the session.
ProcessError ==
  /\ pc = "run" /\ Quiet /\ input.op = "ERROR"
  /\ input' = NoPacket
  /\ EndTurn(TRUE)
  /\ UNCHANGED <<upload, buff, endpt, loop, board, net>>

\* No packet: the turn only looks at _timeout.  (Without it the loop turns
\* again with nothing to wait for, which is a stuttering step.)
ProcessNothing ==
  /\ pc = "run" /\ Quiet /\ input = NoPacket /\ timeout
  /\ EndTurn(FALSE)
  /\ UNCHANGED <<upload, input, buff, endpt, loop, board, net>>

\* A caller (UploadKernelOverEth, DownloadFromTFtp) types the command that
\* starts a client on the board and calls Run, which opens a fresh session
\* and posts its first receive.
Run ==
  /\ pc = "idle" /\ round < MaxRounds /\ Quiet
  /\ client # "waiting"
  /\ pc' = "run" /\ result' = "none"
  /\ task' = "kIdling" /\ output' = NoPacket /\ off' = 0
  /\ Receive
  /\ buff' = NoPacket /\ wr' = "none" /\ tries' = 0
  /\ round' = round + 1 /\ client' = "waiting" /\ got' = <<>>
  /\ request' \in Requests /\ file' = request'
  /\ toServer' = toServer \cup {RRQ(round + 1, request')}
  /\ UNCHANGED <<endpt, toClient, lost>>

-----------------------------------------------------------------------------
(* The network and the clock *)

\* The remainder of the network when datagram m of ms has been delivered.
AfterDelivery(ms, m) ==
  {ms \ {m}} \cup (IF "duplicate" \in Faults THEN {ms} ELSE {})

\* The posted receive completes with a datagram of any sender.
DeliverToServer(m) ==
  /\ m \in toServer /\ pc = "run" /\ rd = "pending"
  /\ rd' = "done" /\ buff' = m /\ endpt' = m.cl
  /\ toServer' \in AfterDelivery(toServer, m)
  /\ UNCHANGED <<pc, result, upload, input, wr, tm, timeout, tries, board, toClient, lost>>

\* Nobody is bound to the server's port between two calls.
DropAtServer(m) ==
  /\ m \in toServer /\ pc = "idle"
  /\ toServer' = toServer \ {m}
  /\ UNCHANGED <<pc, result, upload, input, buff, endpt, loop, board, toClient, lost>>

LoseToServer(m) ==
  /\ m \in toServer /\ lost < MaxLosses
  /\ toServer' = toServer \ {m}
  /\ lost' = lost + 1
  /\ UNCHANGED <<pc, result, upload, input, buff, endpt, loop, board, toClient>>

LoseToClient(m) ==
  /\ m \in toClient /\ lost < MaxLosses
  /\ toClient' = toClient \ {m}
  /\ lost' = lost + 1
  /\ UNCHANGED <<pc, result, upload, input, buff, endpt, loop, board, toServer>>

\* The deadline passes.  kResponseTimeoutMs is two seconds: unless "early", it
\* is longer than a round trip and expires only when nothing is under way.
Expire ==
  /\ pc = "run" /\ tm = "armed"
  /\ "early" \in Faults \/ (toServer = {} /\ toClient = {} /\ rd # "done")
  /\ tm' = "fired"
  /\ UNCHANGED <<pc, result, upload, input, buff, endpt, rd, wr, timeout, tries,
                 board, net>>

SendStray ==
  /\ "stray" \in Faults
  /\ toServer' = toServer \cup {Stray(round)}
  /\ UNCHANGED <<pc, result, upload, input, buff, endpt, loop, board, toClient, lost>>

-----------------------------------------------------------------------------
(* The client of the current call (external) *)

\* The block the client expects is stored and acknowledged; a short one ends
\* the transfer.  The block before it is acknowledged again (BusyBox) or
\* ignored (U-Boot); any other is ignored.
ClientReceive(m) ==
  /\ m \in toClient /\ m.cl = round /\ client = "waiting"
  /\ \/ /\ m.block = Wrap(Len(got) + 1)
        /\ got' = Append(got, m.chunk)
        /\ client' = IF m.short THEN "done" ELSE "waiting"
        /\ toServer' = toServer \cup {ACK(round, m.block)}
     \/ /\ m.block # Wrap(Len(got) + 1)
        /\ toServer' = IF m.block = Wrap(Len(got)) /\ got # <<>>
                         THEN toServer \cup {ACK(round, m.block)} ELSE toServer
        /\ UNCHANGED <<got, client>>
     \/ /\ m.block # Wrap(Len(got) + 1)
        /\ "retransmit" \in Faults
        /\ UNCHANGED <<toServer, got, client>>
  /\ toClient' \in AfterDelivery(toClient, m)
  /\ UNCHANGED <<pc, result, upload, input, buff, endpt, loop, round, request, lost>>

\* A datagram for a client that has ended finds no socket.
DropAtClient(m) ==
  /\ m \in toClient /\ (m.cl # round \/ client # "waiting")
  /\ toClient' = toClient \ {m}
  /\ UNCHANGED <<pc, result, upload, input, buff, endpt, loop, board, toServer, lost>>

\* The client's own timer repeats the request, or the last acknowledgement.
ClientResend ==
  /\ "retransmit" \in Faults /\ client = "waiting"
  /\ toServer' = toServer \cup
       {IF got = <<>> THEN RRQ(round, request) ELSE ACK(round, Wrap(Len(got)))}
  /\ UNCHANGED <<pc, result, upload, input, buff, endpt, loop, board, toClient, lost>>

\* The client runs out of patience: silently, or with an ERROR.  Without
\* "quit" it does so only when no server and no datagram is left.
ClientQuit ==
  /\ client = "waiting"
  /\ "quit" \in Faults \/ (pc = "idle" /\ toServer = {} /\ toClient = {})
  /\ client' = "failed"
  /\ \/ UNCHANGED toServer
     \/ "quit" \in Faults /\ toServer' = toServer \cup {ERR(round)}
  /\ UNCHANGED <<pc, result, upload, input, buff, endpt, loop, round, request, got,
                 toClient, lost>>

-----------------------------------------------------------------------------
\* Handlers and loop turns: they run whenever they can.
Server == \/ HandlerTimer \/ HandlerWrite \/ HandlerRead
          \/ ProcessRRQ \/ ProcessACK \/ ProcessError \/ ProcessNothing

Network == \/ \E m \in toServer : \/ DeliverToServer(m) \/ DropAtServer(m)
                                  \/ LoseToServer(m)
           \/ \E m \in toClient : LoseToClient(m) \/ DropAtClient(m)
           \/ Expire \/ SendStray

Client == \/ \E m \in toClient : ClientReceive(m)
          \/ ClientResend \/ ClientQuit

Next == Run \/ Server \/ Network \/ Client

Spec == Init /\ [][Next]_vars

(***************************************************************************)
(* io_service::run calls every handler that is ready and Server::Run turns *)
(* for ever.  Time passes: an armed timer expires, and a client that waits *)
(* for nobody gives up.  A datagram that is not lost is delivered.         *)
(***************************************************************************)
Fairness == /\ WF_vars(Server)
            /\ WF_vars(Expire)
            /\ WF_vars(\E m \in toServer : DeliverToServer(m) \/ DropAtServer(m))
            /\ WF_vars(\E m \in toClient : ClientReceive(m) \/ DropAtClient(m))
            /\ WF_vars(ClientQuit)

FairSpec == Spec /\ Fairness

-----------------------------------------------------------------------------
(* Properties *)

\* A receive is never left without its timer: a session that waits for a
\* datagram is woken some day, whatever order HandlerRead, HandlerWrite and
\* HandlerTimer ran in (Receive and SetupTimer, against the cancels of
\* HandlerRead and HandlerTimer).
ReceiveIsTimed == rd = "pending" => tm # "none"

\* While Run is open the loop never turns with nothing to wait for and nothing
\* to do: after each poll an operation is outstanding, or a packet or
\* the timeout flag is there for the next poll.
NoDeadSession ==
  pc = "run" /\ Quiet => input # NoPacket \/ timeout

\* When Run returns and drops the Session, no completion that is bound to the
\* Session's address is left in the io_service for the next call to run.
NoDanglingHandler == pc = "idle" => Quiet

\* What the client has stored is the beginning of the file, block by block:
\* none is skipped, repeated or swapped.
TransferFaithful == \A i \in 1 .. Len(got) : got[i] = i

\* Run answers true only when its client holds the whole requested file and
\* knows it.
TrueMeansDelivered ==
  pc = "idle" /\ result = "true" =>
    client = "done" /\ Len(got) = Blocks[request]

\* A call of Run ends.
RunReturns == (pc = "run") ~> (pc = "idle")

\* A client that waits gets its file, or Run tells the caller that it failed.
ClientServed == (client = "waiting") ~> (client = "done" \/ result = "false")

\* The promise of module FileTransfer.
Promise == INSTANCE FileTransfer
PromiseKept == Promise!Spec

-----------------------------------------------------------------------------
(***************************************************************************)
(* Why the properties hold.                                                *)
(*                                                                         *)
(* LoopInv, whatever the network does: a send is completed before anything *)
(* is received, so the handlers of a send, a receive and the timer never   *)
(* cross except for a receive that is done while the timer has fired.      *)
(***************************************************************************)
LoopInv ==
  /\ wr # "none" => rd # "pending" /\ tm = "none"
  /\ ReceiveIsTimed
  /\ tm = "armed" => rd # "none"
  /\ pc = "idle" => rd = "none" /\ tm = "none"

(***************************************************************************)
(* LockstepInv, when the network only loses datagrams: there is at most    *)
(* one packet at any time, in the network, in _buff or in _input, and it   *)
(* fixes how far the server and the client are apart.                      *)
(***************************************************************************)

\* A packet the client has sent, where it is not yet overtaken.
FromClient(m) ==
  /\ m.cl = round
  /\ \/ /\ m = RRQ(round, request)
        /\ task = "kIdling" /\ off = 0 /\ got = <<>>
     \/ /\ m = ACK(round, Wrap(Len(got)))
        /\ task = "kUploading" /\ off = Len(got) /\ off > 0

OnePacket ==
  /\ toServer # {} => toClient = {} /\ rd # "done" /\ input = NoPacket
  /\ toClient # {} => rd # "done" /\ input = NoPacket
  /\ rd # "none" => input = NoPacket
  /\ wr # "none" => input = NoPacket /\ rd = "none" /\ wr = "done"
  /\ tm = "fired" => /\ toServer = {} /\ toClient = {}
                     /\ rd = "pending" /\ input = NoPacket

WhatIsSent ==
  /\ \A m \in toServer : FromClient(m)
  /\ \A m \in toClient : m = output
  /\ rd = "done" => FromClient(buff) /\ endpt = round
  /\ input # NoPacket => FromClient(input) /\ endpt = round
  /\ output # NoPacket =>
       /\ off > 0 /\ endpt = round
       /\ output = DATA(round, Wrap(off), off,
                        off = Blocks[request] /\ request \notin FullTail)

Progress ==
  /\ file = request
  /\ off = Len(got) \/ off = Len(got) + 1
  /\ off <= Blocks[request]
  /\ off > 0 => task = "kUploading" /\ output # NoPacket
  /\ task = "kUploading" /\ Blocks[request] > 0 => off > 0
  /\ TransferFaithful
  /\ client = "off" => round = 0
  /\ client \in {"off", "failed"} => pc = "idle"
  /\ client = "done" => Len(got) = Blocks[request]
  /\ client = "waiting" /\ Len(got) = Blocks[request] =>
       Blocks[request] = 0 \/ request \in FullTail

Ending ==
  /\ pc = "idle" => toServer = {} /\ toClient = {} /\ wr = "none" /\ input = NoPacket
  /\ timeout /\ pc = "run" =>
                /\ rd = "none" /\ tm = "none" /\ input = NoPacket
                /\ IF output = NoPacket THEN toServer = {} /\ toClient = {}
                                        ELSE wr = "done"
  /\ round = 0 <=> client = "off"
  /\ round > 0 /\ pc = "idle" <=> result # "none"
  /\ pc = "idle" /\ result = "true" /\ request \in Published \ FullTail
       => client = "done"

LockstepInv == LoopInv /\ OnePacket /\ WhatIsSent /\ Progress /\ Ending
=============================================================================
