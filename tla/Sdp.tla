--------------------------------- MODULE Sdp ---------------------------------
(***************************************************************************)
(* UploadUBoot of regiloader: a boot loader is loaded into the RAM of a    *)
(* board over the serial download protocol of its i.MX5x boot ROM          *)
(* (src/src/utils/regiloader/sdp.cpp, sdp.hpp; regiloader.cpp).            *)
(*                                                                         *)
(* One packet at a time is sent and its answer is awaited.  SdpPacket runs *)
(* an io_service with three handlers for it: HandlerWrite, HandlerRead and *)
(* HandlerTimeout, whose operations complete in any order.  The boot ROM   *)
(* and the serial line are external: bytes stay in order, commands and     *)
(* answers may be lost, and answers may come after the timeout.            *)
(*                                                                         *)
(* A command is one unit on its way to the ROM, the boot loader ImageLen   *)
(* units of that size; an answer is one word or two.                       *)
(***************************************************************************)
EXTENDS Naturals, Sequences

CONSTANTS
  Pairs,      \* how many registers the boot loader's DCD sets
  ImageLen,   \* its length
  MaxTries,   \* kMaxAmountOfTries of SdpPacket::Send, 4 in the code
  MaxRepeats, \* kMaxTries of UploadUBoot, 3 in the code
  MaxLost     \* bound: how many commands and words are lost

ASSUME SdpAssumption ==
  /\ Pairs \in Nat /\ ImageLen \in Nat \ {0}
  /\ MaxTries \in Nat \ {0} /\ MaxRepeats \in Nat \ {0} /\ MaxLost \in Nat

VARIABLES
  pkt,      \* which of Packets is sent
  repeats,  \* Send(port, tries, msg): how many tries are left to it
  try,      \* Send(port): try_num
  phase,    \* "write": a try begins, "io": TransferData, "read": Read(), "done"
  result,   \* what UploadUBoot returns
  wr, rd,   \* async_write_some and async_read: "none", "pending", "done", "aborted"
  timer,    \* _timer: "off" or "armed"
  past,     \* whether its expires_at() has passed
  queued,   \* how many HandlerTimeout without an error wait to be run
  wasRead, timeout, \* _was_read, _timeout
  got,      \* the words that async_read has taken off the line
  toRom, toHost,    \* the serial line
  rom,      \* the boot ROM
  prompt,   \* whether it answers in time
  lost      \* how many commands and words were lost

sending == <<pkt, repeats, try, phase, result>>
asio    == <<wr, rd, timer, past, queued, wasRead, timeout, got>>
line    == <<toRom, toHost>>
outside == <<rom, prompt, lost>>
vars    == <<sending, asio, line, outside>>

\* UploadUBoot and UploadDCD: PktStatus, PktWriteMem and PktReadMem for each
\* pair, PktWriteF, PktComplete.
Packets ==
  [i \in 1 .. 2 * Pairs + 3 |->
     CASE i = 1             -> "status"
       [] i = 2 * Pairs + 2 -> "file"
       [] i = 2 * Pairs + 3 -> "complete"
       [] OTHER             -> IF i % 2 = 0 THEN "writeMem" ELSE "readMem"]

\* The answers: F0F0F0F0, 56787856, 128A8A12, the value of a register, 88888888.
Words == {"status", "ack", "written", "value", "complete"}

\* The ROM's answer to packet p; it knows one command for status and complete.
Answer(p, loaded) ==
  CASE p \in {"status", "complete"} -> IF loaded THEN <<"complete">> ELSE <<"status">>
    [] p = "writeMem" -> <<"ack", "written">>
    [] p = "readMem"  -> <<"ack", "value">>
    [] p = "file"     -> <<"ack">>

\* Mutant: the second word of an answer is not read.
RespSizeShort(p) == 1

\* _resp_size, in words.
RespSize(p) == IF p \in {"writeMem", "readMem"} THEN 2 ELSE 1

\* Mutant: PktWriteF::Read wants the word of a closed configuration.
RightClosed(p, ws) ==
  CASE p = "status"   -> ws = <<"status">>
    [] p = "complete" -> ws = <<"complete">>
    [] p = "writeMem" -> ws = <<"ack", "written">>
    [] p = "readMem"  -> ws[1] = "ack"
    [] p = "file"     -> ws = <<"closed">>

\* Read(): whether the words are what packet p wants to see.
Right(p, ws) ==
  CASE p = "status"   -> ws = <<"status">>
    [] p = "complete" -> ws = <<"complete">>
    [] p = "writeMem" -> ws = <<"ack", "written">>
    [] p = "readMem"  -> ws[1] = "ack"
    [] p = "file"     -> ws = <<"ack">>

\* What travels to the ROM: a packet, or unit n of the boot loader.
Command(i) == [kind |-> "packet", n |-> i]
Image      == [n \in 1 .. ImageLen |-> [kind |-> "image", n |-> n]]
Units      == [kind : {"packet"}, n : DOMAIN Packets] \cup [kind : {"image"}, n : 1 .. ImageLen]

\* What travels back: a word, and which packet it answers.
HostWords  == [word : Words, of : DOMAIN Packets]

TypeOK ==
  /\ pkt \in DOMAIN Packets /\ repeats \in 1 .. MaxRepeats /\ try \in 1 .. MaxTries
  /\ phase \in {"write", "io", "read", "done"} /\ result \in BOOLEAN
  /\ wr \in {"none", "pending", "done", "aborted"}
  /\ rd \in {"none", "pending", "done", "aborted"}
  /\ timer \in {"off", "armed"} /\ past \in BOOLEAN /\ queued \in 0 .. 2
  /\ wasRead \in BOOLEAN /\ timeout \in BOOLEAN
  /\ got \in Seq(HostWords) /\ Len(got) <= RespSize(Packets[pkt])
  /\ toRom \in Seq(Units) /\ toHost \in Seq(HostWords)
  /\ rom \in [mode : {"command", "data", "runs"}, left : 0 .. ImageLen,
              image : {"none", "whole", "broken"}]
  /\ prompt \in BOOLEAN /\ lost \in 0 .. MaxLost

Init ==
  /\ pkt = 1 /\ repeats = MaxRepeats /\ try = 1 /\ phase = "write" /\ result = FALSE
  /\ wr = "none" /\ rd = "none" /\ timer = "off" /\ past = TRUE /\ queued = 0
  /\ wasRead = FALSE /\ timeout = FALSE /\ got = <<>>
  /\ toRom = <<>> /\ toHost = <<>>
  /\ rom = [mode |-> "command", left |-> 0, image |-> "none"]
  /\ prompt \in BOOLEAN /\ lost = 0

-----------------------------------------------------------------------------
(* SdpPacket: one try *)

\* CreateTimer: a wait that is still pending is aborted, which HandlerTimeout
\* ignores; one that has completed is queued and stays so.
CreateTimer == timer' = "armed" /\ past' = FALSE

\* Send(port): the packet is written, TransferData begins.
StartTry ==
  /\ phase = "write"
  /\ phase' = "io"
  /\ wr' = "pending" /\ CreateTimer
  /\ wasRead' = FALSE /\ timeout' = FALSE /\ got' = <<>>
  /\ UNCHANGED <<pkt, repeats, try, result, rd, queued, line, outside>>

\* The answer is awaited, with a deadline of its own (ReadArray).
HandlerWrite ==
  /\ wr = "done"
  /\ wr' = "none"
  /\ rd' = "pending" /\ got' = <<>> /\ CreateTimer
  /\ UNCHANGED <<sending, queued, wasRead, timeout, line, outside>>

\* HandlerWrite with an error.
HandlerWriteError ==
  /\ wr = "aborted"
  /\ wr' = "none"
  /\ timer' = "off" /\ timeout' = TRUE
  /\ UNCHANGED <<sending, rd, past, queued, wasRead, got, line, outside>>

\* cancel() reaches a wait that is pending, not a handler that is queued.
HandlerRead ==
  /\ rd \in {"done", "aborted"}
  /\ rd' = "none"
  /\ wasRead' = (rd = "done")
  /\ timer' = IF rd = "done" THEN "off" ELSE timer
  /\ UNCHANGED <<sending, wr, past, queued, timeout, got, line, outside>>

\* Mutant: the read is given up, but _timeout is not set.
HandlerTimeoutSilent ==
  /\ queued > 0
  /\ queued' = queued - 1
  /\ IF past
       THEN /\ wr' = IF wr = "pending" THEN "aborted" ELSE wr
            /\ rd' = IF rd = "pending" THEN "aborted" ELSE rd
       ELSE UNCHANGED <<wr, rd>>
  /\ UNCHANGED <<sending, timer, past, timeout, wasRead, got, line, outside>>

\* A handler that was queued before CreateTimer finds the new deadline ahead.
\* port.cancel() aborts what is pending.
HandlerTimeout ==
  /\ queued > 0
  /\ queued' = queued - 1
  /\ IF past
       THEN /\ timeout' = TRUE
            /\ wr' = IF wr = "pending" THEN "aborted" ELSE wr
            /\ rd' = IF rd = "pending" THEN "aborted" ELSE rd
       ELSE UNCHANGED <<timeout, wr, rd>>
  /\ UNCHANGED <<sending, timer, past, wasRead, got, line, outside>>

\* io_service::run has nothing left to wait for, and returns.
Quiet == wr = "none" /\ rd = "none" /\ timer = "off" /\ queued = 0

\* The try has succeeded, and the answer is looked at.
TryDone ==
  /\ phase = "io" /\ Quiet /\ wasRead /\ ~timeout
  /\ phase' = "read"
  /\ UNCHANGED <<pkt, repeats, try, result, asio, line, outside>>

-----------------------------------------------------------------------------
(* Send(port), Send(port, tries, msg), UploadUBoot *)

\* Mutant: only the answer to the first packet is looked at.
IgnoredAll(p) == p # "status"

\* Nobody looks at how PktWriteMem and PktReadMem of UploadDCD went.
Ignored(p) == p \in {"writeMem", "readMem"}

\* Send(port) has returned ok: the next packet, the same again, or the end.
Sent(ok) ==
  \/ /\ ok \/ Ignored(Packets[pkt])
     /\ try' = 1 /\ repeats' = MaxRepeats
     /\ IF pkt < Len(Packets)
          THEN pkt' = pkt + 1 /\ phase' = "write" /\ UNCHANGED result
          ELSE phase' = "done" /\ result' = TRUE /\ UNCHANGED pkt
  \/ /\ ~ok /\ ~Ignored(Packets[pkt])
     /\ UNCHANGED pkt
     /\ try' = 1
     /\ IF repeats > 1
          THEN repeats' = repeats - 1 /\ phase' = "write" /\ UNCHANGED result
          ELSE phase' = "done" /\ result' = FALSE /\ UNCHANGED repeats

\* Mutants: the tries are not counted, or one more than MaxTries is.
TryFailedAgain ==
  /\ phase = "io" /\ Quiet /\ timeout
  /\ got' = <<>>
  /\ phase' = "write"
  /\ UNCHANGED <<pkt, repeats, try, result>>
  /\ UNCHANGED <<wr, rd, timer, past, queued, wasRead, timeout, line, outside>>

TryFailedOneMore ==
  /\ phase = "io" /\ Quiet /\ timeout
  /\ got' = <<>>
  /\ IF try <= MaxTries
       THEN /\ try' = try + 1 /\ phase' = "write"
            /\ UNCHANGED <<pkt, repeats, result>>
       ELSE Sent(FALSE)
  /\ UNCHANGED <<wr, rd, timer, past, queued, wasRead, timeout, line, outside>>

\* The try has failed: the next one, or Send(port) returns false.
TryFailed ==
  /\ phase = "io" /\ Quiet /\ timeout
  /\ got' = <<>>
  /\ IF try < MaxTries
       THEN /\ try' = try + 1 /\ phase' = "write"
            /\ UNCHANGED <<pkt, repeats, result>>
       ELSE Sent(FALSE)
  /\ UNCHANGED <<wr, rd, timer, past, queued, wasRead, timeout, line, outside>>

\* Read(): the right answer to PktWriteF lets the boot loader be written.
ReadAnswer ==
  /\ phase = "read"
  /\ LET ok == Right(Packets[pkt], [i \in DOMAIN got |-> got[i].word])
     IN  /\ Sent(ok)
         /\ toRom' = IF ok /\ Packets[pkt] = "file" THEN toRom \o Image ELSE toRom
  /\ got' = <<>>
  /\ UNCHANGED <<wr, rd, timer, past, queued, wasRead, timeout, toHost, outside>>

-----------------------------------------------------------------------------
(* The operating system and the clock *)

\* The packet is written to the line.
WriteCompletes ==
  /\ wr = "pending"
  /\ wr' = "done"
  /\ toRom' = Append(toRom, Command(pkt))
  /\ UNCHANGED <<sending, rd, timer, past, queued, wasRead, timeout, got, toHost, outside>>

\* A word is read off the line.
WordArrives ==
  /\ rd = "pending" /\ toHost # <<>>
  /\ got' = Append(got, Head(toHost)) /\ toHost' = Tail(toHost)
  /\ rd' = IF Len(got') = RespSize(Packets[pkt]) THEN "done" ELSE rd
  /\ UNCHANGED <<sending, wr, timer, past, queued, wasRead, timeout, toRom, outside>>

\* The 100 ms are over.  If the ROM answers in time, it has nothing to answer.
Expire ==
  /\ timer = "armed"
  /\ prompt => toRom = <<>> /\ toHost = <<>> /\ wr # "pending" /\ rd # "done"
  /\ timer' = "off" /\ past' = TRUE /\ queued' = queued + 1
  /\ UNCHANGED <<sending, wr, rd, wasRead, timeout, got, line, outside>>

-----------------------------------------------------------------------------
(* The line and the boot ROM *)

\* The ROM takes a unit: as a command, or as the next of the boot loader.
RomTakes ==
  /\ toRom # <<>>
  /\ toRom' = Tail(toRom)
  /\ LET u == Head(toRom)
         p == Packets[u.n]
         a == Answer(p, rom.image # "none")
     IN  \/ /\ rom.mode = "command" /\ u.kind = "packet"
            /\ toHost' = toHost \o [i \in DOMAIN a |-> [word |-> a[i], of |-> u.n]]
            /\ rom' = CASE p = "file"          -> [mode |-> "data", left |-> ImageLen,
                                                   image |-> "whole"]
                        [] a = <<"complete">>  -> [rom EXCEPT !.mode = "runs"]
                        [] OTHER               -> rom
         \/ /\ rom.mode = "data"
            /\ rom' = [mode  |-> IF rom.left = 1 THEN "command" ELSE "data",
                       left  |-> rom.left - 1,
                       image |-> IF u = Image[ImageLen - rom.left + 1]
                                   THEN rom.image ELSE "broken"]
            /\ UNCHANGED toHost
         \/ /\ rom.mode = "runs" \/ (rom.mode = "command" /\ u.kind = "image")
            /\ UNCHANGED <<rom, toHost>>
  /\ UNCHANGED <<sending, asio, prompt, lost>>

\* A command is lost.
LoseCommand ==
  /\ lost < MaxLost
  /\ toRom # <<>> /\ Head(toRom).kind = "packet"
  /\ toRom' = Tail(toRom)
  /\ lost' = lost + 1
  /\ UNCHANGED <<sending, asio, toHost, rom, prompt>>

\* A word is lost; a ROM that is prompt is heard when it is ready for the file.
LoseWord ==
  /\ lost < MaxLost
  /\ toHost # <<>>
  /\ prompt => Packets[Head(toHost).of] # "file"
  /\ toHost' = Tail(toHost)
  /\ lost' = lost + 1
  /\ UNCHANGED <<sending, asio, toRom, rom, prompt>>

-----------------------------------------------------------------------------
\* What the program does: its handlers and the code around io_service::run.
Host == \/ StartTry \/ HandlerWrite \/ HandlerWriteError \/ HandlerRead
        \/ HandlerTimeout \/ TryDone \/ TryFailed \/ ReadAnswer

Next == Host \/ WriteCompletes \/ WordArrives \/ Expire \/ RomTakes \/ LoseCommand \/ LoseWord

Spec == Init /\ [][Next]_vars

\* The event loop turns, the driver writes and reads, the clock goes on.  The
\* ROM need not ever answer, unless it is prompt.
FairSpec == /\ Spec
            /\ WF_vars(Host) /\ WF_vars(WriteCompletes) /\ WF_vars(WordArrives)
            /\ WF_vars(Expire) /\ WF_vars(prompt /\ RomTakes)

-----------------------------------------------------------------------------
(* Properties *)

\* TransferData asks again and again for _was_read or _timeout; when nothing is
\* left to wait for, one of them is set: it never turns for ever.
NeverSpins == phase = "io" /\ Quiet => wasRead \/ timeout

\* An answer that is looked at answers the packet that was sent, not an earlier
\* one whose tries were given up, if answers come in time.
AnswerIsOwn == prompt /\ phase = "read" => \A i \in DOMAIN got : got[i].of = pkt

\* The ROM never takes a repeated command for a part of the boot loader, if
\* answers come in time.
ImageUnbroken == prompt => rom.image # "broken"

\* UploadUBoot returns true only if the ROM has got the boot loader and runs it.
TrueMeansRunning == prompt /\ result => rom = [mode |-> "runs", left |-> 0, image |-> "whole"]

\* UploadUBoot returns, whether or not the board answers.
UploadEnds == <>(phase = "done")
=============================================================================
