------------------------------ MODULE SdpProofs ------------------------------
(***************************************************************************)
(* UploadUBoot, for every boot loader, limit of tries and amount of loss.  *)
(*                                                                         *)
(* TransferData of SdpPacket waits until _was_read or _timeout is set.     *)
(* Whether answers come in time or not, it never waits for a flag that no  *)
(* handler is left to set, and no handler outlives its packet (LoopInv).   *)
(*                                                                         *)
(* If answers come in time, each is read as the answer to its own command. *)
(* Why: the time of a try passes only when nothing of it is on the line    *)
(* (Silent), so a new try finds at most units of the boot loader there     *)
(* (Coming), and what comes back is of the one command that follows them   *)
(* (Answers).  A whole answer ends the read before the time passes         *)
(* (Heard): the acknowledgement of PktWriteF is never followed by another  *)
(* try of it, which the ROM would take for the file.                       *)
(***************************************************************************)
EXTENDS Sdp, SequenceTheorems, TLAPS

\* Outside TransferData no handler is pending: Send may drop its packet.
NothingPends == phase # "io" => Quiet

\* In TransferData something is pending, or a flag is set.
SomethingPends == phase = "io" => ~Quiet \/ wasRead \/ timeout

\* A handler of HandlerTimeout that will find its deadline moved is not the last.
DeadlineMoved == queued > 0 /\ ~past => timer = "armed" \/ wasRead \/ timeout

\* Operations are aborted by a timeout only.
AbortedByTimeout == wr = "aborted" \/ rd = "aborted" => timeout

LoopInv == /\ queued \in Nat
           /\ NothingPends /\ SomethingPends /\ DeadlineMoved /\ AbortedByTimeout

\* The loop begins with its first try.
LEMMA InitLoop == Init => LoopInv
  BY DEF Init, LoopInv, NothingPends, SomethingPends, DeadlineMoved, AbortedByTimeout, Quiet

\* Every handler, and every step between the tries, leaves something to wait for.
LEMMA NextLoop == LoopInv /\ [Next]_vars => LoopInv'
<1> SUFFICES ASSUME LoopInv, [Next]_vars PROVE LoopInv'
  OBVIOUS
<1> USE DEF LoopInv, NothingPends, SomethingPends, DeadlineMoved, AbortedByTimeout, Quiet
<1>1. CASE StartTry
  BY <1>1 DEF StartTry, CreateTimer
<1>2. CASE HandlerWrite
  BY <1>2 DEF HandlerWrite, CreateTimer, sending
<1>3. CASE HandlerWriteError
  BY <1>3 DEF HandlerWriteError, sending
<1>4. CASE HandlerRead
  BY <1>4 DEF HandlerRead, sending
<1>5. CASE HandlerTimeout
  BY <1>5 DEF HandlerTimeout, sending
<1>6. CASE TryDone
  BY <1>6 DEF TryDone, asio
\* What follows a try leaves the handlers alone and begins at most a new one.
<1>7. CASE TryFailed
  <2>1. phase' # "io"
    BY <1>7 DEF TryFailed, Sent
  <2> QED BY <1>7, <2>1 DEF TryFailed
<1>8. CASE ReadAnswer
  <2>1. phase' # "io"
    BY <1>8 DEF ReadAnswer, Sent
  <2> QED BY <1>8, <2>1 DEF ReadAnswer
<1>9. CASE WriteCompletes
  BY <1>9 DEF WriteCompletes, sending
<1>10. CASE WordArrives
  BY <1>10 DEF WordArrives, sending
<1>11. CASE Expire
  BY <1>11 DEF Expire, sending
<1>12. CASE RomTakes \/ LoseCommand \/ LoseWord \/ UNCHANGED vars
  <2>1. UNCHANGED <<sending, asio>>
    BY <1>12 DEF RomTakes, LoseCommand, LoseWord, vars
  <2> QED BY <2>1 DEF sending, asio
<1> QED
  BY <1>1, <1>2, <1>3, <1>4, <1>5, <1>6, <1>7, <1>8, <1>9, <1>10, <1>11, <1>12
     DEF Next, Host

\* The inductive invariant of the event loop.
THEOREM LoopInvariant == Spec => []LoopInv
  BY InitLoop, NextLoop, PTL DEF Spec

\* TransferData never turns without anything to wait for.
THEOREM NeverSpinsHolds == Spec => []NeverSpins
<1>1. LoopInv => NeverSpins
  BY DEF LoopInv, SomethingPends, NeverSpins
<1> QED BY <1>1, LoopInvariant, PTL

-----------------------------------------------------------------------------
(* The packets and their answers *)

FilePkt == 2 * Pairs + 2
LastPkt == 2 * Pairs + 3

Kinds == {"status", "writeMem", "readMem", "file", "complete"}

\* The packets are numbered to the last, and each is of one of the kinds.
LEMMA PacketsAre ==
  /\ FilePkt \in Nat /\ LastPkt = FilePkt + 1 /\ FilePkt > 1
  /\ Packets \in Seq(Kinds) /\ Len(Packets) = LastPkt /\ DOMAIN Packets = 1 .. LastPkt
  /\ \A i \in 1 .. LastPkt : Packets[i] \in Kinds
<1>1. LastPkt \in Nat /\ FilePkt \in Nat /\ LastPkt = FilePkt + 1 /\ FilePkt > 1
  BY SdpAssumption DEF LastPkt, FilePkt
<1>2. \A i \in 1 .. LastPkt : Packets[i] \in Kinds
  BY DEF Packets, LastPkt, Kinds
<1>3. DOMAIN Packets = 1 .. LastPkt /\ Packets = [i \in 1 .. LastPkt |-> Packets[i]]
  BY DEF Packets, LastPkt
<1> HIDE DEF LastPkt
<1>4. Packets \in [1 .. LastPkt -> Kinds]
  BY <1>2, <1>3
<1> QED BY <1>1, <1>2, <1>3, <1>4

\* PktWriteF is the last but one, PktComplete the last, PktStatus the first.
LEMMA KindIs ==
  ASSUME NEW i \in 1 .. LastPkt
  PROVE  /\ Packets[i] = "file" <=> i = FilePkt
         /\ Packets[i] = "complete" <=> i = LastPkt
         /\ Packets[i] = "status" <=> i = 1
         /\ Ignored(Packets[i]) => i < FilePkt
<1>1. i \in Int /\ 1 <= i /\ i <= LastPkt /\ Pairs \in Nat
  BY SdpAssumption DEF LastPkt
<1>2. /\ i = 1 => Packets[i] = "status"
      /\ i = FilePkt => Packets[i] = "file"
      /\ i = LastPkt => Packets[i] = "complete"
      /\ i # 1 /\ i # FilePkt /\ i # LastPkt => Packets[i] \in {"writeMem", "readMem"}
  BY <1>1 DEF Packets, LastPkt, FilePkt
<1>3. 1 < FilePkt /\ FilePkt < LastPkt /\ FilePkt \in Nat /\ LastPkt \in Nat /\ LastPkt = FilePkt + 1
  BY <1>1 DEF LastPkt, FilePkt
<1>4. i # FilePkt /\ i # LastPkt => i < FilePkt
  BY <1>1, <1>3
<1> QED BY <1>2, <1>3, <1>4 DEF Ignored

\* An answer is as long as the packet expects it, and says that the boot loader
\* runs only if it does.
LEMMA AnswerIs ==
  ASSUME NEW p \in Kinds, NEW loaded \in BOOLEAN
  PROVE  /\ Answer(p, loaded) \in Seq(Words) /\ Len(Answer(p, loaded)) = RespSize(p)
         /\ RespSize(p) \in 1 .. 2
         /\ p = "file" => Answer(p, loaded) = <<"ack">>
         /\ \A i \in 1 .. RespSize(p) :
              Answer(p, loaded)[i] = "complete" => loaded /\ Answer(p, loaded) = <<"complete">>
         /\ ~loaded => Answer(p, loaded) # <<"complete">>
<1>1. CASE p \in {"status", "complete"}
  BY <1>1 DEF Answer, Words, RespSize
<1>2. CASE p = "writeMem"
  BY <1>2 DEF Answer, Words, RespSize
<1>3. CASE p = "readMem"
  BY <1>3 DEF Answer, Words, RespSize
<1>4. CASE p = "file"
  BY <1>4 DEF Answer, Words, RespSize
<1> QED BY <1>1, <1>2, <1>3, <1>4 DEF Kinds

Reply(n, a) == [i \in DOMAIN a |-> [word |-> a[i], of |-> n]]

\* The words of an answer say which packet they answer.
LEMMA ReplyIs ==
  ASSUME NEW n \in DOMAIN Packets, NEW a \in Seq(Words)
  PROVE  /\ Reply(n, a) \in Seq(HostWords) /\ Len(Reply(n, a)) = Len(a)
         /\ \A i \in 1 .. Len(a) : Reply(n, a)[i] = [word |-> a[i], of |-> n]
<1>1. Len(a) \in Nat /\ DOMAIN a = 1 .. Len(a) /\ \A i \in 1 .. Len(a) : a[i] \in Words
  BY LenProperties, ElementOfSeq
<1>2. DOMAIN Reply(n, a) = 1 .. Len(a)
      /\ \A i \in 1 .. Len(a) : Reply(n, a)[i] = [word |-> a[i], of |-> n]
  BY <1>1 DEF Reply
<1>3. Reply(n, a) \in [1 .. Len(a) -> HostWords]
  BY <1>1 DEF Reply, HostWords
<1> QED BY <1>1, <1>2, <1>3

\* The boot loader is a sequence of its units.
LEMMA ImageIs ==
  /\ ImageLen \in Nat /\ ImageLen > 0
  /\ Image \in Seq(Units) /\ Len(Image) = ImageLen
  /\ \A n \in 1 .. ImageLen : Image[n] = [kind |-> "image", n |-> n]
<1>1. ImageLen \in Nat /\ ImageLen > 0
  BY SdpAssumption
<1>2. DOMAIN Image = 1 .. ImageLen
      /\ \A n \in 1 .. ImageLen : Image[n] = [kind |-> "image", n |-> n]
  BY DEF Image
<1>3. Image \in [1 .. ImageLen -> Units]
  BY DEF Image, Units
<1> QED BY <1>1, <1>2, <1>3

\* A command is a unit.
LEMMA CommandIs == \A i \in DOMAIN Packets : Command(i) \in Units
  BY DEF Command, Units

-----------------------------------------------------------------------------
(* Types *)

SendType == /\ pkt \in 1 .. LastPkt /\ repeats \in 1 .. MaxRepeats /\ try \in 1 .. MaxTries
            /\ phase \in {"write", "io", "read", "done"} /\ result \in BOOLEAN

AsioType == /\ wr \in {"none", "pending", "done", "aborted"}
            /\ rd \in {"none", "pending", "done", "aborted"}
            /\ timer \in {"off", "armed"} /\ past \in BOOLEAN
            /\ wasRead \in BOOLEAN /\ timeout \in BOOLEAN

LineType == got \in Seq(HostWords) /\ toRom \in Seq(Units) /\ toHost \in Seq(HostWords)

RomType == /\ rom \in [mode : {"command", "data", "runs"}, left : 0 .. ImageLen,
                       image : {"none", "whole", "broken"}]
           /\ rom.mode = "data" => rom.left > 0

LostType == prompt \in BOOLEAN /\ lost \in 0 .. MaxLost

\* The timer is set twice in a try, so at most two of its handlers are queued.
TimerCount == /\ queued \in 0 .. 2
              /\ wr # "none" => queued = 0 \/ (queued = 1 /\ timer = "off")
              /\ queued = 2 => timer = "off"

Expected == RespSize(Packets[pkt])

\* What has been read: the whole answer when the read is done, until it is
\* looked at, less while it goes on, and nothing before it.
ReadInv == /\ Len(got) <= Expected
           /\ rd = "pending" => Len(got) < Expected
           /\ wr # "none" => rd = "none" /\ got = <<>>
           /\ rd = "done" => Len(got) = Expected
           /\ phase = "io" /\ wasRead => Len(got) = Expected
           /\ phase = "read" => Len(got) = Expected
           /\ phase \in {"write", "done"} => got = <<>>

StepInv == /\ SendType /\ AsioType /\ LineType /\ RomType /\ LostType
           /\ LoopInv /\ TimerCount /\ ReadInv

\* TypeOK is a part of it.
LEMMA StepInvTypes == StepInv => TypeOK
<1> SUFFICES ASSUME StepInv PROVE TypeOK
  OBVIOUS
<1>1. pkt \in DOMAIN Packets
  BY PacketsAre DEF StepInv, SendType
<1>2. queued \in 0 .. 2 /\ Len(got) <= RespSize(Packets[pkt])
  BY DEF StepInv, TimerCount, ReadInv, Expected
<1>3. rom \in [mode : {"command", "data", "runs"}, left : 0 .. ImageLen,
               image : {"none", "whole", "broken"}]
  BY DEF StepInv, RomType
<1> QED BY <1>1, <1>2, <1>3 DEF StepInv, SendType, AsioType, LineType, LostType, TypeOK

\* The answer that is expected is one word or two, of every packet.
LEMMA ExpectedIs ==
  /\ \A i \in 1 .. LastPkt : RespSize(Packets[i]) \in 1 .. 2
  /\ SendType => Expected \in 1 .. 2
  BY PacketsAre, AnswerIs DEF SendType, Expected

\* The first try begins with nothing read and no handler queued.
LEMMA InitStep == Init => StepInv
<1> SUFFICES ASSUME Init PROVE StepInv
  OBVIOUS
<1>1. SendType
  <2>1. result \in BOOLEAN /\ phase \in {"write", "io", "read", "done"}
    BY DEF Init
  <2>2. pkt \in 1 .. LastPkt /\ repeats \in 1 .. MaxRepeats /\ try \in 1 .. MaxTries
    <3>1. pkt = 1 /\ repeats = MaxRepeats /\ try = 1
      BY DEF Init
    <3> QED BY <3>1, SdpAssumption, PacketsAre
  <2> QED BY <2>1, <2>2 DEF SendType
<1>2. TimerCount
  BY DEF Init, TimerCount
<1>6. AsioType
  BY DEF Init, AsioType
<1>7. prompt \in BOOLEAN
  BY DEF Init
<1>8. lost \in 0 .. MaxLost
  BY SdpAssumption DEF Init
<1>3. LineType
  BY EmptySeq DEF Init, LineType
<1>4. RomType
  BY ImageIs DEF Init, RomType
<1>5. ReadInv
  BY <1>1, ExpectedIs, EmptySeq DEF Init, ReadInv
<1> QED BY <1>1, <1>2, <1>3, <1>4, <1>5, <1>6, <1>7, <1>8, InitLoop DEF StepInv, LostType

\* What Send(port) returns leads to a try or to the end, of this packet or the next.
LEMMA SentIs ==
  ASSUME SendType, NEW ok \in BOOLEAN, Sent(ok)
  PROVE  SendType' /\ phase' \in {"write", "done"} /\ pkt' \in {pkt, pkt + 1}
<1>1. /\ pkt \in Nat /\ pkt >= 1 /\ pkt <= LastPkt /\ LastPkt \in Nat /\ Len(Packets) = LastPkt
      /\ repeats \in Nat /\ repeats >= 1 /\ repeats <= MaxRepeats /\ MaxRepeats \in Nat
  BY PacketsAre, SdpAssumption DEF SendType
<1>2. try' = 1 /\ 1 \in 1 .. MaxTries
  BY SdpAssumption DEF Sent
<1>3. \/ pkt' = pkt
      \/ pkt' = pkt + 1 /\ pkt < LastPkt
  BY <1>1 DEF Sent
<1>4. pkt' \in 1 .. LastPkt
  BY <1>1, <1>3
<1>5. repeats' = MaxRepeats \/ repeats' = repeats \/ (repeats' = repeats - 1 /\ repeats > 1)
  BY DEF Sent
<1>6. repeats' \in 1 .. MaxRepeats
  BY <1>1, <1>5
<1>7. phase' \in {"write", "done"}
  BY DEF Sent
<1>8. result' = result \/ result' = TRUE \/ result' = FALSE
  BY DEF Sent
<1> QED BY <1>2, <1>3, <1>4, <1>6, <1>7, <1>8 DEF SendType

\* So does a try that has failed.
LEMMA FailedIs ==
  ASSUME SendType, TryFailed
  PROVE  SendType' /\ phase' \in {"write", "done"}
<1>1. CASE try < MaxTries
  <2>1. try' = try + 1 /\ phase' = "write" /\ UNCHANGED <<pkt, repeats, result>>
    BY <1>1 DEF TryFailed
  <2> QED BY <1>1, <2>1, SdpAssumption DEF SendType
<1>2. CASE ~(try < MaxTries)
  BY <1>2, SentIs DEF TryFailed
<1> QED BY <1>1, <1>2

\* What is sent keeps its type.
LEMMA SendTypes == StepInv /\ [Next]_vars => SendType'
<1> SUFFICES ASSUME StepInv, [Next]_vars PROVE SendType'
  OBVIOUS
<1>1. SendType
  BY DEF StepInv
<1>2. CASE StartTry
  BY <1>1, <1>2 DEF StartTry, SendType
<1>3. CASE TryDone
  BY <1>1, <1>3 DEF TryDone, SendType
<1>4. CASE TryFailed
  BY <1>1, <1>4, FailedIs
<1>5. CASE ReadAnswer
  <2>1. PICK ok : Sent(ok) /\ ok = Right(Packets[pkt], [i \in DOMAIN got |-> got[i].word])
    BY <1>5 DEF ReadAnswer
  <2>2. ok \in BOOLEAN
    BY <2>1, <1>1, PacketsAre DEF Right, SendType, Kinds
  <2> QED BY <1>1, <2>1, <2>2, SentIs
<1>6. CASE UNCHANGED sending
  BY <1>1, <1>6 DEF sending, SendType
<1> QED
  BY <1>2, <1>3, <1>4, <1>5, <1>6
     DEF Next, Host, HandlerWrite, HandlerWriteError, HandlerRead, HandlerTimeout, WriteCompletes,
         WordArrives, Expire, RomTakes, LoseCommand, LoseWord, vars

\* The operations, flags and the timer keep their types.
LEMMA AsioTypes == StepInv /\ [Next]_vars => AsioType'
<1> SUFFICES ASSUME AsioType, [Next]_vars PROVE AsioType'
  BY DEF StepInv
<1> USE DEF AsioType
<1>1. CASE StartTry \/ HandlerWrite \/ HandlerWriteError
  BY <1>1 DEF StartTry, HandlerWrite, HandlerWriteError, CreateTimer
<1>2. CASE HandlerRead
  BY <1>2 DEF HandlerRead
<1>3. CASE HandlerTimeout
  BY <1>3 DEF HandlerTimeout
<1>4. CASE WriteCompletes \/ WordArrives \/ Expire
  BY <1>4 DEF WriteCompletes, WordArrives, Expire
<1>5. CASE UNCHANGED <<wr, rd, timer, past, queued, wasRead, timeout>>
  BY <1>5
<1> QED
  BY <1>1, <1>2, <1>3, <1>4, <1>5
     DEF Next, Host, TryDone, TryFailed, ReadAnswer, RomTakes, LoseCommand, LoseWord, vars, asio

\* The ROM takes a unit in one of three ways.
LEMMA RomTakesIs ==
  ASSUME StepInv, RomTakes
  PROVE  /\ toRom # <<>> /\ toRom' = Tail(toRom) /\ UNCHANGED <<sending, asio, prompt, lost>>
         /\ \/ /\ rom.mode = "command" /\ Head(toRom).kind = "packet"
               /\ Head(toRom).n \in 1 .. LastPkt
               /\ toHost' = toHost \o Reply(Head(toRom).n,
                                            Answer(Packets[Head(toRom).n], rom.image # "none"))
               /\ \/ /\ Packets[Head(toRom).n] = "file"
                     /\ rom' = [mode |-> "data", left |-> ImageLen, image |-> "whole"]
                  \/ /\ Packets[Head(toRom).n] # "file"
                     /\ Answer(Packets[Head(toRom).n], rom.image # "none") = <<"complete">>
                     /\ rom' = [rom EXCEPT !.mode = "runs"]
                  \/ /\ Packets[Head(toRom).n] # "file"
                     /\ Answer(Packets[Head(toRom).n], rom.image # "none") # <<"complete">>
                     /\ rom' = rom
            \/ /\ rom.mode = "data" /\ UNCHANGED toHost
               /\ rom' = [mode  |-> IF rom.left = 1 THEN "command" ELSE "data",
                          left  |-> rom.left - 1,
                          image |-> IF Head(toRom) = Image[ImageLen - rom.left + 1]
                                      THEN rom.image ELSE "broken"]
            \/ /\ rom.mode = "runs" \/ (rom.mode = "command" /\ Head(toRom).kind = "image")
               /\ UNCHANGED <<rom, toHost>>
<1> DEFINE u == Head(toRom)
           a == Answer(Packets[u.n], rom.image # "none")
<1>1. toRom # <<>> /\ toRom' = Tail(toRom) /\ UNCHANGED <<sending, asio, prompt, lost>>
  BY DEF RomTakes
<1>2. u \in Units
  BY <1>1, HeadTailProperties DEF StepInv, LineType
<1>3. u.kind = "packet" => u.n \in 1 .. LastPkt
  BY <1>2, PacketsAre DEF Units
<1>4. CASE rom.mode = "command" /\ u.kind = "packet"
  <2>1. /\ toHost' = toHost \o [i \in DOMAIN a |-> [word |-> a[i], of |-> u.n]]
        /\ rom' = CASE Packets[u.n] = "file" -> [mode |-> "data", left |-> ImageLen,
                                                 image |-> "whole"]
                    [] a = <<"complete">>    -> [rom EXCEPT !.mode = "runs"]
                    [] OTHER                 -> rom
    BY <1>4 DEF RomTakes
  <2>2. Packets[u.n] = "file" => a = <<"ack">>
    BY <1>3, <1>4, PacketsAre, AnswerIs
  <2>3. <<"ack">> # <<"complete">>
    OBVIOUS
  <2> QED BY <1>1, <1>3, <1>4, <2>1, <2>2, <2>3 DEF Reply
<1>5. CASE rom.mode = "data"
  BY <1>1, <1>5 DEF RomTakes
<1>6. CASE ~(rom.mode = "command" /\ u.kind = "packet") /\ rom.mode # "data"
  BY <1>1, <1>6 DEF RomTakes
<1> QED BY <1>4, <1>5, <1>6

\* The ROM keeps its type, and counts the units that are left down to nothing.
LEMMA RomTypes == StepInv /\ [Next]_vars => RomType'
<1> SUFFICES ASSUME StepInv, [Next]_vars PROVE RomType'
  OBVIOUS
<1>1. RomType
  BY DEF StepInv
<1>2. CASE RomTakes
  <2>1. CASE rom.mode = "data" /\ rom' = [mode  |-> IF rom.left = 1 THEN "command" ELSE "data",
                          left  |-> rom.left - 1,
                          image |-> IF Head(toRom) = Image[ImageLen - rom.left + 1]
                                      THEN rom.image ELSE "broken"]
    <3>1. rom.left \in 0 .. ImageLen /\ rom.left > 0 /\ rom.image \in {"none", "whole", "broken"}
      BY <1>1, <2>1 DEF RomType
    <3>2. rom.left - 1 \in 0 .. ImageLen /\ (rom.left # 1 => rom.left - 1 > 0)
      BY <3>1, ImageIs
    <3> HIDE <1>1
    <3>3. rom'.mode \in {"command", "data"} /\ (rom'.mode = "data" => rom.left # 1)
      BY <2>1
    <3>4. rom'.left = rom.left - 1
      BY <2>1
    <3> QED BY <2>1, <3>1, <3>2, <3>3, <3>4 DEF RomType
  <2>2. CASE rom' = [mode |-> "data", left |-> ImageLen, image |-> "whole"]
    BY <2>2, ImageIs DEF RomType
  <2>3. CASE rom' = [rom EXCEPT !.mode = "runs"]
    BY <1>1, <2>3 DEF RomType
  <2>4. CASE rom' = rom
    BY <1>1, <2>4 DEF RomType
  <2> QED BY <1>2, RomTakesIs, <2>1, <2>2, <2>3, <2>4
<1>3. CASE UNCHANGED rom
  BY <1>1, <1>3 DEF RomType
<1> QED
  BY <1>2, <1>3
     DEF Next, Host, StartTry, HandlerWrite, HandlerWriteError, HandlerRead, HandlerTimeout, TryDone,
         TryFailed, ReadAnswer, WriteCompletes, WordArrives, Expire, LoseCommand, LoseWord, vars,
         outside

\* What is lost is counted up to the bound.
LEMMA LostTypes == StepInv /\ [Next]_vars => LostType'
<1> SUFFICES ASSUME LostType, [Next]_vars PROVE LostType'
  BY DEF StepInv
<1>1. UNCHANGED prompt
  BY DEF Next, Host, StartTry, HandlerWrite, HandlerWriteError, HandlerRead, HandlerTimeout, TryDone,
         TryFailed, ReadAnswer, WriteCompletes, WordArrives, Expire, RomTakes, LoseCommand, LoseWord,
         vars, outside
<1>2. lost' = lost \/ (lost < MaxLost /\ lost' = lost + 1)
  BY DEF Next, Host, StartTry, HandlerWrite, HandlerWriteError, HandlerRead, HandlerTimeout, TryDone,
         TryFailed, ReadAnswer, WriteCompletes, WordArrives, Expire, RomTakes, LoseCommand, LoseWord,
         vars, outside
<1>3. lost' \in 0 .. MaxLost
  BY <1>2, SdpAssumption DEF LostType
<1> QED BY <1>1, <1>3 DEF LostType

\* The line carries units one way and words the other.
LEMMA LineTypes == StepInv /\ [Next]_vars => LineType'
<1> SUFFICES ASSUME StepInv, [Next]_vars PROVE LineType'
  OBVIOUS
<1>1. LineType
  BY DEF StepInv
<1>2. CASE StartTry \/ HandlerWrite \/ TryFailed
  <2>1. got' = <<>> /\ UNCHANGED line
    BY <1>2 DEF StartTry, HandlerWrite, TryFailed
  <2> QED BY <1>1, <2>1, EmptySeq DEF LineType, line
<1>3. CASE ReadAnswer
  <2>1. got' = <<>> /\ UNCHANGED toHost /\ (toRom' = toRom \o Image \/ toRom' = toRom)
    BY <1>3 DEF ReadAnswer
  <2>2. toRom \o Image \in Seq(Units)
    BY <1>1, ImageIs, ConcatProperties DEF LineType
  <2> QED BY <1>1, <2>1, <2>2, EmptySeq DEF LineType
<1>4. CASE WriteCompletes
  <2>1. Command(pkt) \in Units
    BY CommandIs, PacketsAre DEF StepInv, SendType
  <2> QED BY <1>1, <1>4, <2>1, AppendProperties DEF WriteCompletes, LineType
<1>5. CASE WordArrives
  <2>1. Head(toHost) \in HostWords /\ Tail(toHost) \in Seq(HostWords)
    BY <1>1, <1>5, HeadTailProperties DEF WordArrives, LineType
  <2> QED BY <1>1, <1>5, <2>1, AppendProperties DEF WordArrives, LineType
<1>6. CASE RomTakes
  <2>1. toRom' \in Seq(Units) /\ UNCHANGED got
    BY <1>1, <1>6, RomTakesIs, HeadTailProperties DEF LineType, asio
  <2>2. CASE Head(toRom).n \in 1 .. LastPkt /\ toHost' = toHost \o Reply(Head(toRom).n,
                                          Answer(Packets[Head(toRom).n], rom.image # "none"))
    <3>1. Answer(Packets[Head(toRom).n], rom.image # "none") \in Seq(Words)
      BY <2>2, PacketsAre, AnswerIs
    <3>2. Reply(Head(toRom).n, Answer(Packets[Head(toRom).n], rom.image # "none")) \in Seq(HostWords)
      BY <2>2, <3>1, PacketsAre, ReplyIs
    <3> QED BY <1>1, <2>1, <2>2, <3>2, ConcatProperties DEF LineType
  <2>3. CASE UNCHANGED toHost
    BY <1>1, <2>1, <2>3 DEF LineType
  <2> QED BY <1>6, <2>2, <2>3, RomTakesIs
<1>7. CASE LoseCommand \/ LoseWord
  <2>1. /\ UNCHANGED got
        /\ \/ toRom # <<>> /\ toRom' = Tail(toRom) /\ toHost' = toHost
           \/ toHost # <<>> /\ toHost' = Tail(toHost) /\ toRom' = toRom
    BY <1>7 DEF LoseCommand, LoseWord, asio
  <2> QED BY <1>1, <2>1, HeadTailProperties DEF LineType
<1>8. CASE UNCHANGED <<got, line>>
  BY <1>1, <1>8 DEF LineType, line
<1> QED
  BY <1>2, <1>3, <1>4, <1>5, <1>6, <1>7, <1>8
     DEF Next, Host, HandlerWriteError, HandlerRead, HandlerTimeout, TryDone, Expire, vars, asio

\* The timer is set when a try begins and when its command is written, never else.
LEMMA TimerCounts == StepInv /\ [Next]_vars => TimerCount'
<1> SUFFICES ASSUME TimerCount, LoopInv, AsioType, [Next]_vars PROVE TimerCount'
  BY DEF StepInv
<1>1. CASE StartTry
  BY <1>1 DEF StartTry, CreateTimer, TimerCount, LoopInv, NothingPends, Quiet
<1>2. CASE HandlerWrite \/ HandlerWriteError \/ HandlerRead
  BY <1>2 DEF HandlerWrite, HandlerWriteError, HandlerRead, CreateTimer, TimerCount, AsioType
<1>3. CASE HandlerTimeout
  BY <1>3 DEF HandlerTimeout, TimerCount
<1>4. CASE WriteCompletes \/ Expire
  BY <1>4 DEF WriteCompletes, Expire, TimerCount
<1>5. CASE UNCHANGED <<wr, timer, queued>>
  BY <1>5 DEF TimerCount
<1> QED
  BY <1>1, <1>2, <1>3, <1>4, <1>5
     DEF Next, Host, TryDone, TryFailed, ReadAnswer, WordArrives, RomTakes, LoseCommand, LoseWord,
         vars, asio

\* A read takes no more words than it waits for.
LEMMA ReadInvs == StepInv /\ [Next]_vars => ReadInv'
<1> SUFFICES ASSUME StepInv, [Next]_vars PROVE ReadInv'
  OBVIOUS
<1>1. ReadInv /\ Expected \in 1 .. 2 /\ Len(got) \in Nat /\ Len(<<>>) = 0
  BY ExpectedIs, EmptySeq, LenProperties DEF StepInv, LineType
<1>2. (phase # "io" => wr = "none" /\ rd = "none") /\ AsioType
  BY DEF StepInv, LoopInv, NothingPends, Quiet
<1>3. CASE StartTry
  <2>1. Expected' = Expected
    BY <1>3 DEF StartTry, Expected
  <2> QED BY <1>1, <1>2, <1>3, <2>1 DEF StartTry, ReadInv
<1>4. CASE HandlerWrite
  <2>1. Expected' = Expected /\ UNCHANGED sending /\ wasRead' = wasRead
    BY <1>4 DEF HandlerWrite, Expected, sending
  <2> QED BY <1>1, <1>2, <1>4, <2>1 DEF HandlerWrite, ReadInv, sending
<1>5. CASE HandlerWriteError \/ HandlerRead \/ HandlerTimeout \/ TryDone \/ WriteCompletes
  <2>1. Expected' = Expected /\ got' = got
    BY <1>5
       DEF HandlerWriteError, HandlerRead, HandlerTimeout, TryDone, WriteCompletes, Expected, sending,
           asio
  <2>2. CASE HandlerWriteError \/ WriteCompletes
    BY <1>1, <2>1, <2>2 DEF HandlerWriteError, WriteCompletes, ReadInv, sending
  <2>3. CASE HandlerRead
    BY <1>1, <2>1, <2>3 DEF HandlerRead, ReadInv, sending
  <2>4. CASE HandlerTimeout
    BY <1>1, <2>1, <2>4 DEF HandlerTimeout, ReadInv, sending
  <2>5. CASE TryDone
    BY <1>1, <2>1, <2>5 DEF TryDone, ReadInv, asio
  <2> QED BY <1>5, <2>2, <2>3, <2>4, <2>5
<1>6. CASE TryFailed \/ ReadAnswer
  <2>1. SendType' /\ got' = <<>> /\ UNCHANGED <<wr, rd>> /\ wr = "none" /\ rd = "none"
    BY <1>2, <1>6, SendTypes DEF TryFailed, ReadAnswer, Quiet
  <2>2. phase' \in {"write", "done"}
    BY <1>6 DEF TryFailed, ReadAnswer, Sent
  <2>3. Expected' \in 1 .. 2
    BY <2>1, ExpectedIs DEF SendType, Expected
  <2> QED BY <1>1, <2>1, <2>2, <2>3 DEF ReadInv
<1>7. CASE WordArrives
  <2>1. /\ Expected' = Expected /\ UNCHANGED <<sending, wr, wasRead>> /\ rd = "pending"
        /\ rd' = IF Len(got') = Expected THEN "done" ELSE rd
    BY <1>7 DEF WordArrives, Expected, sending
  <2>2. Len(got') = Len(got) + 1 /\ Len(got') \in Nat
    <3>1. Head(toHost) \in HostWords
      BY <1>7, HeadTailProperties DEF WordArrives, StepInv, LineType
    <3> QED BY <1>7, <3>1, AppendProperties DEF WordArrives, StepInv, LineType
  <2>3. wr = "none" /\ phase = "io" /\ ~wasRead /\ Len(got) < Expected
    BY <1>1, <1>2, <2>1 DEF ReadInv
  <2> QED BY <1>1, <2>1, <2>2, <2>3 DEF ReadInv, sending
<1>8. CASE UNCHANGED <<sending, wr, rd, wasRead, got>>
  BY <1>1, <1>8 DEF ReadInv, Expected, sending
<1> QED
  BY <1>3, <1>4, <1>5, <1>6, <1>7, <1>8
     DEF Next, Host, Expire, RomTakes, LoseCommand, LoseWord, vars, asio

\* Every step keeps the invariant of the types and of the tries.
LEMMA NextStep == StepInv /\ [Next]_vars => StepInv'
  BY SendTypes, AsioTypes, RomTypes, LostTypes, LineTypes, TimerCounts, ReadInvs, NextLoop DEF StepInv

\* The inductive invariant of a try: what is queued and what has been read.
THEOREM StepInvariant == Spec => []StepInv
  BY InitStep, NextStep, PTL DEF Spec

\* Every variable keeps its type; no more than two handlers of the timer are
\* queued, and no read takes more than it waits for.
THEOREM TypeCorrect == Spec => []TypeOK
  BY StepInvariant, StepInvTypes, PTL

-----------------------------------------------------------------------------
(* A ROM that answers in time *)

\* A command that is being written is waited for, and nothing gives it up.
Starting == /\ wr = "pending" => timer = "armed" /\ ~past /\ ~timeout /\ queued = 0
            /\ wr # "aborted"

\* When the time of a try has passed, nothing of it is on the line any more.
Silent == queued > 0 \/ timeout \/ past => toRom = <<>> /\ toHost = <<>>

\* A whole answer was in time: the try can only end as read.
Heard == Len(got) = Expected => /\ wr = "none" /\ ~past /\ ~timeout /\ queued = 0
                                /\ rd = "done" \/ (rd = "none" /\ timer = "off")

\* How many units of the boot loader are on their way.
Owed == IF rom.mode = "data" /\ pkt = LastPkt THEN rom.left ELSE 0

\* On their way to the ROM: what it still lacks of the boot loader, and after it
\* at most the one command whose answer is awaited.
Coming == /\ Len(toRom) = Owed \/ Len(toRom) = Owed + 1
          /\ \A i \in 1 .. Owed : toRom[i] = Image[ImageLen - Owed + i]
          /\ Len(toRom) = Owed + 1 =>
               /\ toRom[Owed + 1] = Command(pkt)
               /\ toHost = <<>> /\ got = <<>> /\ phase = "io" /\ wr # "pending"

\* On their way back: words of the answer to that command, when it has been taken.
Answers ==
  /\ toHost # <<>> \/ got # <<>> => toRom = <<>> /\ phase \in {"io", "read"} /\ wr # "pending"
  /\ \A i \in 1 .. Len(toHost) : /\ toHost[i].of = pkt
                                 /\ toHost[i].word = "complete" => rom.mode = "runs"
  /\ \A i \in 1 .. Len(got) : /\ got[i].of = pkt
                              /\ got[i].word = "complete" => rom.mode = "runs"
  /\ Len(got) + Len(toHost) <= Expected

\* The ROM has not heard of the boot loader.
Unloaded == rom = [mode |-> "command", left |-> 0, image |-> "none"]

\* The ROM waits for the boot loader and has said so.
Acked == /\ rom = [mode |-> "data", left |-> ImageLen, image |-> "whole"] /\ toRom = <<>>
         /\ Len(toHost) + Len(got) = 1
         /\ toHost # <<>> => toHost[1].word = "ack"
         /\ got # <<>> => got[1].word = "ack"

\* How far the ROM is, by the packet that is sent.
RomIs == /\ pkt < FilePkt => Unloaded
         /\ pkt = FilePkt => Acked \/ (Unloaded /\ toHost = <<>> /\ got = <<>>)
         /\ pkt = LastPkt => /\ rom.image = "whole"
                             /\ \/ rom.mode = "data" /\ rom.left \in 1 .. ImageLen
                                \/ rom.mode \in {"command", "runs"} /\ rom.left = 0
         /\ result => rom.mode = "runs" /\ phase = "done" /\ pkt = LastPkt

PromptInv == prompt => Starting /\ Silent /\ Heard /\ Coming /\ Answers /\ RomIs

Inv == StepInv /\ PromptInv

\* What a step may use of a ROM that answers in time.
Prompt == StepInv /\ prompt /\ Starting /\ Silent /\ Heard /\ Coming /\ Answers /\ RomIs

\* Nothing is on the line and no try has begun.
LEMMA InitPrompt == Init => PromptInv
<1> SUFFICES ASSUME Init PROVE PromptInv
  OBVIOUS
<1>1. /\ pkt = 1 /\ toRom = <<>> /\ toHost = <<>> /\ got = <<>> /\ wr = "none" /\ ~result
      /\ rom = [mode |-> "command", left |-> 0, image |-> "none"]
  BY DEF Init
<1>2. Len(<<>>) = 0 /\ 1 \in 1 .. LastPkt /\ LastPkt # 1 /\ FilePkt # 1 /\ FilePkt \in Nat
  BY EmptySeq, PacketsAre
<1>3. Expected \in 1 .. 2
  BY <1>1, <1>2, ExpectedIs DEF Expected
<1>4. Owed = 0
  BY <1>1, <1>2 DEF Owed
<1>5. Starting /\ Silent
  BY <1>1 DEF Starting, Silent
<1>6. Heard /\ Coming /\ Answers
  BY <1>1, <1>2, <1>3, <1>4 DEF Heard, Coming, Answers
<1>7. RomIs
  BY <1>1, <1>2 DEF RomIs, Unloaded
<1> QED BY <1>5, <1>6, <1>7 DEF PromptInv

\* What is known of sequences and bounds in every state.
LEMMA PromptFacts ==
  ASSUME Prompt
  PROVE  /\ Len(toRom) \in Nat /\ Len(toHost) \in Nat /\ Len(got) \in Nat
         /\ (toRom = <<>> <=> Len(toRom) = 0) /\ (toHost = <<>> <=> Len(toHost) = 0)
         /\ (got = <<>> <=> Len(got) = 0)
         /\ Expected \in 1 .. 2 /\ Owed \in 0 .. ImageLen /\ ImageLen \in Nat
         /\ pkt \in 1 .. LastPkt /\ FilePkt \in Nat /\ LastPkt = FilePkt + 1 /\ FilePkt > 1
         /\ toHost # <<>> \/ got # <<>> => toRom = <<>>
         /\ toRom = <<>> => Owed = 0
<1>1. /\ Len(toRom) \in Nat /\ Len(toHost) \in Nat /\ Len(got) \in Nat
      /\ (toRom = <<>> <=> Len(toRom) = 0) /\ (toHost = <<>> <=> Len(toHost) = 0)
      /\ (got = <<>> <=> Len(got) = 0)
  BY LenProperties, EmptySeq DEF Prompt, StepInv, LineType
<1>2. Expected \in 1 .. 2 /\ pkt \in 1 .. LastPkt
  BY ExpectedIs DEF Prompt, StepInv, SendType
<1>3. Owed \in 0 .. ImageLen /\ ImageLen \in Nat
  BY ImageIs DEF Owed, Prompt, StepInv, RomType
<1>4. toHost # <<>> \/ got # <<>> => toRom = <<>>
  BY DEF Prompt, Answers
<1>5. Len(toRom) = Owed \/ Len(toRom) = Owed + 1
  BY DEF Prompt, Coming
<1>6. toRom = <<>> => Owed = 0
  BY <1>1, <1>3, <1>5
<1> QED BY <1>1, <1>2, <1>3, <1>4, <1>6, PacketsAre

\* A step that changes nothing of the line, the ROM or what is sent keeps what is
\* known of them.
LEMMA LineKept ==
  ASSUME Prompt, UNCHANGED <<pkt, result, got, line, outside>>,
         phase' = phase \/ (phase # "done" /\ ~result /\ phase' = "io")
                        \/ (toRom = <<>> /\ phase = "io" /\ ~result /\ phase' = "read"),
         wr' # "pending" \/ wr = "pending"
                         \/ (toHost = <<>> /\ got = <<>> /\ Len(toRom) = Owed)
  PROVE  (Coming /\ Answers /\ RomIs)'
<1>1. Owed' = Owed /\ Expected' = Expected
  BY DEF Owed, Expected, outside
<1>2. Coming'
  BY <1>1, PromptFacts DEF Prompt, Coming, line
<1>3. Answers'
  BY <1>1 DEF Prompt, Answers, line, outside
<1>4. RomIs'
  BY DEF Prompt, RomIs, Unloaded, Acked, line, outside
<1> QED BY <1>2, <1>3, <1>4

\* The timing of a try holds from step to step: a word that comes is in time.
LEMMA NextStarting == Prompt /\ [Next]_vars => Starting'
<1> SUFFICES ASSUME Prompt, [Next]_vars PROVE Starting'
  OBVIOUS
<1>1. Starting /\ (phase # "io" => Quiet) /\ prompt /\ AsioType
  BY DEF Prompt, StepInv, LoopInv, NothingPends
<1> USE DEF Starting
<1>2. CASE StartTry
  BY <1>1, <1>2 DEF StartTry, CreateTimer, Quiet
<1>3. CASE HandlerWrite \/ HandlerWriteError \/ HandlerTimeout \/ WriteCompletes
  BY <1>1, <1>3 DEF HandlerWrite, HandlerWriteError, HandlerTimeout, WriteCompletes
<1>4. CASE HandlerRead
  <2>1. wr # "pending" \/ rd \notin {"done", "aborted"}
    BY DEF Prompt, StepInv, ReadInv
  <2> QED BY <1>1, <1>4, <2>1 DEF HandlerRead
<1>5. CASE Expire
  BY <1>1, <1>5 DEF Expire
<1>6. CASE UNCHANGED <<wr, timer, past, timeout, queued>>
  BY <1>1, <1>6
<1> QED
  BY <1>2, <1>3, <1>4, <1>5, <1>6
     DEF Next, Host, TryDone, TryFailed, ReadAnswer, WordArrives, RomTakes, LoseCommand, LoseWord,
         vars, asio

\* Only a clean line lets the time pass, and nothing is put on it before the next try.
LEMMA NextSilent == Prompt /\ [Next]_vars => Silent'
<1> SUFFICES ASSUME Prompt, [Next]_vars PROVE Silent'
  OBVIOUS
<1>1. /\ Silent /\ Starting /\ prompt /\ (phase # "io" => Quiet) /\ AsioType
      /\ phase = "read" => ~past /\ ~timeout /\ queued = 0
  BY DEF Prompt, StepInv, LoopInv, NothingPends, Heard, ReadInv
<1> USE DEF Silent
<1>2. CASE StartTry
  BY <1>1, <1>2 DEF StartTry, CreateTimer, Quiet
<1>3. CASE HandlerWrite \/ HandlerWriteError \/ HandlerRead
  BY <1>1, <1>3 DEF HandlerWrite, HandlerWriteError, HandlerRead, CreateTimer, Starting, line
<1>4. CASE HandlerTimeout
  BY <1>1, <1>4 DEF HandlerTimeout, line
<1>5. CASE Expire
  BY <1>1, <1>5 DEF Expire, line
<1>6. CASE WriteCompletes
  BY <1>1, <1>6 DEF WriteCompletes, Starting
<1>7. CASE ReadAnswer
  BY <1>1, <1>7 DEF ReadAnswer
<1>8. CASE WordArrives \/ RomTakes \/ LoseCommand \/ LoseWord
  <2>1. UNCHANGED <<queued, timeout, past>> /\ (toRom # <<>> \/ toHost # <<>>)
    BY <1>8 DEF WordArrives, RomTakes, LoseCommand, LoseWord, asio
  <2> QED BY <1>1, <2>1
<1>9. CASE UNCHANGED <<queued, timeout, past, line>>
  BY <1>1, <1>9 DEF line
<1> QED
  BY <1>2, <1>3, <1>4, <1>5, <1>6, <1>7, <1>8, <1>9 DEF Next, Host, TryDone, TryFailed, vars, asio

\* The last word of an answer ends its read before the time has passed.
LEMMA NextHeard == Prompt /\ [Next]_vars => Heard'
<1> SUFFICES ASSUME Prompt, [Next]_vars PROVE Heard'
  OBVIOUS
<1>1. /\ Heard /\ Starting /\ Silent /\ prompt /\ AsioType /\ ReadInv
      /\ Expected \in 1 .. 2 /\ Len(<<>>) = 0
  BY PromptFacts, EmptySeq DEF Prompt, StepInv
<1>2. CASE StartTry \/ HandlerWrite
  <2>1. got' = <<>> /\ Expected' = Expected
    BY <1>2 DEF StartTry, HandlerWrite, sending, Expected
  <2> QED BY <1>1, <2>1 DEF Heard
<1>3. CASE TryFailed \/ ReadAnswer
  <2>1. got' = <<>> /\ SendType'
    BY <1>3, SendTypes DEF TryFailed, ReadAnswer, Prompt
  <2>2. Expected' \in 1 .. 2
    BY <2>1, ExpectedIs DEF SendType, Expected
  <2> QED BY <1>1, <2>1, <2>2 DEF Heard
<1>4. CASE HandlerWriteError \/ HandlerRead \/ HandlerTimeout \/ WriteCompletes \/ Expire
  <2>1. got' = got /\ Expected' = Expected
    BY <1>4
       DEF HandlerWriteError, HandlerRead, HandlerTimeout, WriteCompletes, Expire, sending, Expected
  <2>2. CASE HandlerWriteError \/ WriteCompletes
    BY <1>1, <2>1, <2>2 DEF HandlerWriteError, WriteCompletes, Heard
  <2>3. CASE HandlerRead
    BY <1>1, <2>1, <2>3 DEF HandlerRead, Heard
  <2>4. CASE HandlerTimeout
    BY <1>1, <2>1, <2>4 DEF HandlerTimeout, Heard
  <2>5. CASE Expire
    BY <1>1, <2>1, <2>5 DEF Expire, Heard
  <2> QED BY <1>4, <2>2, <2>3, <2>4, <2>5
<1>5. CASE WordArrives
  <2>1. /\ UNCHANGED <<past, timeout, queued, wr>> /\ Expected' = Expected /\ rd = "pending"
        /\ rd' = (IF Len(got') = Expected THEN "done" ELSE rd) /\ toHost # <<>>
    BY <1>5 DEF WordArrives, sending, Expected
  <2>2. ~past /\ ~timeout /\ ~(queued > 0) /\ wr = "none"
    BY <1>1, <2>1 DEF Silent, ReadInv
  <2>3. queued = 0
    BY <2>2 DEF Prompt, StepInv, TimerCount
  <2> QED BY <2>1, <2>2, <2>3 DEF Heard
<1>6. CASE UNCHANGED <<pkt, asio>>
  BY <1>1, <1>6 DEF Heard, Expected, asio
<1> QED
  BY <1>2, <1>3, <1>4, <1>5, <1>6
     DEF Next, Host, TryDone, RomTakes, LoseCommand, LoseWord, vars, sending

\* The handlers and the clock leave the line alone.
LEMMA PromptHandlers ==
  Prompt /\ (StartTry \/ HandlerWriteError \/ HandlerRead \/ HandlerTimeout \/ TryDone \/ Expire)
    => (Coming /\ Answers /\ RomIs)'
<1> SUFFICES ASSUME Prompt,
                    StartTry \/ HandlerWriteError \/ HandlerRead \/ HandlerTimeout \/ TryDone \/ Expire
             PROVE  (Coming /\ Answers /\ RomIs)'
  OBVIOUS
<1>1. CASE StartTry
  <2>1. phase = "write" /\ got = <<>>
    BY <1>1 DEF StartTry, Prompt, StepInv, ReadInv
  <2>2. toHost = <<>> /\ Len(toRom) = Owed /\ ~result
    BY <2>1 DEF Prompt, Answers, Coming, RomIs
  <2> QED BY <1>1, <2>1, <2>2, LineKept DEF StartTry
<1>2. CASE HandlerWriteError \/ HandlerRead \/ HandlerTimeout \/ Expire
  <2>1. UNCHANGED <<sending, got, line, outside>> /\ (wr' # "pending" \/ wr = "pending")
    BY <1>2 DEF HandlerWriteError, HandlerRead, HandlerTimeout, Expire
  <2> QED BY <2>1, LineKept DEF sending
<1>3. CASE TryDone
  <2>1. /\ phase = "io" /\ wasRead /\ phase' = "read"
        /\ UNCHANGED <<pkt, result, got, wr, line, outside>>
    BY <1>3 DEF TryDone, asio
  <2>2. toRom = <<>> /\ ~result
    BY <2>1, PromptFacts DEF Prompt, StepInv, ReadInv, RomIs
  <2> QED BY <2>1, <2>2, LineKept
<1> QED BY <1>1, <1>2, <1>3

\* The answer is awaited from the beginning.
LEMMA PromptWritten == Prompt /\ HandlerWrite => (Coming /\ Answers /\ RomIs)'
<1> SUFFICES ASSUME Prompt, HandlerWrite PROVE (Coming /\ Answers /\ RomIs)'
  OBVIOUS
<1>1. UNCHANGED <<pkt, phase, result, line, outside>> /\ got' = <<>> /\ wr' = "none" /\ got = <<>>
  BY DEF HandlerWrite, sending, Prompt, StepInv, ReadInv
<1> QED BY <1>1, LineKept

\* The command follows what the ROM still lacks of the boot loader.
LEMMA PromptWrites == Prompt /\ WriteCompletes => (Coming /\ Answers /\ RomIs)'
<1> SUFFICES ASSUME Prompt, WriteCompletes PROVE (Coming /\ Answers /\ RomIs)'
  OBVIOUS
<1>1. /\ wr = "pending" /\ wr' = "done" /\ toRom' = Append(toRom, Command(pkt))
      /\ UNCHANGED <<pkt, phase, result, got, toHost, rom>>
  BY DEF WriteCompletes, sending, outside
<1>2. phase = "io" /\ toHost = <<>> /\ got = <<>>
  BY <1>1 DEF Prompt, StepInv, LoopInv, NothingPends, Quiet, Answers
<1>3. Len(toRom) = Owed /\ Owed \in Nat
  BY <1>1, PromptFacts DEF Prompt, Coming
<1>4. /\ Len(toRom') = Owed + 1 /\ toRom'[Owed + 1] = Command(pkt)
      /\ \A i \in 1 .. Owed : toRom'[i] = toRom[i]
  <2>1. Command(pkt) \in Units /\ toRom \in Seq(Units)
    BY CommandIs, PacketsAre, PromptFacts DEF Prompt, StepInv, LineType
  <2> QED BY <1>1, <1>3, <2>1, AppendProperties
<1>5. Owed' = Owed /\ Command(pkt)' = Command(pkt) /\ Expected' = Expected
  BY <1>1 DEF Owed, Command, Expected
<1>6. Coming'
  BY <1>1, <1>2, <1>3, <1>4, <1>5 DEF Prompt, Coming
<1>7. Answers'
  BY <1>1, <1>2, <1>5 DEF Prompt, Answers
<1>8. RomIs'
  <2>1. Acked => FALSE
    BY <1>2, PromptFacts DEF Acked
  <2> QED BY <1>1, <1>2, <2>1 DEF Prompt, RomIs, Unloaded
<1> QED BY <1>6, <1>7, <1>8

\* A failed try leaves a clean line behind, for a packet before PktWriteF the next.
LEMMA PromptFailed == Prompt /\ TryFailed => (Coming /\ Answers /\ RomIs)'
<1> SUFFICES ASSUME Prompt, TryFailed PROVE (Coming /\ Answers /\ RomIs)'
  OBVIOUS
<1>1. /\ phase = "io" /\ timeout /\ got' = <<>> /\ UNCHANGED <<line, outside>>
      /\ phase' \in {"write", "done"}
  BY FailedIs DEF TryFailed, Prompt, StepInv
<1>2. toRom = <<>> /\ toHost = <<>>
  BY <1>1 DEF Prompt, Silent
<1>3. Len(got) # Expected /\ ~result
  BY <1>1 DEF Prompt, Heard, RomIs
<1>4. pkt' = pkt \/ (pkt' = pkt + 1 /\ pkt < FilePkt)
  <2>1. CASE try < MaxTries
    BY <2>1 DEF TryFailed
  <2>2. CASE ~(try < MaxTries)
    BY <2>2, PromptFacts, KindIs, PacketsAre DEF TryFailed, Sent
  <2> QED BY <2>1, <2>2
<1>5. ~result'
  <2>1. CASE try < MaxTries
    BY <2>1, <1>3 DEF TryFailed
  <2>2. CASE ~(try < MaxTries)
    <3>1. Ignored(Packets[pkt]) => pkt < Len(Packets)
      BY PromptFacts, KindIs, PacketsAre
    <3> QED BY <2>2, <3>1, <1>3 DEF TryFailed, Sent
  <2> QED BY <2>1, <2>2
<1>6. Unloaded /\ pkt < FilePkt => Owed' = 0
  BY <1>1 DEF Unloaded, Owed, outside
<1>7. Owed' = 0
  BY <1>1, <1>2, <1>4, <1>6, PromptFacts DEF Prompt, RomIs, Owed, outside
<1>8. Expected' \in 1 .. 2 /\ Len(<<>>) = 0
  BY <1>4, PromptFacts, ExpectedIs, EmptySeq DEF Expected
<1>9. Coming' /\ Answers'
  BY <1>1, <1>2, <1>7, <1>8 DEF Coming, Answers, line
<1>10. RomIs'
  <2>1. Acked => pkt # FilePkt
    <3>1. SUFFICES ASSUME Acked, pkt = FilePkt PROVE FALSE
      OBVIOUS
    <3>2. Len(got) = 1 /\ FilePkt \in 1 .. LastPkt
      BY <1>2, <3>1, PromptFacts DEF Acked
    <3>3. Expected = 1
      BY <3>1, <3>2, KindIs DEF Expected, RespSize
    <3> QED BY <1>3, <3>2, <3>3
  <2>2. pkt < FilePkt => Unloaded
    BY DEF Prompt, RomIs
  <2>3. pkt = FilePkt => Unloaded
    BY <2>1 DEF Prompt, RomIs
  <2>4. /\ UNCHANGED <<rom, toHost>> /\ (Unloaded => Unloaded') /\ ~(LastPkt < FilePkt)
        /\ pkt < FilePkt => ~(pkt = LastPkt) /\ ~(pkt + 1 = LastPkt) /\ ~(pkt = FilePkt)
    BY <1>1, PromptFacts DEF Unloaded, line, outside
  <2>5. pkt' < FilePkt => Unloaded'
    BY <1>4, <2>2, <2>4, PromptFacts
  <2>6. pkt' = FilePkt => Unloaded' /\ toHost' = <<>> /\ got' = <<>>
    BY <1>1, <1>2, <1>4, <2>2, <2>3, <2>4
  <2>7. pkt' = LastPkt => pkt = LastPkt
    BY <1>4, <2>4
  <2> QED BY <1>5, <2>4, <2>5, <2>6, <2>7 DEF Prompt, RomIs
<1> QED BY <1>9, <1>10

\* Words and lengths when a word is read off the line.
LEMMA WordTaken ==
  ASSUME toHost \in Seq(HostWords), got \in Seq(HostWords), toHost # <<>>,
         got' = Append(got, Head(toHost)), toHost' = Tail(toHost)
  PROVE  /\ Len(toHost') = Len(toHost) - 1 /\ Len(got') = Len(got) + 1
         /\ \A i \in 1 .. Len(toHost) - 1 : toHost'[i] = toHost[i + 1]
         /\ \A i \in 1 .. Len(got) : got'[i] = got[i]
         /\ got'[Len(got) + 1] = toHost[1]
<1>1. Head(toHost) \in HostWords /\ Head(toHost) = toHost[1]
  BY HeadTailProperties
<1> QED BY <1>1, HeadTailProperties, AppendProperties

\* A word is read: it is the next of the answer.
LEMMA PromptWord == Prompt /\ WordArrives => (Coming /\ Answers /\ RomIs)'
<1> SUFFICES ASSUME Prompt, WordArrives PROVE (Coming /\ Answers /\ RomIs)'
  OBVIOUS
<1>1. /\ toHost # <<>> /\ got' = Append(got, Head(toHost)) /\ toHost' = Tail(toHost)
      /\ UNCHANGED <<pkt, phase, result, wr, toRom, rom>>
  BY DEF WordArrives, sending, outside
<1>2. /\ toRom = <<>> /\ Owed = 0 /\ Owed' = 0 /\ Expected' = Expected /\ Len(toRom) = 0
  BY <1>1, PromptFacts, EmptySeq DEF Owed, Expected
<1>3. /\ Len(toHost') = Len(toHost) - 1 /\ Len(got') = Len(got) + 1
      /\ \A i \in 1 .. Len(toHost) - 1 : toHost'[i] = toHost[i + 1]
      /\ \A i \in 1 .. Len(got) : got'[i] = got[i]
      /\ got'[Len(got) + 1] = toHost[1]
      /\ Len(toHost) \in Nat /\ Len(got) \in Nat /\ Len(toHost) >= 1
  BY <1>1, WordTaken, PromptFacts DEF Prompt, StepInv, LineType
<1>4. Coming'
  BY <1>1, <1>2 DEF Coming
<1>5. Answers'
  <2>1. phase \in {"io", "read"} /\ wr # "pending"
    BY <1>1 DEF Prompt, Answers
  <2>2. \A i \in 1 .. Len(toHost') : /\ toHost'[i].of = pkt'
                                     /\ toHost'[i].word = "complete" => rom'.mode = "runs"
    BY <1>1, <1>3 DEF Prompt, Answers
  <2>3. \A i \in 1 .. Len(got') : i \in 1 .. Len(got) \/ i = Len(got) + 1
    BY <1>3
  <2>4. \A i \in 1 .. Len(got') : /\ got'[i].of = pkt'
                                  /\ got'[i].word = "complete" => rom'.mode = "runs"
    BY <1>1, <1>3, <2>3 DEF Prompt, Answers
  <2>5. Len(got') + Len(toHost') <= Expected'
    BY <1>2, <1>3 DEF Prompt, Answers
  <2> QED BY <1>1, <1>2, <2>1, <2>2, <2>4, <2>5 DEF Answers
<1>6. Acked => Acked'
  <2>1. SUFFICES ASSUME Acked PROVE Acked'
    OBVIOUS
  <2>2. Len(toHost) = 1 /\ Len(got) = 0 /\ toHost[1].word = "ack"
    BY <1>1, <1>3, <2>1 DEF Acked
  <2>3. Len(toHost') = 0 /\ Len(got') = 1 /\ got'[1].word = "ack" /\ toHost' = <<>>
    <3>1. toHost' \in Seq(HostWords)
      BY <1>1, HeadTailProperties DEF Prompt, StepInv, LineType
    <3> QED BY <1>3, <2>2, <3>1, EmptySeq
  <2> QED BY <1>1, <2>1, <2>3 DEF Acked
<1>7. RomIs'
  BY <1>1, <1>6 DEF Prompt, RomIs, Unloaded
<1> QED BY <1>4, <1>5, <1>7

\* A word that is lost is missed, it is not taken for another.
LEMMA PromptLosesWord == Prompt /\ LoseWord => (Coming /\ Answers /\ RomIs)'
<1> SUFFICES ASSUME Prompt, LoseWord PROVE (Coming /\ Answers /\ RomIs)'
  OBVIOUS
<1>1. /\ toHost # <<>> /\ toHost' = Tail(toHost) /\ Packets[Head(toHost).of] # "file"
      /\ UNCHANGED <<pkt, phase, result, wr, got, toRom, rom>>
  BY DEF LoseWord, sending, asio, Prompt
<1>2. /\ toRom = <<>> /\ Owed = 0 /\ Owed' = 0 /\ Expected' = Expected /\ Len(toRom) = 0
  BY <1>1, PromptFacts, EmptySeq DEF Owed, Expected
<1>3. /\ Len(toHost') = Len(toHost) - 1 /\ Head(toHost) = toHost[1]
      /\ \A i \in 1 .. Len(toHost) - 1 : toHost'[i] = toHost[i + 1]
      /\ Len(toHost) \in Nat /\ Len(toHost) >= 1 /\ Len(got) \in Nat
  BY <1>1, HeadTailProperties, PromptFacts DEF Prompt, StepInv, LineType
<1>4. Coming'
  BY <1>1, <1>2 DEF Coming
<1>5. Answers'
  <2>1. phase \in {"io", "read"} /\ wr # "pending"
    BY <1>1 DEF Prompt, Answers
  <2>2. \A i \in 1 .. Len(toHost') : /\ toHost'[i].of = pkt'
                                     /\ toHost'[i].word = "complete" => rom'.mode = "runs"
    BY <1>1, <1>3 DEF Prompt, Answers
  <2>3. \A i \in 1 .. Len(got') : /\ got'[i].of = pkt'
                                  /\ got'[i].word = "complete" => rom'.mode = "runs"
    BY <1>1 DEF Prompt, Answers
  <2>4. Len(got) + Len(toHost) <= Expected /\ Expected \in 1 .. 2
    BY PromptFacts DEF Prompt, Answers
  <2>5. Len(got') + Len(toHost') <= Expected'
    BY <1>1, <1>2, <1>3, <2>4
  <2> QED BY <1>1, <1>2, <2>1, <2>2, <2>3, <2>5 DEF Answers
<1>6. pkt # FilePkt
  <2>1. toHost[1].of = pkt
    BY <1>3 DEF Prompt, Answers
  <2> QED BY <1>1, <1>3, <2>1, KindIs, PromptFacts
<1>7. RomIs'
  BY <1>1, <1>6 DEF Prompt, RomIs, Unloaded
<1> QED BY <1>4, <1>5, <1>7

\* A command that is lost leaves a clean line.
LEMMA PromptLosesCommand == Prompt /\ LoseCommand => (Coming /\ Answers /\ RomIs)'
<1> SUFFICES ASSUME Prompt, LoseCommand PROVE (Coming /\ Answers /\ RomIs)'
  OBVIOUS
<1>1. /\ toRom # <<>> /\ toRom' = Tail(toRom) /\ Head(toRom).kind = "packet"
      /\ UNCHANGED <<pkt, phase, result, wr, got, toHost, rom>>
  BY DEF LoseCommand, sending, asio
<1>2. /\ Len(toRom') = Len(toRom) - 1 /\ Head(toRom) = toRom[1] /\ toRom' \in Seq(Units)
      /\ Len(toRom) \in Nat /\ Len(toRom) >= 1 /\ Owed \in 0 .. ImageLen
  BY <1>1, HeadTailProperties, PromptFacts DEF Prompt, StepInv, LineType
<1>3. Owed = 0
  <2>1. SUFFICES ASSUME Owed > 0 PROVE FALSE
    BY <1>2
  <2>2. 1 \in 1 .. Owed /\ ImageLen - Owed + 1 \in 1 .. ImageLen
    BY <1>2, <2>1, ImageIs
  <2>3. toRom[1] = Image[ImageLen - Owed + 1]
    BY <2>2 DEF Prompt, Coming
  <2> QED BY <1>1, <1>2, <2>2, <2>3, ImageIs
<1>4. toRom' = <<>> /\ Len(toRom') = 0 /\ Owed' = 0 /\ Expected' = Expected
  <2>1. Len(toRom) = 1
    BY <1>2, <1>3 DEF Prompt, Coming
  <2> QED BY <1>1, <1>2, <1>3, <2>1, EmptySeq DEF Owed, Expected
<1>5. toHost = <<>> /\ got = <<>>
  BY <1>1 DEF Prompt, Answers
<1>6. Coming' /\ Answers'
  <2>1. Len(<<>>) = 0 /\ Expected \in 1 .. 2
    BY EmptySeq, PromptFacts
  <2> QED BY <1>1, <1>4, <1>5, <2>1 DEF Coming, Answers
<1>7. RomIs'
  BY <1>1 DEF Prompt, RomIs, Unloaded, Acked
<1> QED BY <1>6, <1>7

\* The right answer to PktWriteF is the one word that it has come.
LEMMA RightFile ==
  ASSUME NEW ws \in Seq(HostWords), Len(ws) = 1, ws[1].word = "ack"
  PROVE  Right("file", [i \in DOMAIN ws |-> ws[i].word])
<1>1. DOMAIN ws = 1 .. 1
  BY LenProperties
<1>2. [i \in DOMAIN ws |-> ws[i].word] = [i \in 1 .. 1 |-> "ack"]
  BY <1>1
<1>3. <<"ack">> = [i \in 1 .. 1 |-> "ack"]
  OBVIOUS
<1> QED BY <1>2, <1>3 DEF Right

\* The right answer to PktComplete is the one word that the boot loader runs.
LEMMA RightComplete ==
  ASSUME NEW ws \in Seq(HostWords), Len(ws) = 1,
         Right("complete", [i \in DOMAIN ws |-> ws[i].word])
  PROVE  ws[1].word = "complete"
<1>1. DOMAIN ws = 1 .. Len(ws)
  BY LenProperties
<1>2. [i \in DOMAIN ws |-> ws[i].word] = <<"complete">>
  BY DEF Right
<1>3. [i \in DOMAIN ws |-> ws[i].word][1] = ws[1].word
  BY <1>1
<1> QED BY <1>2, <1>3

\* A whole answer leads to the next packet, to another try of it or to the end; the
\* boot loader is written when the ROM waits for it, and only then.
LEMMA PromptAnswer == Prompt /\ ReadAnswer => (Coming /\ Answers /\ RomIs)'
<1> SUFFICES ASSUME Prompt, ReadAnswer PROVE (Coming /\ Answers /\ RomIs)'
  OBVIOUS
<1> DEFINE ok == Right(Packets[pkt], [i \in DOMAIN got |-> got[i].word])
<1>1. /\ phase = "read" /\ Sent(ok) /\ got' = <<>> /\ UNCHANGED <<wr, toHost, rom>>
      /\ toRom' = IF ok /\ Packets[pkt] = "file" THEN toRom \o Image ELSE toRom
  BY DEF ReadAnswer, outside
<1>2. Len(got) = Expected /\ got # <<>> /\ toRom = <<>> /\ Owed = 0 /\ Expected \in 1 .. 2
  BY <1>1, PromptFacts DEF Prompt, StepInv, ReadInv
<1>3. toHost = <<>>
  BY <1>2, PromptFacts DEF Prompt, Answers
<1>4. /\ pkt = FilePkt => Packets[pkt] = "file" /\ Expected = 1
      /\ pkt = LastPkt => Packets[pkt] = "complete" /\ Expected = 1
      /\ pkt # FilePkt => Packets[pkt] # "file"
      /\ Ignored(Packets[pkt]) => pkt < FilePkt
  BY KindIs, PromptFacts DEF Expected, RespSize
<1>5. pkt = FilePkt => Acked /\ ok
  <2>1. SUFFICES ASSUME pkt = FilePkt PROVE Acked /\ ok
    OBVIOUS
  <2>2. Acked
    BY <1>2, <2>1 DEF Prompt, RomIs
  <2>3. Len(got) = 1 /\ got[1].word = "ack" /\ got \in Seq(HostWords)
    BY <1>2, <1>4, <2>1, <2>2 DEF Acked, Prompt, StepInv, LineType
  <2> QED BY <1>4, <2>1, <2>2, <2>3, RightFile
<1>6. pkt = LastPkt /\ ok => rom.mode = "runs"
  <2>1. SUFFICES ASSUME pkt = LastPkt, ok PROVE rom.mode = "runs"
    OBVIOUS
  <2>2. Len(got) = 1 /\ got \in Seq(HostWords)
    BY <1>2, <1>4, <2>1 DEF Prompt, StepInv, LineType
  <2>3. got[1].word = "complete"
    BY <1>4, <2>1, <2>2, RightComplete
  <2> QED BY <2>2, <2>3 DEF Prompt, Answers
<1> HIDE DEF ok
<1>7. ok \in BOOLEAN /\ Len(Packets) = LastPkt
  <2>1. ok \in BOOLEAN
    BY PromptFacts, PacketsAre DEF ok, Right, Kinds
  <2> QED BY <2>1, PacketsAre
<1>8. /\ pkt' = pkt \/ (pkt' = pkt + 1 /\ pkt < LastPkt)
      /\ pkt = FilePkt => pkt' = pkt + 1
      /\ phase' \in {"write", "done"}
  BY <1>1, <1>4, <1>5, <1>7, PromptFacts DEF Sent
<1>9. result' => pkt = LastPkt /\ pkt' = pkt /\ ok /\ phase' = "done"
  <2>1. ~result
    BY <1>1 DEF Prompt, RomIs
  <2>2. (~(pkt < LastPkt) => pkt = LastPkt) /\ ~(LastPkt < FilePkt)
    BY PromptFacts
  <2>3. \/ result' = result
        \/ /\ ok \/ Ignored(Packets[pkt])
           /\ ~(pkt < LastPkt) /\ pkt' = pkt /\ phase' = "done"
        \/ ~result'
    BY <1>1, <1>7 DEF Sent
  <2> QED BY <1>4, <2>1, <2>2, <2>3
<1>10. Expected' \in 1 .. 2 /\ Len(<<>>) = 0
  <2>1. pkt' \in 1 .. LastPkt
    BY <1>8, PromptFacts
  <2> QED BY <2>1, ExpectedIs, EmptySeq DEF Expected
<1>11. Answers'
  BY <1>1, <1>3, <1>10 DEF Answers
<1>12. CASE pkt = FilePkt
  <2>1. /\ pkt' = LastPkt /\ Acked /\ toRom' = toRom \o Image
    BY <1>1, <1>4, <1>5, <1>8, <1>12, PromptFacts
  <2>2. toRom' = Image
    BY <1>2, <2>1, ImageIs, ConcatEmptySeq
  <2>3. Owed' = ImageLen /\ Len(toRom') = ImageLen
    BY <1>1, <2>1, <2>2, ImageIs DEF Owed, Acked
  <2>4. \A i \in 1 .. ImageLen : Image[ImageLen - ImageLen + i] = Image[i]
    BY ImageIs
  <2>5. Image' = Image
    BY DEF Image
  <2>6. Coming'
    BY <2>2, <2>3, <2>4, <2>5, ImageIs DEF Coming
  <2>7. RomIs'
    BY <1>1, <1>9, <1>12, <2>1, ImageIs, PromptFacts DEF RomIs, Acked
  <2> QED BY <1>11, <2>6, <2>7
<1>13. CASE pkt # FilePkt
  <2>1. toRom' = <<>>
    BY <1>1, <1>2, <1>4, <1>13
  <2>2. pkt < FilePkt => Unloaded /\ pkt' <= FilePkt
    BY <1>8, PromptFacts DEF Prompt, RomIs
  <2>3. pkt = LastPkt => pkt' = LastPkt
    BY <1>8, PromptFacts
  <2>4. pkt < FilePkt \/ pkt = LastPkt
    BY <1>13, PromptFacts
  <2>5. /\ pkt' <= FilePkt => pkt' # LastPkt
        /\ pkt = LastPkt => ~(pkt' < FilePkt) /\ pkt' # FilePkt
    BY <1>8, <2>3, PromptFacts
  <2>6. Owed' = 0
    BY <1>1, <1>2, <2>2, <2>3, <2>4 DEF Owed, Unloaded
  <2>7. Coming'
    BY <1>10, <2>1, <2>6 DEF Coming
  <2>8. RomIs'
    BY <1>1, <1>3, <1>6, <1>9, <2>2, <2>3, <2>4, <2>5 DEF Prompt, RomIs, Unloaded
  <2> QED BY <1>11, <2>7, <2>8
<1> QED BY <1>12, <1>13

\* The ROM takes the command that is awaited, and its answer is all there is.
LEMMA PromptCommand ==
  Prompt /\ RomTakes /\ rom.mode # "data" => (Coming /\ Answers /\ RomIs)'
<1> SUFFICES ASSUME Prompt, RomTakes, rom.mode # "data" PROVE (Coming /\ Answers /\ RomIs)'
  OBVIOUS
<1> DEFINE a == Answer(Packets[pkt], rom.image # "none")
<1>1. /\ toRom # <<>> /\ toRom' = Tail(toRom)
      /\ UNCHANGED <<pkt, phase, result, wr, got>>
  BY RomTakesIs DEF Prompt, sending, asio
<1>2. Owed = 0 /\ Len(toRom) = 1
  <2>1. Owed = 0
    BY DEF Owed
  <2> QED BY <1>1, <2>1, PromptFacts DEF Prompt, Coming
<1>3. /\ toRom[1] = Command(pkt) /\ toHost = <<>> /\ got = <<>> /\ phase = "io"
      /\ wr # "pending"
  BY <1>2 DEF Prompt, Coming
<1>4. Head(toRom) = Command(pkt) /\ toRom' = <<>>
  <2>1. Head(toRom) = toRom[1] /\ Len(toRom') = 0 /\ toRom' \in Seq(Units)
    BY <1>1, <1>2, HeadTailProperties DEF Prompt, StepInv, LineType
  <2> QED BY <1>3, <2>1, EmptySeq
<1>5. Head(toRom).kind = "packet" /\ Head(toRom).n = pkt
  BY <1>4 DEF Command
<1>6. /\ Packets[pkt] \in Kinds /\ pkt \in DOMAIN Packets /\ Expected \in 1 .. 2
      /\ Packets[pkt] = "file" <=> pkt = FilePkt
      /\ Expected = RespSize(Packets[pkt]) /\ Expected' = Expected
  BY <1>1, PromptFacts, PacketsAre, KindIs DEF Expected
<1>7. /\ a \in Seq(Words) /\ Len(a) = Expected
      /\ pkt = FilePkt => a = <<"ack">>
      /\ \A i \in 1 .. Expected : a[i] = "complete" => rom.image # "none" /\ a = <<"complete">>
      /\ rom.image = "none" => a # <<"complete">>
  BY <1>6, AnswerIs
<1>8. \/ /\ rom.mode = "command"
         /\ toHost' = toHost \o Reply(pkt, a)
         /\ \/ pkt = FilePkt /\ rom' = [mode |-> "data", left |-> ImageLen, image |-> "whole"]
            \/ pkt # FilePkt /\ a = <<"complete">> /\ rom' = [rom EXCEPT !.mode = "runs"]
            \/ pkt # FilePkt /\ a # <<"complete">> /\ rom' = rom
      \/ rom.mode = "runs" /\ UNCHANGED <<rom, toHost>>
  <2>1. StepInv
    BY DEF Prompt
  <2> QED BY <1>5, <1>6, <2>1, RomTakesIs
<1> HIDE DEF a
<1>9. CASE rom.mode = "runs" /\ UNCHANGED <<rom, toHost>>
  <2>1. Owed' = 0 /\ Len(<<>>) = 0
    BY <1>9, EmptySeq DEF Owed
  <2>2. Coming' /\ Answers'
    <3>1. toHost' = <<>> /\ got' = <<>>
      BY <1>1, <1>3, <1>9
    <3>2. Coming'
      BY <1>4, <2>1 DEF Coming
    <3>3. Answers'
      BY <1>6, <2>1, <3>1 DEF Answers
    <3> QED BY <3>2, <3>3
  <2>3. RomIs'
    <3>1. pkt = LastPkt \/ pkt < FilePkt \/ pkt = FilePkt
      BY PromptFacts
    <3> QED BY <1>1, <1>9, <3>1 DEF Prompt, RomIs, Unloaded, Acked
  <2> QED BY <2>2, <2>3
<1>10. ASSUME rom.mode = "command",
              toHost' = toHost \o Reply(pkt, a),
              \/ pkt = FilePkt /\ rom' = [mode |-> "data", left |-> ImageLen, image |-> "whole"]
              \/ pkt # FilePkt /\ a = <<"complete">> /\ rom' = [rom EXCEPT !.mode = "runs"]
              \/ pkt # FilePkt /\ a # <<"complete">> /\ rom' = rom
       PROVE  (Coming /\ Answers /\ RomIs)'
  <2>1. /\ toHost' = Reply(pkt, a) /\ Len(toHost') = Expected
        /\ \A i \in 1 .. Expected : toHost'[i] = [word |-> a[i], of |-> pkt]
    BY <1>3, <1>6, <1>7, <1>10, ReplyIs, ConcatEmptySeq
  <2>2. Owed' = 0 /\ Len(<<>>) = 0
    <3>1. FilePkt # LastPkt /\ Len(<<>>) = 0
      BY PromptFacts, EmptySeq
    <3>2. rom \in [mode : {"command", "data", "runs"}, left : 0 .. ImageLen,
                   image : {"none", "whole", "broken"}]
      BY DEF Prompt, StepInv, RomType
    <3>3. pkt # FilePkt => rom'.mode # "data"
      BY <1>10, <3>2
    <3> QED BY <1>1, <3>1, <3>3 DEF Owed
  <2>3. toHost' # <<>>
    BY <1>6, <2>1, <2>2
  <2>4. Coming'
    BY <1>4, <2>2 DEF Coming
  <2>5. a = <<"complete">> => pkt # FilePkt
    <3>1. <<"ack">>[1] = "ack" /\ <<"complete">>[1] = "complete"
      OBVIOUS
    <3> QED BY <1>7, <3>1
  <2>6. a = <<"complete">> => rom'.mode = "runs"
    <3>1. rom \in [mode : {"command", "data", "runs"}, left : 0 .. ImageLen,
                   image : {"none", "whole", "broken"}]
      BY DEF Prompt, StepInv, RomType
    <3> QED BY <1>10, <2>5, <3>1
  <2>7. \A i \in 1 .. Expected : /\ toHost'[i].of = pkt
                                 /\ toHost'[i].word = "complete" => rom'.mode = "runs"
    BY <1>7, <2>1, <2>6
  <2>8. Answers'
    BY <1>1, <1>3, <1>4, <1>6, <2>1, <2>2, <2>7 DEF Answers
  <2>9. pkt < FilePkt => Unloaded'
    <3>1. SUFFICES ASSUME pkt < FilePkt PROVE Unloaded'
      OBVIOUS
    <3>2. Unloaded /\ pkt # FilePkt
      BY <3>1, PromptFacts DEF Prompt, RomIs
    <3>3. rom.image = "none"
      BY <3>2 DEF Unloaded
    <3> QED BY <1>7, <1>10, <3>2, <3>3 DEF Unloaded
  <2>10. pkt = FilePkt => Acked'
    <3>1. SUFFICES ASSUME pkt = FilePkt PROVE Acked'
      OBVIOUS
    <3>2. a[1] = "ack" /\ Expected = 1
      BY <1>6, <1>7, <3>1 DEF RespSize
    <3>3. toHost'[1].word = "ack"
      BY <2>1, <3>2
    <3> QED BY <1>1, <1>3, <1>4, <1>10, <2>1, <2>2, <3>1, <3>2, <3>3 DEF Acked
  <2>11. pkt = LastPkt => rom'.image = "whole" /\ rom'.mode \in {"command", "runs"} /\ rom'.left = 0
    <3>1. SUFFICES ASSUME pkt = LastPkt
                   PROVE  rom'.image = "whole" /\ rom'.mode \in {"command", "runs"} /\ rom'.left = 0
      OBVIOUS
    <3>2. rom.image = "whole" /\ rom.left = 0 /\ pkt # FilePkt
      BY <1>10, <3>1, PromptFacts DEF Prompt, RomIs
    <3>3. rom \in [mode : {"command", "data", "runs"}, left : 0 .. ImageLen,
                   image : {"none", "whole", "broken"}]
      BY DEF Prompt, StepInv, RomType
    <3> QED BY <1>10, <3>2, <3>3
  <2>12. ~result
    BY <1>3 DEF Prompt, RomIs
  <2> QED BY <1>1, <2>4, <2>8, <2>9, <2>10, <2>11, <2>12 DEF RomIs
<1> QED BY <1>8, <1>9, <1>10

\* The ROM takes the next unit of the boot loader: it is the one that it lacks.
LEMMA PromptUnit ==
  Prompt /\ RomTakes /\ rom.mode = "data" => (Coming /\ Answers /\ RomIs)'
<1> SUFFICES ASSUME Prompt, RomTakes, rom.mode = "data" PROVE (Coming /\ Answers /\ RomIs)'
  OBVIOUS
<1>1. /\ toRom # <<>> /\ toRom' = Tail(toRom) /\ UNCHANGED toHost
      /\ UNCHANGED <<pkt, phase, result, wr, got>>
      /\ rom' = [mode  |-> IF rom.left = 1 THEN "command" ELSE "data",
                 left  |-> rom.left - 1,
                 image |-> IF Head(toRom) = Image[ImageLen - rom.left + 1]
                             THEN rom.image ELSE "broken"]
  BY RomTakesIs DEF Prompt, sending, asio
<1>2. pkt = LastPkt
  <2>1. ~Unloaded /\ ~Acked
    BY <1>1 DEF Unloaded, Acked
  <2> QED BY <2>1, PromptFacts DEF Prompt, RomIs
<1>3. Owed = rom.left /\ rom.left \in 1 .. ImageLen /\ rom.image = "whole" /\ ImageLen \in Nat
  BY <1>2, PromptFacts DEF Owed, Prompt, RomIs
<1>4. /\ Len(toRom') = Len(toRom) - 1 /\ Head(toRom) = toRom[1] /\ Len(toRom) \in Nat
      /\ \A i \in 1 .. Len(toRom) - 1 : toRom'[i] = toRom[i + 1]
  BY <1>1, HeadTailProperties, PromptFacts DEF Prompt, StepInv, LineType
<1>5. /\ Len(toRom) = Owed \/ Len(toRom) = Owed + 1
      /\ \A i \in 1 .. Owed : toRom[i] = Image[ImageLen - Owed + i]
  BY DEF Prompt, Coming
<1>6. Head(toRom) = Image[ImageLen - rom.left + 1]
  <2>1. 1 \in 1 .. Owed
    BY <1>3
  <2> QED BY <1>3, <1>4, <1>5, <2>1
<1>7. /\ rom'.image = "whole" /\ rom'.left = rom.left - 1
      /\ rom'.mode = (IF rom.left = 1 THEN "command" ELSE "data")
  BY <1>1, <1>3, <1>6
<1>8. Owed' = Owed - 1 /\ Owed' \in Nat /\ Expected' = Expected
  BY <1>1, <1>2, <1>3, <1>7 DEF Owed, Expected
<1>9. toHost = <<>> /\ got = <<>>
  BY <1>1, PromptFacts
<1>10. Coming'
  <2>1. Len(toRom') = Owed' \/ Len(toRom') = Owed' + 1
    BY <1>3, <1>4, <1>5, <1>8, SMTT(30)
  <2>2. \A i \in 1 .. Owed' : toRom'[i] = Image[ImageLen - Owed' + i]
    <3>1. SUFFICES ASSUME NEW i \in 1 .. Owed' PROVE toRom'[i] = Image[ImageLen - Owed' + i]
      OBVIOUS
    <3>2. /\ i \in 1 .. Len(toRom) - 1 /\ i + 1 \in 1 .. Owed
          /\ ImageLen - Owed + (i + 1) = ImageLen - Owed' + i
      <4>1. Len(toRom) = Owed \/ Len(toRom) = Owed + 1
        BY <1>5
      <4>2. Owed \in Nat /\ ImageLen \in Nat /\ Len(toRom) \in Nat
        BY <1>3, <1>4
      <4>3. i \in Nat /\ 1 <= i /\ i <= Owed - 1
        BY <1>8
      <4> QED BY <1>8, <4>1, <4>2, <4>3
    <3>3. toRom[i + 1] = Image[ImageLen - Owed + (i + 1)]
      BY <1>5, <3>2
    <3> QED BY <1>4, <3>2, <3>3
  <2>3. Len(toRom') = Owed' + 1 =>
          /\ toRom'[Owed' + 1] = Command(pkt)
          /\ phase = "io" /\ wr # "pending"
    <3>1. SUFFICES ASSUME Len(toRom') = Owed' + 1
                   PROVE  toRom'[Owed' + 1] = Command(pkt) /\ phase = "io" /\ wr # "pending"
      OBVIOUS
    <3>2. Len(toRom) = Owed + 1 /\ Owed' + 1 \in 1 .. Len(toRom) - 1 /\ (Owed' + 1) + 1 = Owed + 1
      BY <1>3, <1>4, <1>8, <3>1
    <3>3. toRom[Owed + 1] = Command(pkt) /\ phase = "io" /\ wr # "pending"
      BY <3>2 DEF Prompt, Coming
    <3>4. toRom'[Owed' + 1] = toRom[(Owed' + 1) + 1]
      BY <1>4, <3>2
    <3> QED BY <3>2, <3>3, <3>4
  <2>4. Image' = Image /\ Command(pkt)' = Command(pkt)
    BY <1>1 DEF Image, Command
  <2> QED BY <1>1, <1>9, <2>1, <2>2, <2>3, <2>4 DEF Coming
<1>11. Answers'
  <2>1. Len(<<>>) = 0 /\ Expected \in 1 .. 2
    BY EmptySeq, PromptFacts
  <2> QED BY <1>1, <1>8, <1>9, <2>1 DEF Answers
<1>12. RomIs'
  <2>1. ~result
    BY <1>1, <1>2 DEF Prompt, RomIs
  <2>2. ~(LastPkt < FilePkt) /\ LastPkt # FilePkt
    BY PromptFacts
  <2>3. rom'.mode = "data" => rom'.left \in 1 .. ImageLen
    BY <1>3, <1>7
  <2>4. rom'.mode # "data" => rom'.mode = "command" /\ rom'.left = 0
    BY <1>3, <1>7
  <2> QED BY <1>1, <1>2, <1>7, <2>1, <2>2, <2>3, <2>4 DEF RomIs
<1> QED BY <1>10, <1>11, <1>12

\* Every step keeps what is known of a ROM that answers in time.
LEMMA NextPrompt == Inv /\ [Next]_vars => PromptInv'
<1> SUFFICES ASSUME Inv, [Next]_vars, prompt PROVE PromptInv'
  <2>1. [Next]_vars => prompt' = prompt
    BY DEF Next, Host, StartTry, HandlerWrite, HandlerWriteError, HandlerRead, HandlerTimeout, TryDone,
           TryFailed, ReadAnswer, WriteCompletes, WordArrives, Expire, RomTakes, LoseCommand, LoseWord,
           vars, outside
  <2> QED BY <2>1 DEF PromptInv
<1>1. Prompt
  BY DEF Inv, PromptInv, Prompt
<1>2. CASE UNCHANGED vars
  <2>1. /\ UNCHANGED <<pkt, result, got, line, outside>> /\ phase' = phase /\ wr' = wr
    BY <1>2 DEF vars, sending, asio
  <2>2. (Coming /\ Answers /\ RomIs)'
    BY <1>1, <2>1, LineKept
  <2> QED BY <1>1, <2>2, NextStarting, NextSilent, NextHeard DEF PromptInv
<1>3. CASE Next
  <2>1. (Coming /\ Answers /\ RomIs)'
    BY <1>1, <1>3, PromptHandlers, PromptWritten, PromptWrites, PromptFailed, PromptWord,
       PromptLosesWord, PromptLosesCommand, PromptAnswer, PromptCommand, PromptUnit DEF Next, Host
  <2> QED BY <1>1, <2>1, NextStarting, NextSilent, NextHeard DEF PromptInv
<1> QED BY <1>2, <1>3

\* The inductive invariant of the upload.
THEOREM UploadInvariant == Spec => []Inv
<1>1. Init => Inv
  BY InitStep, InitPrompt DEF Inv
<1>2. Inv /\ [Next]_vars => Inv'
  BY NextStep, NextPrompt DEF Inv
<1> QED BY <1>1, <1>2, PTL DEF Spec

\* An answer that Read() looks at answers the packet that was sent.
THEOREM AnswersAreOwn == Spec => []AnswerIsOwn
<1>1. Inv => AnswerIsOwn
  <2> SUFFICES ASSUME Inv, prompt PROVE \A i \in DOMAIN got : got[i].of = pkt
    BY DEF AnswerIsOwn
  <2>1. DOMAIN got = 1 .. Len(got)
    BY LenProperties DEF Inv, StepInv, LineType
  <2> QED BY <2>1 DEF Inv, PromptInv, Answers
<1> QED BY <1>1, UploadInvariant, PTL

\* The ROM never takes a repeated command for a part of the boot loader, if it is
\* heard when it is ready for it (prompt, LoseWord).
THEOREM ImageStaysWhole == Spec => []ImageUnbroken
<1>1. Inv => ImageUnbroken
  <2> SUFFICES ASSUME Inv, prompt PROVE rom.image # "broken"
    BY DEF ImageUnbroken
  <2>1. Prompt
    BY DEF Inv, PromptInv, Prompt
  <2>2. pkt < FilePkt \/ pkt = FilePkt \/ pkt = LastPkt
    BY <2>1, PromptFacts
  <2> QED BY <2>1, <2>2 DEF Prompt, RomIs, Unloaded, Acked
<1> QED BY <1>1, UploadInvariant, PTL

\* UploadUBoot returns true only if the boot loader has arrived whole and runs.
THEOREM TrueIsRunning == Spec => []TrueMeansRunning
<1>1. Inv => TrueMeansRunning
  <2> SUFFICES ASSUME Inv, prompt, result
               PROVE  rom = [mode |-> "runs", left |-> 0, image |-> "whole"]
    BY DEF TrueMeansRunning
  <2>1. /\ rom \in [mode : {"command", "data", "runs"}, left : 0 .. ImageLen,
                    image : {"none", "whole", "broken"}]
        /\ rom.mode = "runs" /\ pkt = LastPkt
    BY DEF Inv, StepInv, RomType, PromptInv, RomIs
  <2>2. rom.image = "whole" /\ rom.left = 0
    BY <2>1 DEF Inv, PromptInv, RomIs
  <2> QED BY <2>1, <2>2
<1> QED BY <1>1, UploadInvariant, PTL
=============================================================================
