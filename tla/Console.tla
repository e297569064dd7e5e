-------------------------------- MODULE Console --------------------------------
(***************************************************************************)
(* The console of a board as regiloader reads it: AsioIface                *)
(* (src/src/utils/regiloader/asio_helper.cpp), and ParseUntil, SkipLines   *)
(* and SendToUBoot/SendToShell (regiloader.cpp) on top of it.              *)
(*                                                                         *)
(* AsioIface::Read reads one byte; the handlers of the byte and of the     *)
(* timer may both be queued when the io_service runs, in any order.        *)
(* Act is a row of calls as the functions of the acts make them.  The      *)
(* board is external: it says a talk for each command, in order, as late   *)
(* as it likes.  A byte knows the call it belongs to and its place there.  *)
(***************************************************************************)
EXTENDS Naturals, Sequences

CONSTANTS
  Act,   \* the calls, see Calls
  Tries, \* kAmountOfTries of ParseUntil's AsioIface, 10 in the code
  Limit  \* how long a line ParseUntil takes, 256 in the code

Chars == {"CR", "LF", "x", "p", "q", "f"}

\* "cmd":   SendToUBoot or SendToShell, whose result is dropped: wait for text
\* "send":  SendCmd
\* "until": ParseUntil, without which the act fails
\* "skip":  SkipLines(count)
\* anywhere: the text need not begin the line; talks: what a board may answer.
Calls == [kind : {"cmd", "send", "until", "skip"}, text : Seq(Chars), anywhere : BOOLEAN,
          count : Nat, talks : SUBSET Seq(Chars)]

ASSUME ConsoleAssumption ==
  /\ Act \in Seq(Calls) /\ Act # <<>> /\ Tries \in Nat \ {0} /\ Limit \in Nat
  /\ \A i \in DOMAIN Act : /\ Act[i].kind \in {"cmd", "send"} => Act[i].talks # {}
                           /\ Act[i].kind \in {"cmd", "until"} => Act[i].text # <<>>

VARIABLES
  k,        \* which call of Act is made
  pc,       \* "call": it begins, "io": a byte is read for it, "done"
  failed,   \* g_parse_timeout_fail
  rd,       \* async_read_some: "none", "pending", "done", "aborted"
  timer,    \* _timer: "off", "armed"; its handler is queued: "fired", "cancelled"
  tryNum, processed, \* _try_num, _was_processed
  resp,     \* resp[0] with its call and place
  str,      \* str of ParseUntil; its length is total_read
  lines,    \* lines of SkipLines
  toBoard,  \* the commands the board has not answered
  line,     \* what it says, and nobody has read
  timely,   \* whether the board says it within the timeouts
  heard,    \* history: whose talk the text that each call waited for was in
  silent    \* history: how many timeouts there were since the last byte

caller == <<k, pc, failed, heard>>
reader == <<rd, timer, tryNum, processed>>
parser == <<resp, str, lines>>
board  == <<toBoard, line, timely>>
vars   == <<caller, reader, parser, board, silent>>

Byte == [c : Chars, of : DOMAIN Act, at : Nat \ {0}]
NoByte == [c |-> "x", of |-> 0, at |-> 0]

TypeOK ==
  /\ k \in 1 .. Len(Act) + 1 /\ pc \in {"call", "io", "done"} /\ failed \in BOOLEAN
  /\ rd \in {"none", "pending", "done", "aborted"}
  /\ timer \in {"off", "armed", "fired", "cancelled"}
  /\ tryNum \in 0 .. Tries /\ processed \in 0 .. 1
  /\ resp \in Byte \cup {NoByte} /\ str \in Seq(Byte) /\ Len(str) <= Limit + 1
  /\ lines \in Nat
  /\ toBoard \in Seq(DOMAIN Act) /\ line \in Seq(Byte) /\ timely \in BOOLEAN
  /\ heard \in [DOMAIN Act -> 0 .. Len(Act)] /\ silent \in 0 .. Tries

Init ==
  /\ k = 1 /\ pc = "call" /\ failed = FALSE
  /\ rd = "none" /\ timer = "off" /\ tryNum = 0 /\ processed = 0
  /\ resp = NoByte /\ str = <<>> /\ lines = 0
  /\ toBoard = <<>> /\ line = <<>> /\ timely \in BOOLEAN
  /\ heard = [i \in DOMAIN Act |-> 0] /\ silent = 0

Call == Act[k]

-----------------------------------------------------------------------------
(* AsioIface *)

\* kAmountOfTries: SkipLines wants one.
Amount == IF Call.kind = "skip" THEN 1 ELSE Tries

\* async_read_some and CreateTimer.
Begin == rd' = "pending" /\ timer' = "armed" /\ processed' = 0

\* Mutants: the tries of all bytes are counted together; resp is cleared.
ReadOn    == Begin /\ pc' = "io" /\ UNCHANGED <<tryNum, resp>>
ReadClear == Begin /\ pc' = "io" /\ tryNum' = 0 /\ resp' = NoByte

\* Read begins; resp keeps what was read before.
Read == Begin /\ pc' = "io" /\ tryNum' = 0 /\ UNCHANGED resp

\* io_service::run returns.
Quiet == rd = "none" /\ timer = "off"

\* A byte is read off the line.
ByteArrives ==
  /\ rd = "pending" /\ line # <<>>
  /\ rd' = "done" /\ resp' = Head(line) /\ line' = Tail(line)
  /\ UNCHANGED <<caller, timer, tryNum, processed, str, lines, toBoard, timely, silent>>

\* The time is over; a timely board has nothing to say then.
Expire ==
  /\ timer = "armed"
  /\ timely => line = <<>> /\ toBoard = <<>> /\ rd = "pending"
  /\ timer' = "fired"
  /\ UNCHANGED <<caller, rd, tryNum, processed, parser, board, silent>>

\* port.cancel() does not reach a byte whose handler is queued.
TimerHandler ==
  /\ timer \in {"fired", "cancelled"}
  /\ timer' = "off"
  /\ IF timer = "fired"
       THEN /\ tryNum' = tryNum + 1 /\ silent' = silent + 1
            /\ rd' = IF rd = "pending" THEN "aborted" ELSE rd
       ELSE tryNum' = 0 /\ UNCHANGED <<rd, silent>>
  /\ UNCHANGED <<caller, processed, parser, board>>

\* Nor does _timer->cancel() reach a timer whose handler is queued.
ReadHandler ==
  /\ rd \in {"done", "aborted"}
  /\ rd' = "none"
  /\ IF rd = "done"
       THEN processed' = 1 /\ timer' = IF timer = "armed" THEN "cancelled" ELSE timer
       ELSE UNCHANGED <<processed, timer>>
  /\ UNCHANGED <<caller, tryNum, parser, board, silent>>

\* Mutant: after a timeout the byte is read again, even if it has come.
ReadAgainAlways ==
  /\ pc = "io" /\ Quiet
  /\ tryNum < Amount /\ (processed = 0 \/ tryNum > 0)
  /\ Begin
  /\ UNCHANGED <<caller, tryNum, parser, board, silent>>

\* The loop of Read: nothing was read, and there are tries left.
ReadAgain ==
  /\ pc = "io" /\ Quiet
  /\ tryNum < Amount /\ processed = 0
  /\ Begin
  /\ UNCHANGED <<caller, tryNum, parser, board, silent>>

\* Read returns to a call of a kind in K.
Returns(K) == /\ pc = "io" /\ Quiet
              /\ ~(tryNum < Amount /\ processed = 0)
              /\ Call.kind \in K
              /\ silent' = 0
              /\ UNCHANGED board

-----------------------------------------------------------------------------
(* ParseUntil *)

\* Call k is over; the act is, if there is no other or it fails.
Over(fails) ==
  /\ k' = k + 1
  /\ pc' = IF fails \/ k = Len(Act) THEN "done" ELSE "call"

\* Mutants: a line ends with CR, or only with LF.
EndsLineCR(c) == c = "CR" \/ Len(str) > Limit
EndsLineLF(c) == c = "LF"

\* A byte behind the longest line is dropped with it.
EndsLine(c) == c = "LF" \/ Len(str) > Limit

\* Parse(str, wait_for + "(.*)"): the text begins str, or is anywhere in it.
Matches(s) ==
  LET n == Len(Call.text)
      at(i) == i + n - 1 <= Len(s) /\ \A j \in 1 .. n : s[i + j - 1].c = Call.text[j]
  IN  IF Call.anywhere THEN \E i \in DOMAIN s : at(i) ELSE at(1)

\* All tries were in vain, even if a byte came with the last timeout.
Timeout ==
  /\ Returns({"cmd", "until"}) /\ tryNum >= Tries
  /\ failed' = TRUE
  /\ Over(Call.kind = "until")
  /\ UNCHANGED <<heard, reader, parser>>

\* The line goes to FillInSysInfo.
LineEnd ==
  /\ Returns({"cmd", "until"}) /\ tryNum < Tries
  /\ EndsLine(resp.c)
  /\ str' = <<>> /\ Read
  /\ UNCHANGED <<k, failed, heard, lines>>

\* CR is ignored, another character is added to the line.
Character ==
  /\ Returns({"cmd", "until"}) /\ tryNum < Tries
  /\ ~EndsLine(resp.c)
  /\ str' = IF resp.c = "CR" THEN str ELSE Append(str, resp)
  /\ resp.c = "CR" \/ ~Matches(str')
  /\ Read
  /\ UNCHANGED <<k, failed, heard, lines>>

\* The awaited text is there.
Found ==
  /\ Returns({"cmd", "until"}) /\ tryNum < Tries
  /\ ~EndsLine(resp.c) /\ resp.c # "CR"
  /\ str' = Append(str, resp) /\ Matches(str')
  /\ heard' = [heard EXCEPT ![k] = resp.of]
  /\ Over(FALSE)
  /\ UNCHANGED <<failed, reader, resp, lines>>

-----------------------------------------------------------------------------
(* SkipLines and the calls *)

\* Whether a byte was read or not: resp[0] is looked at.
SkipLines ==
  /\ Returns({"skip"})
  /\ lines' = IF resp.c = "CR" THEN lines + 1 ELSE lines
  /\ IF lines' < Call.count
       THEN Read /\ UNCHANGED k
       ELSE Over(FALSE) /\ UNCHANGED <<reader, resp>>
  /\ UNCHANGED <<failed, heard, str>>

\* Mutant: commands are sent after a timeout, too.
SendToAlways ==
  /\ pc = "call" /\ Call.kind = "cmd"
  /\ toBoard' = Append(toBoard, k)
  /\ str' = <<>> /\ Read /\ UNCHANGED k
  /\ silent' = 0
  /\ UNCHANGED <<failed, heard, lines, line, timely>>

\* SendToUBoot, SendToShell: nothing is sent after a timeout.
SendTo ==
  /\ pc = "call" /\ Call.kind = "cmd"
  /\ IF failed
       THEN Over(FALSE) /\ UNCHANGED <<reader, resp, str, toBoard>>
       ELSE /\ toBoard' = Append(toBoard, k)
            /\ str' = <<>> /\ Read /\ UNCHANGED k
  /\ silent' = 0
  /\ UNCHANGED <<failed, heard, lines, line, timely>>

\* SendCmd alone.
SendCmd ==
  /\ pc = "call" /\ Call.kind = "send"
  /\ toBoard' = Append(toBoard, k)
  /\ Over(FALSE)
  /\ UNCHANGED <<failed, heard, reader, parser, line, timely, silent>>

\* ParseUntil and SkipLines begin.
Await ==
  /\ pc = "call" /\ Call.kind \in {"until", "skip"}
  /\ Begin /\ pc' = "io" /\ tryNum' = 0
  /\ str' = <<>> /\ lines' = 0 /\ silent' = 0
  /\ resp' = NoByte
  /\ UNCHANGED <<k, failed, heard, board>>

-----------------------------------------------------------------------------
\* The board hears a command and has something to say.
Answer ==
  /\ toBoard # <<>>
  /\ \E t \in Act[Head(toBoard)].talks :
       line' = line \o [i \in DOMAIN t |-> [c |-> t[i], of |-> Head(toBoard), at |-> i]]
  /\ toBoard' = Tail(toBoard)
  /\ UNCHANGED <<caller, reader, parser, timely, silent>>

-----------------------------------------------------------------------------
Host == \/ TimerHandler \/ ReadHandler \/ ReadAgain
        \/ Timeout \/ LineEnd \/ Character \/ Found
        \/ SkipLines \/ SendTo \/ SendCmd \/ Await

Next == Host \/ ByteArrives \/ Expire \/ Answer

Spec == Init /\ [][Next]_vars

\* The event loop turns, the clock goes on, and the board says what it has to
\* say, in the end: SkipLines waits for it for as long as it takes.
FairSpec == Spec /\ WF_vars(Host) /\ WF_vars(Expire) /\ WF_vars(Answer) /\ SF_vars(ByteArrives)

-----------------------------------------------------------------------------
(* Properties *)

\* The command to which what call i hears is the answer.
Command(i) == CHOOSE j \in 1 .. i : /\ Act[j].kind \in {"cmd", "send"}
                                    /\ \A n \in j + 1 .. i : Act[n].kind \notin {"cmd", "send"}

\* The prompt that ends a command is the one the board says after that command,
\* not the late one of a command before it.
AnswerIsOwn == \A i \in DOMAIN Act : heard[i] # 0 => heard[i] = Command(i)

\* The commands: what the board answers.
IsCommand(j) == Act[j].kind \in {"cmd", "send"}

\* A board that says CR says LF then, if it says more.
LFAfterCR == \A i \in 1 .. Len(Act) : \A t \in Act[i].talks :
               \A j \in 1 .. Len(t) - 1 : t[j] = "CR" => t[j + 1] = "LF"

\* Talk t ends at place m as the text ends that call i waits for.
EndsAs(i, t, m) ==
  LET n == Len(Act[i].text)
  IN  \A d \in 0 .. n - 1 : d < m => t[m - d] = Act[i].text[n - d]

\* ParseUntil may begin a line at place a of t: the first, one behind LF, or one
\* so far behind it that the line became too long.
LineStart(t, a) ==
  \/ a = 1 \/ t[a - 1] = "LF"
  \/ a > Limit + 2 /\ \A d \in 1 .. Limit + 2 : t[a - d] # "LF"

\* The prompt that is awaited after command j is the last that the board says.
Prompted(j) ==
  /\ Act[j].kind = "cmd"
  /\ \A t \in Act[j].talks : \A m \in 1 .. Len(t) :
       LET first == m + 1 - Len(Act[j].text)
       IN  EndsAs(j, t, m) /\ (Act[j].anywhere \/ first < 1 \/ LineStart(t, first)) => m = Len(t)

\* What is answered to command j ends nowhere as the text call i waits for, and
\* its last line is ended.
Foreign(i, j) == \A t \in Act[j].talks : \A m \in 1 .. Len(t) : ~EndsAs(i, t, m)
Closed(j) == \A t \in Act[j].talks : \A a \in 1 .. Len(t) :
               t[a] \notin {"CR", "LF"} => \E b \in a + 1 .. Len(t) : t[b] = "LF"

\* What a call waits for is told from what the commands before its own are
\* answered: it is not in it, or the call is a command's whose prompt was awaited.
AnswersDiffer ==
  \A i \in DOMAIN Act : Act[i].kind \in {"cmd", "until"} =>
    \A j \in 1 .. Command(i) - 1 : IsCommand(j) =>
      \/ Foreign(i, j) /\ (Act[i].kind = "cmd" => Closed(j))
      \/ Act[i].kind = "cmd" /\ Prompted(j)

\* What call i reads is the answer to command j.
Reading(i, j) == IsCommand(j) /\ j <= i /\ \A n \in j + 1 .. i : ~IsCommand(n)

\* The text of call i ends at place b of talk t, in a line behind the LF at q that
\* is not too long, and begins behind place a.
TextAt(i, t, a, b, q) ==
  LET n == Len(Act[i].text)
  IN  /\ b <= Len(t) /\ q >= 1 /\ q <= b - n /\ EndsAs(i, t, b)
      /\ t[q] = "LF" /\ \A m \in q + 1 .. b : t[m] \notin {"CR", "LF"}
      /\ b - q <= Limit + 1
      /\ IF Act[i].anywhere THEN a <= b - n ELSE a <= q /\ q = b - n

\* The CRs of a talk that SkipLines counts from place a to place b, one at each place of p.
LinesAt(i, t, a, b, p) ==
  /\ a < b /\ p \in [1 .. Act[i].count -> a + 1 .. b]
  /\ \A n \in 1 .. Act[i].count : t[p[n]] = "CR" /\ (n > 1 => p[n - 1] < p[n])

\* Call i, which begins when no more of talk t is read than place a, reads no more of
\* it than to place b.
Reads(i, t, a, b) ==
  CASE Act[i].kind = "send" -> TRUE
    [] Act[i].kind = "skip" -> b = Len(t) \/ \E p \in [1 .. Act[i].count -> 1 .. b] : LinesAt(i, t, a, b, p)
    [] OTHER -> \E q \in 1 .. b : TextAt(i, t, a, b, q)

\* The calls that read talk t of command j read no more of it than to these places.
Reaches(j, t, place) ==
  \A i \in DOMAIN Act : Reading(i, j) =>
    place[i] <= Len(t) /\ Reads(i, t, IF i = j THEN 0 ELSE place[i - 1], place[i])

\* Each text that is awaited is said, in a line of its own or in one that is not too
\* long, and none of the calls before reads over it.
TextsSaid ==
  /\ \A i \in DOMAIN Act : Act[i].kind = "until" => \E j \in 1 .. i : IsCommand(j)
  /\ \A j \in DOMAIN Act : IsCommand(j) =>
       \A t \in Act[j].talks : \E place \in [DOMAIN Act -> Nat] : Reaches(j, t, place)

\* Within a line no byte is lost and none is taken twice, whichever handler of
\* AsioIface comes first.
NothingLost ==
  \A i \in 2 .. Len(str) :
    \/ str[i].of = str[i - 1].of /\ str[i].at = str[i - 1].at + 1
    \/ str[i].of > str[i - 1].of /\ str[i].at = 1

\* ParseUntil gives up only when the board was silent for Tries timeouts in a
\* row: however long it speaks, no other timeouts are counted.
FailsAfterSilence ==
  [][failed' /\ ~failed => silent = Tries]_vars

\* A board that answers in time is understood, however long its lines are.
TimelyIsHeard ==
  /\ timely => ~failed
  /\ timely /\ pc = "done" =>
       \A i \in DOMAIN Act : Act[i].kind \in {"cmd", "until"} => heard[i] # 0

\* The act ends, SkipLines included, if the board has said lines enough or ends
\* with CR.
ActEnds == <>(pc = "done")
=============================================================================
