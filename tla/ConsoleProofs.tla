----------------------------- MODULE ConsoleProofs -----------------------------
(***************************************************************************)
(* The console as regiloader reads it, for every act, every number of      *)
(* tries and every length of a line.                                       *)
(*                                                                         *)
(* ParseUntil gives up only after Tries timeouts in a row: in a read the   *)
(* timeouts that are counted are those there were, until the byte has come *)
(* (TryCount).  A byte is taken once, in order: what is read and not yet   *)
(* looked at follows the last byte of the line ParseUntil builds (Built),  *)
(* and the next one on the line follows that (Ordered).                    *)
(*                                                                         *)
(* The prompt that is heard is of the call's own command: the board says a *)
(* talk for each command (Told), whose rest is on the line (Whole); the    *)
(* text ends where that of a byte's talk does (Placed, FoundEnds), and a   *)
(* prompt that was heard leaves nothing of its talk (Consumed), because    *)
(* lines begin in it where they do for the board (Started).                *)
(*                                                                         *)
(* A timely board is understood: of what it says a call leaves what the    *)
(* later calls wait for. What is unread is the rest of a talk, on the line *)
(* or not said yet (Left); in it come the text that is awaited (TextAhead) *)
(* or the lines that are skipped (LinesAhead). So the board always has     *)
(* something to say while a text is awaited, and the timer of a board that *)
(* is not late cannot expire (Punctual).                                   *)
(***************************************************************************)
EXTENDS Console, SequenceTheorems, NaturalsInduction, WellFoundedInduction, TLAPS

-----------------------------------------------------------------------------
(* Types and the tries of a read *)

CallType == /\ k \in 1 .. Len(Act) + 1 /\ pc \in {"call", "io", "done"}
            /\ pc # "done" => k \in 1 .. Len(Act)

FlagType == failed \in BOOLEAN

ReadType == /\ rd \in {"none", "pending", "done", "aborted"}
            /\ timer \in {"off", "armed", "fired", "cancelled"}
            /\ processed \in {0, 1} /\ tryNum \in Nat /\ silent \in Nat

RespType == resp \in Byte \cup {NoByte}

ParseType == str \in Seq(Byte) /\ Len(str) <= Limit + 1 /\ lines \in Nat

BoardType == toBoard \in Seq(DOMAIN Act) /\ line \in Seq(Byte) /\ timely \in BOOLEAN

HeardType == heard \in [DOMAIN Act -> 0 .. Len(Act)]

\* Outside a read no handler is left.
NothingPends == pc # "io" => Quiet

\* In a read a timeout is counted once, and the count is lost with a byte only.
TryCount ==
  /\ silent <= Tries /\ tryNum <= Tries
  /\ pc = "io" =>
       /\ Call.kind # "send"
       /\ timer \in {"armed", "fired"} => tryNum < Amount
       /\ tryNum <= Amount
       /\ silent = tryNum \/ (processed = 1 /\ timer = "off" /\ tryNum = 0 /\ silent <= Amount)
       /\ timer = "cancelled" => processed = 1
       /\ rd = "pending" => timer \in {"armed", "fired"}
       /\ processed = 1 => rd = "none"

\* What is looked at as a byte was read.
ByteRead == pc = "io" /\ (rd = "done" \/ processed = 1) => resp \in Byte

ReadInv == /\ CallType /\ FlagType /\ ReadType /\ RespType /\ ParseType /\ BoardType /\ HeardType
           /\ NothingPends /\ TryCount /\ ByteRead

\* TypeOK is a part of it.
LEMMA ReadInvTypes == ReadInv => TypeOK
<1> SUFFICES ASSUME ReadInv PROVE TypeOK
  OBVIOUS
<1>1. tryNum \in 0 .. Tries /\ silent \in 0 .. Tries /\ processed \in 0 .. 1
  BY ConsoleAssumption DEF ReadInv, ReadType, TryCount
<1> QED
  BY <1>1 DEF ReadInv, CallType, FlagType, ReadType, RespType, ParseType, BoardType, HeardType, TypeOK

\* The calls of an act, and how often one tries.
LEMMA CallIs ==
  /\ Len(Act) \in Nat \ {0} /\ DOMAIN Act = 1 .. Len(Act)
  /\ Tries \in Nat /\ Tries >= 1 /\ Limit \in Nat
  /\ \A i \in 1 .. Len(Act) :
       /\ Act[i].kind \in {"cmd", "send", "until", "skip"} /\ Act[i].count \in Nat
       /\ Act[i].talks \in SUBSET Seq(Chars)
<1>1. Act \in Seq(Calls) /\ Act # <<>>
  BY ConsoleAssumption
<1>2. Len(Act) \in Nat \ {0} /\ DOMAIN Act = 1 .. Len(Act)
  BY <1>1, EmptySeq, LenProperties
<1>3. \A i \in 1 .. Len(Act) : Act[i] \in Calls
  BY <1>1, ElementOfSeq
<1> QED BY <1>2, <1>3, ConsoleAssumption DEF Calls

\* SkipLines tries once, the others Tries times.
LEMMA AmountIs ==
  /\ Amount \in Nat /\ Amount >= 1 /\ Amount <= Tries
  /\ Call.kind # "skip" => Amount = Tries
<1>1. Tries \in Nat /\ Tries >= 1
  BY CallIs
<1> QED BY <1>1 DEF Amount

\* Nothing has been read.
LEMMA InitRead == Init => ReadInv
<1> SUFFICES ASSUME Init PROVE ReadInv
  OBVIOUS
<1>1. k = 1 /\ pc = "call" /\ tryNum = 0 /\ processed = 0 /\ silent = 0 /\ str = <<>> /\ lines = 0
  BY DEF Init
<1>2. CallType
  BY <1>1, CallIs DEF CallType
<1>3. FlagType /\ RespType
  BY DEF Init, FlagType, RespType
<1>4. ReadType
  BY DEF Init, ReadType
<1>5. ParseType
  BY <1>1, CallIs, EmptySeq DEF ParseType
<1>6. BoardType
  <2>1. timely \in BOOLEAN
    BY DEF Init
  <2>2. toBoard = <<>> /\ line = <<>>
    BY DEF Init
  <2> QED BY <2>1, <2>2, EmptySeq DEF BoardType
<1>7. HeardType
  BY CallIs DEF Init, HeardType
<1>8. NothingPends /\ ByteRead
  BY DEF Init, NothingPends, Quiet, ByteRead
<1>9. TryCount
  BY <1>1, CallIs DEF TryCount
<1> QED BY <1>2, <1>3, <1>4, <1>5, <1>6, <1>7, <1>8, <1>9 DEF ReadInv

\* The call that is over is followed by the next, or the act is over.
LEMMA OverIs ==
  ASSUME CallType, pc # "done", NEW fails \in BOOLEAN, Over(fails)
  PROVE  CallType' /\ k' = k + 1 /\ pc' \in {"call", "done"}
<1>1. k \in 1 .. Len(Act) /\ Len(Act) \in Nat
  BY CallIs DEF CallType
<1>2. k' = k + 1 /\ pc' \in {"call", "done"} /\ (pc' # "done" => k # Len(Act))
  BY DEF Over
<1> QED BY <1>1, <1>2 DEF CallType

\* A read that has returned to ParseUntil in time has read a byte.
LEMMA ReturnsByte ==
  ASSUME ReadInv, Returns({"cmd", "until"}), tryNum < Tries
  PROVE  processed = 1 /\ resp \in Byte /\ pc = "io" /\ Quiet
<1>1. pc = "io" /\ Quiet /\ Call.kind # "skip" /\ ~(tryNum < Amount /\ processed = 0)
  BY DEF Returns
<1>2. processed = 1
  BY <1>1, AmountIs DEF ReadInv, ReadType
<1> QED BY <1>1, <1>2 DEF ReadInv, ByteRead

\* The call that is made stays one of the act's.
LEMMA CallTypes == ReadInv /\ [Next]_vars => CallType'
<1> SUFFICES ASSUME ReadInv, [Next]_vars PROVE CallType'
  OBVIOUS
<1>1. CallType /\ (pc = "call" \/ pc = "io" => pc # "done")
  BY DEF ReadInv
<1>2. CASE UNCHANGED <<k, pc>>
  BY <1>1, <1>2 DEF CallType
<1>3. CASE pc # "done" /\ k' = k /\ pc' = "io"
  BY <1>1, <1>3 DEF CallType
<1>4. CASE pc # "done" /\ (Over(TRUE) \/ Over(FALSE))
  BY <1>1, <1>4, OverIs
<1>5. CASE Timeout
  <2>1. pc = "io" /\ (Over(TRUE) \/ Over(FALSE))
    BY <1>5 DEF Timeout, Returns
  <2> QED BY <1>1, <1>4, <2>1
<1>6. CASE LineEnd \/ Character \/ Found \/ SkipLines
  <2>1. pc = "io" /\ ((k' = k /\ pc' = "io") \/ Over(FALSE))
    BY <1>6 DEF LineEnd, Character, Found, SkipLines, Returns, Read
  <2> QED BY <1>1, <1>3, <1>4, <2>1
<1>7. CASE SendTo \/ SendCmd \/ Await
  <2>1. pc = "call" /\ ((k' = k /\ pc' = "io") \/ Over(FALSE))
    BY <1>7 DEF SendTo, SendCmd, Await, Read
  <2> QED BY <1>1, <1>3, <1>4, <2>1
<1>8. CASE TimerHandler \/ ReadHandler \/ ReadAgain \/ ByteArrives \/ Expire \/ Answer \/ UNCHANGED vars
  <2>1. UNCHANGED <<k, pc>>
    BY <1>8 DEF TimerHandler, ReadHandler, ReadAgain, ByteArrives, Expire, Answer, vars, caller
  <2> QED BY <1>2, <2>1
<1> QED BY <1>5, <1>6, <1>7, <1>8 DEF Next, Host

\* A timeout of ParseUntil sets the flag, and nothing clears it.
LEMMA FlagTypes == ReadInv /\ [Next]_vars => FlagType'
<1> SUFFICES ASSUME FlagType, [Next]_vars PROVE FlagType'
  BY DEF ReadInv
<1>1. failed' = failed \/ failed' = TRUE
  BY DEF Next, Host, TimerHandler, ReadHandler, ReadAgain, Timeout, LineEnd, Character, Found, SkipLines,
         SendTo, SendCmd, Await, ByteArrives, Expire, Answer, vars, caller
<1> QED BY <1>1 DEF FlagType

\* The operations keep their states and the counters count.
LEMMA ReadTypes == ReadInv /\ [Next]_vars => ReadType'
<1> SUFFICES ASSUME ReadType, [Next]_vars PROVE ReadType'
  BY DEF ReadInv
<1>1. CASE TimerHandler
  BY <1>1 DEF TimerHandler, ReadType
<1>2. CASE ReadHandler
  BY <1>2 DEF ReadHandler, ReadType
<1>3. CASE ReadAgain
  BY <1>3 DEF ReadAgain, Begin, ReadType
<1>4. CASE ByteArrives \/ Expire
  BY <1>4 DEF ByteArrives, Expire, ReadType
<1>5. CASE Timeout \/ LineEnd \/ Character \/ Found \/ SkipLines \/ SendTo \/ SendCmd \/ Await
  <2>1. /\ UNCHANGED reader \/ (Begin /\ tryNum' = 0)
        /\ silent' = 0 \/ silent' = silent
    BY <1>5
       DEF Timeout, LineEnd, Character, Found, SkipLines, SendTo, SendCmd, Await, Returns, Read
  <2> QED BY <2>1 DEF Begin, reader, ReadType
<1>6. CASE UNCHANGED <<reader, silent>>
  BY <1>6 DEF ReadType, reader
<1> QED BY <1>1, <1>2, <1>3, <1>4, <1>5, <1>6 DEF Next, Host, Answer, vars

\* A byte is one that the board has said, or none.
LEMMA RespTypes == ReadInv /\ [Next]_vars => RespType'
<1> SUFFICES ASSUME ReadInv, [Next]_vars PROVE RespType'
  OBVIOUS
<1>1. RespType
  BY DEF ReadInv
<1>2. CASE ByteArrives
  BY <1>2, HeadTailProperties DEF ByteArrives, ReadInv, BoardType, RespType
<1>3. CASE Await
  BY <1>3 DEF Await, RespType
<1>4. CASE UNCHANGED resp
  BY <1>1, <1>4 DEF RespType
<1> QED
  BY <1>2, <1>3, <1>4
     DEF Next, Host, TimerHandler, ReadHandler, ReadAgain, Timeout, LineEnd, Character, Found, SkipLines,
         SendTo, SendCmd, Expire, Answer, Read, vars, parser

\* A line is no longer than its bound and the byte that goes beyond it.
LEMMA ParseTypes == ReadInv /\ [Next]_vars => ParseType'
<1> SUFFICES ASSUME ReadInv, [Next]_vars PROVE ParseType'
  OBVIOUS
<1>1. /\ str \in Seq(Byte) /\ Len(str) \in Nat /\ Len(str) <= Limit + 1 /\ lines \in Nat
      /\ Limit \in Nat /\ <<>> \in Seq(Byte) /\ Len(<<>>) = 0
  BY CallIs, LenProperties, EmptySeq DEF ReadInv, ParseType
<1>2. CASE Character \/ Found
  <2>1. /\ ~EndsLine(resp.c) /\ (str' = str \/ str' = Append(str, resp)) /\ lines' = lines
        /\ Returns({"cmd", "until"}) /\ tryNum < Tries
    BY <1>2 DEF Character, Found
  <2>2. Len(str) <= Limit /\ resp \in Byte
    BY <1>1, <2>1, ReturnsByte DEF EndsLine
  <2> QED BY <1>1, <2>1, <2>2, AppendProperties DEF ParseType
<1>3. CASE LineEnd \/ SendTo \/ Await
  <2>1. (str' = <<>> \/ str' = str) /\ (lines' = lines \/ lines' = 0)
    BY <1>3 DEF LineEnd, SendTo, Await
  <2>2. lines' \in Nat
    BY <1>1, <2>1
  <2>3. 0 <= Limit + 1
    BY <1>1
  <2>4. str' \in Seq(Byte) /\ Len(str') <= Limit + 1
    BY <1>1, <2>1, <2>3
  <2> QED BY <2>2, <2>4 DEF ParseType
<1>4. CASE SkipLines
  <2>1. str' = str /\ (lines' = lines \/ lines' = lines + 1)
    BY <1>4 DEF SkipLines
  <2> QED BY <1>1, <2>1 DEF ParseType
<1>5. CASE UNCHANGED <<str, lines>>
  BY <1>1, <1>5 DEF ParseType
<1> QED
  BY <1>2, <1>3, <1>4, <1>5
     DEF Next, Host, TimerHandler, ReadHandler, ReadAgain, Timeout, SendCmd, ByteArrives, Expire,
         Answer, vars, parser

Talk(t, i) == [j \in DOMAIN t |-> [c |-> t[j], of |-> i, at |-> j]]

\* A talk is a sequence of bytes, from the first on.
LEMMA TalkIs ==
  ASSUME NEW t \in Seq(Chars), NEW i \in DOMAIN Act
  PROVE  /\ Talk(t, i) \in Seq(Byte) /\ Len(Talk(t, i)) = Len(t) /\ Len(t) \in Nat
         /\ \A j \in 1 .. Len(t) : Talk(t, i)[j] = [c |-> t[j], of |-> i, at |-> j]
<1>1. Len(t) \in Nat /\ DOMAIN t = 1 .. Len(t) /\ \A j \in 1 .. Len(t) : t[j] \in Chars
  BY LenProperties, ElementOfSeq
<1>2. DOMAIN Talk(t, i) = 1 .. Len(t)
      /\ \A j \in 1 .. Len(t) : Talk(t, i)[j] = [c |-> t[j], of |-> i, at |-> j]
  BY <1>1 DEF Talk
<1>3. \A j \in 1 .. Len(t) : [c |-> t[j], of |-> i, at |-> j] \in Byte
  BY <1>1 DEF Byte
<1>4. Talk(t, i) \in [1 .. Len(t) -> Byte]
  BY <1>1, <1>2, <1>3 DEF Talk
<1> QED BY <1>1, <1>2, <1>4

\* What the board has to say for a command is one of its talks.
LEMMA AnswerIs ==
  ASSUME BoardType, Answer
  PROVE  /\ toBoard # <<>> /\ toBoard' = Tail(toBoard) /\ Head(toBoard) \in DOMAIN Act
         /\ \E t \in Seq(Chars) : /\ t \in Act[Head(toBoard)].talks
                                  /\ line' = line \o Talk(t, Head(toBoard))
         /\ UNCHANGED <<caller, reader, parser, timely, silent>>
<1>1. toBoard # <<>> /\ toBoard' = Tail(toBoard) /\ UNCHANGED <<caller, reader, parser, timely, silent>>
  BY DEF Answer
<1>2. Head(toBoard) \in DOMAIN Act
  BY <1>1, HeadTailProperties DEF BoardType
<1>3. Act[Head(toBoard)].talks \subseteq Seq(Chars)
  BY <1>2, CallIs
<1> QED BY <1>1, <1>2, <1>3 DEF Answer, Talk

\* The board hears of calls of the act and says bytes.
LEMMA BoardTypes == ReadInv /\ [Next]_vars => BoardType'
<1> SUFFICES ASSUME ReadInv, [Next]_vars PROVE BoardType'
  OBVIOUS
<1>1. BoardType
  BY DEF ReadInv
<1>2. CASE SendTo \/ SendCmd
  <2>1. pc = "call" /\ (toBoard' = toBoard \/ toBoard' = Append(toBoard, k)) /\ UNCHANGED <<line, timely>>
    BY <1>2 DEF SendTo, SendCmd
  <2>2. k \in DOMAIN Act
    BY <2>1, CallIs DEF ReadInv, CallType
  <2> QED BY <1>1, <2>1, <2>2, AppendProperties DEF BoardType
<1>3. CASE ByteArrives
  BY <1>1, <1>3, HeadTailProperties DEF ByteArrives, BoardType
<1>4. CASE Answer
  <2>1. PICK t \in Seq(Chars) : line' = line \o Talk(t, Head(toBoard))
    BY <1>1, <1>4, AnswerIs
  <2>2. Talk(t, Head(toBoard)) \in Seq(Byte)
    BY <1>1, <1>4, AnswerIs, TalkIs
  <2>3. line' \in Seq(Byte)
    BY <1>1, <2>1, <2>2, ConcatProperties DEF BoardType
  <2> QED BY <1>1, <1>4, <2>3, AnswerIs, HeadTailProperties DEF BoardType
<1>5. CASE UNCHANGED board
  BY <1>1, <1>5 DEF BoardType, board
<1> QED
  BY <1>2, <1>3, <1>4, <1>5
     DEF Next, Host, TimerHandler, ReadHandler, ReadAgain, Timeout, LineEnd, Character, Found, SkipLines,
         Await, Expire, Returns, vars

\* What is heard is of a talk of the act.
LEMMA HeardTypes == ReadInv /\ [Next]_vars => HeardType'
<1> SUFFICES ASSUME ReadInv, [Next]_vars PROVE HeardType'
  OBVIOUS
<1>1. HeardType
  BY DEF ReadInv
<1>2. CASE Found
  <2>1. heard' = [heard EXCEPT ![k] = resp.of]
    BY <1>2 DEF Found
  <2>2. resp \in Byte
    BY <1>2, ReturnsByte DEF Found
  <2>3. resp.of \in 0 .. Len(Act)
    BY <2>2, CallIs DEF Byte
  <2> QED BY <1>1, <2>1, <2>3 DEF HeardType
<1>3. CASE UNCHANGED heard
  BY <1>1, <1>3 DEF HeardType
<1> QED
  BY <1>2, <1>3
     DEF Next, Host, TimerHandler, ReadHandler, ReadAgain, Timeout, LineEnd, Character, SkipLines,
         SendTo, SendCmd, Await, ByteArrives, Expire, Answer, vars, caller

\* A read that is over has left no handler behind.
LEMMA NextPends == ReadInv /\ [Next]_vars => NothingPends'
<1> SUFFICES ASSUME ReadInv, [Next]_vars PROVE NothingPends'
  OBVIOUS
<1> USE DEF NothingPends, Quiet
<1>1. pc # "io" => rd = "none" /\ timer = "off"
  BY DEF ReadInv
<1>2. CASE TimerHandler \/ ReadHandler
  BY <1>1, <1>2 DEF TimerHandler, ReadHandler, caller
<1>3. CASE ReadAgain \/ ByteArrives \/ Expire
  BY <1>1, <1>3 DEF ReadAgain, ByteArrives, Expire, caller
<1>4. CASE Timeout \/ Found
  BY <1>4 DEF Timeout, Found, Returns, reader
<1>5. CASE LineEnd \/ Character \/ SkipLines
  <2>1. pc' = "io" \/ (UNCHANGED reader /\ Quiet)
    BY <1>5 DEF LineEnd, Character, SkipLines, Read, Returns
  <2> QED BY <2>1 DEF reader
<1>6. CASE SendTo \/ SendCmd \/ Await
  <2>1. pc' = "io" \/ (UNCHANGED reader /\ pc = "call")
    BY <1>6 DEF SendTo, SendCmd, Await, Read
  <2> QED BY <1>1, <2>1 DEF reader
<1>7. CASE UNCHANGED <<pc, reader>>
  BY <1>1, <1>7 DEF reader
<1> QED
  BY <1>2, <1>3, <1>4, <1>5, <1>6, <1>7 DEF Next, Host, Answer, vars, caller

\* A new read has counted nothing.
LEMMA ReadCountsNone ==
  ASSUME Begin, tryNum' = 0, silent' = 0, (Call.kind # "send")'
  PROVE  TryCount'
<1>1. 0 <= Tries
  BY CallIs
<1>2. Amount' \in Nat /\ 0 < Amount'
  BY <1>1, CallIs DEF Amount
<1> QED BY <1>1, <1>2 DEF Begin, TryCount

\* Every timeout of a read is counted, and it ends with the last that counts.
LEMMA NextTries == ReadInv /\ [Next]_vars => TryCount'
<1> SUFFICES ASSUME ReadInv, [Next]_vars PROVE TryCount'
  OBVIOUS
<1>1. /\ TryCount /\ ReadType /\ (pc # "io" => rd = "none" /\ timer = "off")
      /\ Tries \in Nat /\ Tries >= 1 /\ Amount \in Nat /\ Amount >= 1 /\ Amount <= Tries
  BY AmountIs, CallIs DEF ReadInv, NothingPends, Quiet
<1>2. CASE TimerHandler
  <2>1. /\ timer \in {"fired", "cancelled"} /\ timer' = "off" /\ processed' = processed
        /\ UNCHANGED <<k, pc>> /\ Amount' = Amount /\ Call' = Call /\ pc = "io"
        /\ rd' = rd \/ rd' = "aborted"
    BY <1>1, <1>2 DEF TimerHandler, caller, Amount, Call
  <2>2. CASE timer = "fired"
    <3>1. tryNum' = tryNum + 1 /\ silent' = silent + 1 /\ tryNum < Amount /\ silent = tryNum
      BY <1>1, <1>2, <2>1, <2>2 DEF TimerHandler, TryCount
    <3>2. (processed' = 1 => rd' = "none") /\ rd' # "pending"
      BY <1>1, <1>2, <2>1, <2>2 DEF TimerHandler, TryCount
    <3>3. tryNum' <= Amount /\ tryNum' <= Tries /\ silent' = tryNum'
      BY <1>1, <3>1 DEF ReadType
    <3>4. Call.kind # "send"
      BY <1>1, <2>1 DEF TryCount
    <3> QED BY <2>1, <3>2, <3>3, <3>4 DEF TryCount
  <2>3. CASE timer = "cancelled"
    <3>1. tryNum' = 0 /\ silent' = silent /\ rd' = rd /\ processed = 1 /\ silent = tryNum
      BY <1>1, <1>2, <2>1, <2>3 DEF TimerHandler, TryCount
    <3>2. rd = "none" /\ silent <= Amount /\ Call.kind # "send" /\ silent <= Tries
      BY <1>1, <2>1, <3>1 DEF TryCount
    <3> QED BY <1>1, <2>1, <3>1, <3>2 DEF TryCount
  <2> QED BY <2>1, <2>2, <2>3
<1>3. CASE ReadHandler
  <2>1. /\ rd \in {"done", "aborted"} /\ rd' = "none" /\ UNCHANGED <<k, pc, tryNum, silent>>
        /\ Amount' = Amount /\ Call' = Call /\ pc = "io"
    BY <1>1, <1>3 DEF ReadHandler, caller, Amount, Call
  <2>2. processed # 1 /\ silent = tryNum
    BY <1>1, <2>1 DEF TryCount
  <2>3. /\ timer' = timer \/ (timer' = "cancelled" /\ processed' = 1)
        /\ timer' = "cancelled" => timer = "cancelled" \/ processed' = 1
    BY <1>3 DEF ReadHandler
  <2>4. timer # "cancelled"
    BY <1>1, <2>1, <2>2 DEF TryCount
  <2> QED BY <1>1, <2>1, <2>2, <2>3, <2>4 DEF TryCount
<1>4. CASE ReadAgain
  <2>1. /\ pc = "io" /\ tryNum < Amount /\ processed = 0 /\ UNCHANGED <<k, pc, tryNum, silent>>
        /\ rd' = "pending" /\ timer' = "armed" /\ processed' = 0 /\ Amount' = Amount /\ Call' = Call
    BY <1>4 DEF ReadAgain, Begin, caller, Amount, Call
  <2> QED BY <1>1, <2>1 DEF TryCount
<1>5. CASE ByteArrives
  <2>1. /\ rd' = "done" /\ rd = "pending" /\ UNCHANGED <<k, pc, tryNum, silent, timer, processed>>
        /\ Amount' = Amount /\ Call' = Call
    BY <1>5 DEF ByteArrives, caller, Amount, Call
  <2> QED BY <1>1, <2>1 DEF TryCount
<1>6. CASE Expire
  <2>1. /\ timer = "armed" /\ timer' = "fired" /\ UNCHANGED <<k, pc, tryNum, silent, rd, processed>>
        /\ Amount' = Amount /\ Call' = Call
    BY <1>6 DEF Expire, caller, Amount, Call
  <2> QED BY <1>1, <2>1 DEF TryCount
<1>7. CASE pc' # "io" /\ (silent' = 0 \/ silent' = silent) /\ (tryNum' = 0 \/ tryNum' = tryNum)
  BY <1>1, <1>7 DEF TryCount
<1>8. CASE Timeout \/ Found \/ SendCmd
  <2>1. pc' # "io" /\ (silent' = 0 \/ silent' = silent) /\ tryNum' = tryNum
    BY <1>8 DEF Timeout, Found, SendCmd, Over, Returns, reader
  <2> QED BY <1>7, <2>1
<1>9. CASE LineEnd \/ Character
  <2>1. Begin /\ tryNum' = 0 /\ silent' = 0 /\ k' = k /\ Call.kind # "send"
    BY <1>9 DEF LineEnd, Character, Read, Returns
  <2>2. Call' = Call
    BY <2>1 DEF Call
  <2> QED BY <2>1, <2>2, ReadCountsNone
<1>10. CASE SkipLines \/ SendTo \/ Await
  <2>1. /\ silent' = 0 /\ Call.kind # "send"
        /\ \/ Begin /\ tryNum' = 0 /\ k' = k
           \/ pc' # "io" /\ tryNum' = tryNum
    BY <1>10 DEF SkipLines, SendTo, Await, Returns, Read, Over, reader
  <2>2. k' = k => Call' = Call
    BY DEF Call
  <2> QED BY <1>7, <2>1, <2>2, ReadCountsNone
<1>11. CASE UNCHANGED <<k, pc, reader, silent>>
  <2>1. Amount' = Amount /\ Call' = Call
    BY <1>11 DEF Amount, Call
  <2> QED BY <1>1, <1>11, <2>1 DEF TryCount, reader
<1> QED
  BY <1>2, <1>3, <1>4, <1>5, <1>6, <1>8, <1>9, <1>10, <1>11 DEF Next, Host, Answer, vars, caller

\* A byte that is looked at has been read, since its read began.
LEMMA NextByteRead == ReadInv /\ [Next]_vars => ByteRead'
<1> SUFFICES ASSUME ReadInv, [Next]_vars PROVE ByteRead'
  OBVIOUS
<1>1. ByteRead /\ NothingPends
  BY DEF ReadInv
<1>2. CASE ByteArrives
  <2>1. resp' \in Byte
    BY <1>2, HeadTailProperties DEF ByteArrives, ReadInv, BoardType
  <2> QED BY <2>1 DEF ByteRead
<1>3. CASE ReadHandler \/ TimerHandler \/ Expire
  <2>1. /\ UNCHANGED <<resp, pc>> /\ (rd' = "done" => rd = "done")
        /\ processed' = 1 => processed = 1 \/ rd = "done"
    BY <1>3 DEF ReadHandler, TimerHandler, Expire, parser, caller
  <2> QED BY <1>1, <2>1 DEF ByteRead
<1>4. CASE ReadAgain \/ LineEnd \/ Character \/ SendTo \/ SkipLines \/ Await
  <2>1. (rd' = "pending" /\ processed' = 0) \/ pc' # "io"
    BY <1>4 DEF ReadAgain, LineEnd, Character, SendTo, SkipLines, Await, Read, Begin, Over
  <2> QED BY <2>1 DEF ByteRead
<1>5. CASE Timeout \/ Found \/ SendCmd
  <2>1. pc' # "io"
    BY <1>5 DEF Timeout, Found, SendCmd, Over
  <2> QED BY <2>1 DEF ByteRead
<1>6. CASE UNCHANGED <<resp, pc, reader>>
  BY <1>1, <1>6 DEF ByteRead, reader
<1> QED
  BY <1>2, <1>3, <1>4, <1>5, <1>6 DEF Next, Host, Answer, vars, caller, parser

\* The inductive invariant of a read.
THEOREM ReadInvariant == Spec => []ReadInv
<1>1. ReadInv /\ [Next]_vars => ReadInv'
  BY CallTypes, FlagTypes, ReadTypes, RespTypes, ParseTypes, BoardTypes, HeardTypes, NextPends, NextTries,
     NextByteRead DEF ReadInv
<1> QED BY InitRead, <1>1, PTL DEF Spec

\* Every variable keeps its type: a line never grows longer than ParseUntil takes.
THEOREM TypeCorrect == Spec => []TypeOK
  BY ReadInvariant, ReadInvTypes, PTL

\* ParseUntil gives up only after Tries timeouts in a row.
THEOREM SilenceIsCounted == Spec => FailsAfterSilence
<1>1. ReadInv /\ [Next]_vars => [failed' /\ ~failed => silent = Tries]_vars
  <2> SUFFICES ASSUME ReadInv, [Next]_vars, failed', ~failed PROVE silent = Tries
    OBVIOUS
  <2>1. CASE Timeout
    <3>1. pc = "io" /\ Call.kind # "skip" /\ tryNum >= Tries
      BY <2>1 DEF Timeout, Returns
    <3>2. Amount = Tries /\ Tries \in Nat /\ Tries >= 1
      BY <3>1, AmountIs, CallIs
    <3> QED BY <3>1, <3>2 DEF ReadInv, TryCount, ReadType
  <2>2. CASE UNCHANGED failed
    BY <2>2
  <2> QED
    BY <2>1, <2>2
       DEF Next, Host, TimerHandler, ReadHandler, ReadAgain, LineEnd, Character, Found, SkipLines,
           SendTo, SendCmd, Await, ByteArrives, Expire, Answer, vars, caller
<1> QED BY <1>1, ReadInvariant, PTL DEF Spec, FailsAfterSilence

-----------------------------------------------------------------------------
(* The order of the bytes *)

\* Byte b is the one after a: of the same talk, or the first of a later one.
Follows(a, b) == \/ b.of = a.of /\ b.at = a.at + 1
                 \/ b.of > a.of /\ b.at = 1

\* And ends the line, if a was a CR of the same talk.
Succeeds(a, b) == Follows(a, b) /\ (a.c = "CR" /\ b.of = a.of => b.c = "LF")

\* The last call that a byte or a command can be of.
Newest == IF pc = "call" THEN k - 1 ELSE k

\* Commands are answered in order, and talks are said one after the other.
Ordered ==
  /\ \A i \in 1 .. Len(line) - 1 : Succeeds(line[i], line[i + 1])
  /\ line # <<>> /\ resp # NoByte => Succeeds(resp, line[1])
  /\ \A i \in 1 .. Len(toBoard) - 1 : toBoard[i] < toBoard[i + 1]
  /\ toBoard # <<>> => /\ resp.of < toBoard[1]
                       /\ \A i \in 1 .. Len(line) : line[i].of < toBoard[1]
  /\ \A i \in 1 .. Len(toBoard) : toBoard[i] <= Newest
  /\ \A i \in 1 .. Len(line) : line[i].of <= Newest
  /\ resp.of <= Newest

\* A byte is read and not yet looked at.
Fresh == rd = "done" \/ processed = 1

\* What was read last belongs to the line that is built, or ends it.
Built ==
  /\ pc = "io" /\ str # <<>> =>
       IF Fresh THEN Follows(str[Len(str)], resp) \/ resp.c = "LF"
       ELSE resp # NoByte /\ (resp = str[Len(str)] \/ (resp.c = "CR" /\ resp.of >= str[Len(str)].of))
  /\ pc = "io" /\ Call.kind = "skip" => str = <<>>

\* NothingLost, byte by byte.
StrOrdered == \A i \in 1 .. Len(str) - 1 : Follows(str[i], str[i + 1])

OrderInv == ReadInv /\ Ordered /\ Built /\ StrOrdered

\* The property follows.
LEMMA OrderInvNothingLost == OrderInv => NothingLost
<1> SUFFICES ASSUME OrderInv, NEW i \in 2 .. Len(str)
             PROVE  \/ str[i].of = str[i - 1].of /\ str[i].at = str[i - 1].at + 1
                    \/ str[i].of > str[i - 1].of /\ str[i].at = 1
  BY DEF NothingLost
<1>1. Len(str) \in Nat
  BY LenProperties DEF OrderInv, ReadInv, ParseType
<1>2. i - 1 \in 1 .. Len(str) - 1 /\ (i - 1) + 1 = i
  BY <1>1
<1>3. Follows(str[i - 1], str[(i - 1) + 1])
  BY <1>2 DEF OrderInv, StrOrdered
<1> QED BY <1>2, <1>3 DEF Follows

\* Nothing has been said.
LEMMA InitOrder == Init => Ordered /\ Built /\ StrOrdered
<1> SUFFICES ASSUME Init PROVE Ordered /\ Built /\ StrOrdered
  OBVIOUS
<1>1. line = <<>> /\ toBoard = <<>> /\ str = <<>> /\ resp = NoByte /\ k = 1 /\ pc = "call" /\ Len(<<>>) = 0
  BY EmptySeq DEF Init
<1>2. resp.of = 0
  BY <1>1 DEF NoByte
<1>3. Ordered
  BY <1>1, <1>2 DEF Ordered, Newest
<1> QED BY <1>1, <1>3 DEF Built, StrOrdered

\* Numbers and sequences of a state.
LEMMA OrderFacts ==
  ASSUME ReadInv
  PROVE  /\ Len(line) \in Nat /\ Len(toBoard) \in Nat /\ Len(str) \in Nat
         /\ (line = <<>> <=> Len(line) = 0) /\ (toBoard = <<>> <=> Len(toBoard) = 0)
         /\ (str = <<>> <=> Len(str) = 0)
         /\ \A i \in 1 .. Len(line) : line[i] \in Byte
         /\ \A i \in 1 .. Len(str) : str[i] \in Byte
         /\ \A i \in 1 .. Len(toBoard) : toBoard[i] \in Nat /\ toBoard[i] >= 1
         /\ \A b \in Byte : b.of \in Nat /\ b.of >= 1 /\ b.at \in Nat /\ b # NoByte
         /\ resp.of \in Nat /\ (resp = NoByte => resp.of = 0)
         /\ k \in Nat /\ Newest \in Nat
<1>1. line \in Seq(Byte) /\ str \in Seq(Byte) /\ toBoard \in Seq(DOMAIN Act)
  BY DEF ReadInv, BoardType, ParseType
<1>2. \A b \in Byte : b.of \in Nat /\ b.of >= 1 /\ b.at \in Nat /\ b # NoByte
  BY CallIs DEF Byte, NoByte
<1>3. \A i \in 1 .. Len(line) : line[i] \in Byte
  BY <1>1, ElementOfSeq
<1>4. \A i \in 1 .. Len(str) : str[i] \in Byte
  BY <1>1, ElementOfSeq
<1>5. \A i \in 1 .. Len(toBoard) : toBoard[i] \in DOMAIN Act
  BY <1>1, ElementOfSeq
<1>6. \A i \in 1 .. Len(toBoard) : toBoard[i] \in Nat /\ toBoard[i] >= 1
  BY <1>5, CallIs
<1>7. resp.of \in Nat /\ (resp = NoByte => resp.of = 0)
  <2>1. resp = NoByte => resp.of = 0
    BY DEF NoByte
  <2> QED BY <1>2, <2>1 DEF ReadInv, RespType
<1>8. k \in Nat /\ Newest \in Nat
  BY CallIs DEF ReadInv, CallType, Newest
<1> QED BY <1>1, <1>2, <1>3, <1>4, <1>6, <1>7, <1>8, EmptySeq, LenProperties

\* The bytes that are on their way stay in order when nobody reads or writes.
LEMMA OrderKept ==
  ASSUME ReadInv, Ordered, UNCHANGED <<line, toBoard>>, resp' = resp \/ resp' = NoByte,
         Newest' \in Nat, Newest <= Newest'
  PROVE  Ordered'
<1>1. NoByte.of = 0
  BY DEF NoByte
<1>2. resp'.of = resp.of \/ resp'.of = 0
  BY <1>1
<1> QED BY <1>1, <1>2, OrderFacts, SMTT(30) DEF Ordered

\* Newest grows with the calls.
LEMMA NewestGrows == ReadInv /\ [Next]_vars => Newest' \in Nat /\ Newest <= Newest'
<1> SUFFICES ASSUME ReadInv, [Next]_vars PROVE Newest' \in Nat /\ Newest <= Newest'
  OBVIOUS
<1>1. k \in Nat /\ k >= 1
  BY CallIs DEF ReadInv, CallType
<1>2. CASE k' = k + 1
  BY <1>1, <1>2 DEF Newest
<1>3. CASE k' = k /\ (pc' = pc \/ pc' = "io")
  BY <1>1, <1>3 DEF Newest
<1>4. CASE Timeout \/ LineEnd \/ Character \/ Found \/ SkipLines \/ SendTo \/ SendCmd \/ Await
  BY <1>2, <1>3, <1>4
     DEF Timeout, LineEnd, Character, Found, SkipLines, SendTo, SendCmd, Await, Over, Read
<1>5. CASE UNCHANGED <<k, pc>>
  BY <1>3, <1>5
<1> QED
  BY <1>4, <1>5
     DEF Next, Host, TimerHandler, ReadHandler, ReadAgain, ByteArrives, Expire, Answer, vars, caller

\* The next byte is taken off the line.
LEMMA OrderByte == OrderInv /\ ByteArrives => Ordered'
<1> SUFFICES ASSUME OrderInv, ByteArrives PROVE Ordered'
  OBVIOUS
<1>1. /\ line # <<>> /\ resp' = Head(line) /\ line' = Tail(line) /\ UNCHANGED <<toBoard, k, pc>>
  BY DEF ByteArrives, caller
<1>2. /\ Len(line') = Len(line) - 1 /\ \A i \in 1 .. Len(line) - 1 : line'[i] = line[i + 1]
      /\ resp' = line[1] /\ Len(line) \in Nat /\ Len(line) >= 1 /\ Newest' = Newest
      /\ line' # <<>> => Len(line) >= 2
  <2>1. line \in Seq(Byte) /\ Len(line) \in Nat /\ Len(line) >= 1
    BY <1>1, OrderFacts DEF OrderInv, ReadInv, BoardType
  <2>2. Tail(line) \in Seq(Byte) /\ Len(Tail(line)) = Len(line) - 1
    BY <1>1, <2>1, HeadTailProperties
  <2>3. line' # <<>> => Len(line) >= 2
    BY <1>1, <2>1, <2>2, EmptySeq
  <2> QED BY <1>1, <2>1, <2>3, HeadTailProperties DEF Newest
<1>3. \A i \in 1 .. Len(line') - 1 : Succeeds(line'[i], line'[i + 1])
  <2> SUFFICES ASSUME NEW i \in 1 .. Len(line') - 1 PROVE Succeeds(line'[i], line'[i + 1])
    OBVIOUS
  <2>1. i \in 1 .. Len(line) - 1 /\ i + 1 \in 1 .. Len(line) - 1 /\ line'[i] = line[i + 1]
        /\ line'[i + 1] = line[(i + 1) + 1]
    BY <1>2
  <2> QED BY <2>1 DEF OrderInv, Ordered
<1>4. line' # <<>> => Succeeds(resp', line'[1])
  <2>1. line' # <<>> => 1 \in 1 .. Len(line) - 1
    BY <1>2
  <2> QED BY <1>2, <2>1 DEF OrderInv, Ordered
<1>5. /\ \A i \in 1 .. Len(line') : i + 1 \in 1 .. Len(line) /\ line'[i] = line[i + 1]
      /\ 1 \in 1 .. Len(line)
  BY <1>2
<1> QED BY <1>1, <1>2, <1>3, <1>4, <1>5 DEF OrderInv, Ordered

\* A command is the newest of all.
LEMMA OrderCommand ==
  ASSUME OrderInv, pc = "call", k' = k + 1 \/ (k' = k /\ pc' = "io"), toBoard' = Append(toBoard, k),
         UNCHANGED <<line, resp>>
  PROVE  Ordered'
<1>1. k \in DOMAIN Act /\ k \in Nat /\ Newest = k - 1
  BY CallIs DEF OrderInv, ReadInv, CallType, Newest
<1>2. Newest' \in Nat /\ Newest' >= k
  BY <1>1 DEF Newest
<1>3. /\ Len(toBoard') = Len(toBoard) + 1 /\ toBoard'[Len(toBoard) + 1] = k
      /\ \A i \in 1 .. Len(toBoard) : toBoard'[i] = toBoard[i]
  BY <1>1, AppendProperties DEF OrderInv, ReadInv, BoardType
<1>4. /\ resp.of < k /\ \A i \in 1 .. Len(line) : line[i].of < k
      /\ \A i \in 1 .. Len(toBoard) : toBoard[i] < k
  <2>1. /\ resp.of <= Newest /\ \A i \in 1 .. Len(line) : line[i].of <= Newest
        /\ \A i \in 1 .. Len(toBoard) : toBoard[i] <= Newest
    BY DEF OrderInv, Ordered
  <2>2. /\ resp.of \in Nat /\ \A i \in 1 .. Len(line) : line[i].of \in Nat
        /\ \A i \in 1 .. Len(toBoard) : toBoard[i] \in Nat
    BY OrderFacts DEF OrderInv
  <2>3. \A n \in Nat : n <= Newest => n < k
    BY <1>1
  <2> QED BY <2>1, <2>2, <2>3
<1>5. Len(toBoard) \in Nat /\ (toBoard # <<>> => Len(toBoard) >= 1) /\ (toBoard = <<>> => Len(toBoard) = 0)
  BY OrderFacts DEF OrderInv
<1>6. \A i \in 1 .. Len(toBoard') - 1 : toBoard'[i] < toBoard'[i + 1]
  <2> SUFFICES ASSUME NEW i \in 1 .. Len(toBoard') - 1 PROVE toBoard'[i] < toBoard'[i + 1]
    OBVIOUS
  <2>1. CASE i = Len(toBoard)
    BY <1>3, <1>4, <1>5, <2>1
  <2>2. CASE i # Len(toBoard)
    <3>1. i \in 1 .. Len(toBoard) - 1 /\ i + 1 \in 1 .. Len(toBoard) /\ i \in 1 .. Len(toBoard)
      BY <1>3, <1>5, <2>2
    <3> QED BY <1>3, <3>1 DEF OrderInv, Ordered
  <2> QED BY <2>1, <2>2
<1>7. resp.of < toBoard'[1] /\ \A i \in 1 .. Len(line) : line[i].of < toBoard'[1]
  <2>1. CASE toBoard = <<>>
    BY <1>3, <1>4, <1>5, <2>1
  <2>2. CASE toBoard # <<>>
    <3>1. 1 \in 1 .. Len(toBoard)
      BY <1>5, <2>2
    <3> QED BY <1>3, <2>2, <3>1 DEF OrderInv, Ordered
  <2> QED BY <2>1, <2>2
<1>8. \A i \in 1 .. Len(toBoard') : toBoard'[i] <= Newest'
  <2> SUFFICES ASSUME NEW i \in 1 .. Len(toBoard') PROVE toBoard'[i] <= Newest'
    OBVIOUS
  <2>1. i = Len(toBoard) + 1 \/ i \in 1 .. Len(toBoard)
    BY <1>3, <1>5
  <2> QED BY <1>1, <1>2, <1>3, <1>4, <2>1, OrderFacts DEF OrderInv
<1>9. resp.of <= Newest' /\ \A i \in 1 .. Len(line) : line[i].of <= Newest'
  BY <1>1, <1>2, <1>4, OrderFacts DEF OrderInv
<1> QED BY <1>6, <1>7, <1>8, <1>9 DEF OrderInv, Ordered

\* A talk is said: it follows what is on the line.
LEMMA TalkSaid ==
  ASSUME line \in Seq(Byte), NEW w \in Seq(Byte), line' = line \o w
  PROVE  /\ line' \in Seq(Byte) /\ Len(line') = Len(line) + Len(w)
         /\ \A i \in 1 .. Len(line) + Len(w) :
              line'[i] = IF i <= Len(line) THEN line[i] ELSE w[i - Len(line)]
  BY ConcatProperties

\* A talk of a later command follows what the board has said before.
LEMMA OrderAnswer == LFAfterCR /\ OrderInv /\ Answer => Ordered'
<1> SUFFICES ASSUME LFAfterCR, OrderInv, Answer PROVE Ordered'
  OBVIOUS
<1> DEFINE h == Head(toBoard)
<1>1. /\ toBoard # <<>> /\ toBoard' = Tail(toBoard) /\ h \in DOMAIN Act /\ UNCHANGED <<k, pc, resp>>
  BY AnswerIs DEF OrderInv, ReadInv, caller, parser
<1>2. PICK t \in Seq(Chars) : t \in Act[h].talks /\ line' = line \o Talk(t, h)
  BY AnswerIs DEF OrderInv, ReadInv
<1>3. /\ Len(t) \in Nat /\ \A j \in 1 .. Len(t) : Talk(t, h)[j] = [c |-> t[j], of |-> h, at |-> j]
      /\ Talk(t, h) \in Seq(Byte) /\ Len(Talk(t, h)) = Len(t)
  BY <1>1, TalkIs
<1>4. /\ Len(line) \in Nat /\ Len(line') = Len(line) + Len(t)
      /\ \A i \in 1 .. Len(line) : line'[i] = line[i]
      /\ \A i \in Len(line) + 1 .. Len(line) + Len(t) : line'[i] = Talk(t, h)[i - Len(line)]
  <2>1. line \in Seq(Byte) /\ Len(line) \in Nat
    BY OrderFacts DEF OrderInv, ReadInv, BoardType
  <2>2. /\ Len(line') = Len(line) + Len(t)
        /\ \A i \in 1 .. Len(line) + Len(t) :
             line'[i] = IF i <= Len(line) THEN line[i] ELSE Talk(t, h)[i - Len(line)]
    BY <1>2, <1>3, <2>1, TalkSaid
  <2> QED BY <1>3, <2>1, <2>2
<1>5. /\ h = toBoard[1] /\ h \in Nat /\ h >= 1 /\ h <= Newest /\ Newest' = Newest
      /\ Len(toBoard) \in Nat /\ Len(toBoard) >= 1
      /\ Len(toBoard') = Len(toBoard) - 1
      /\ \A i \in 1 .. Len(toBoard) - 1 : toBoard'[i] = toBoard[i + 1]
  <2>1. toBoard \in Seq(DOMAIN Act) /\ Len(toBoard) \in Nat /\ Len(toBoard) >= 1
    BY <1>1, OrderFacts DEF OrderInv, ReadInv, BoardType
  <2>2. h = toBoard[1] /\ 1 \in 1 .. Len(toBoard)
    BY <1>1, <2>1
  <2>3. h <= Newest /\ h \in Nat /\ h >= 1
    BY <2>2, OrderFacts DEF OrderInv, Ordered
  <2>4. Newest' = Newest
    BY <1>1 DEF Newest
  <2> QED BY <1>1, <2>1, <2>2, <2>3, <2>4, HeadTailProperties
<1>6. resp.of < h /\ \A i \in 1 .. Len(line) : line[i].of < h
  BY <1>1, <1>5 DEF OrderInv, Ordered
<1> HIDE DEF h
<1>7. \A i \in Len(line) + 1 .. Len(line) + Len(t) :
        /\ line'[i].c = t[i - Len(line)] /\ line'[i].of = h /\ line'[i].at = i - Len(line)
        /\ i - Len(line) \in 1 .. Len(t)
  <2> SUFFICES ASSUME NEW i \in Len(line) + 1 .. Len(line) + Len(t)
               PROVE  /\ line'[i].c = t[i - Len(line)] /\ line'[i].of = h
                      /\ line'[i].at = i - Len(line) /\ i - Len(line) \in 1 .. Len(t)
    OBVIOUS
  <2>1. i - Len(line) \in 1 .. Len(t)
    BY <1>3, <1>4
  <2>2. line'[i] = [c |-> t[i - Len(line)], of |-> h, at |-> i - Len(line)]
    BY <1>3, <1>4, <2>1
  <2> QED BY <2>1, <2>2
<1>8. \A i \in 1 .. Len(line') : i \in 1 .. Len(line) \/ i \in Len(line) + 1 .. Len(line) + Len(t)
  BY <1>3, <1>4
<1>9. \A i \in 1 .. Len(line') - 1 : Succeeds(line'[i], line'[i + 1])
  <2> SUFFICES ASSUME NEW i \in 1 .. Len(line') - 1 PROVE Succeeds(line'[i], line'[i + 1])
    OBVIOUS
  <2>1. CASE i < Len(line)
    <3>1. i \in 1 .. Len(line) - 1 /\ i \in 1 .. Len(line) /\ i + 1 \in 1 .. Len(line)
      BY <1>4, <2>1
    <3> QED BY <1>4, <3>1 DEF OrderInv, Ordered
  <2>2. CASE i = Len(line)
    <3>1. i \in 1 .. Len(line) /\ i + 1 \in Len(line) + 1 .. Len(line) + Len(t) /\ (i + 1) - Len(line) = 1
      BY <1>3, <1>4, <2>2
    <3>2. line'[i].of < h /\ line'[i] = line[i] /\ line[i].of \in Nat
      BY <1>4, <1>6, <3>1, OrderFacts DEF OrderInv
    <3>3. line'[i + 1].of = h /\ line'[i + 1].at = 1
      BY <1>7, <3>1
    <3> QED BY <1>5, <3>2, <3>3 DEF Succeeds, Follows
  <2>3. CASE i > Len(line)
    <3>1. /\ i \in Len(line) + 1 .. Len(line) + Len(t) /\ i + 1 \in Len(line) + 1 .. Len(line) + Len(t)
          /\ i - Len(line) \in 1 .. Len(t) - 1 /\ (i + 1) - Len(line) = (i - Len(line)) + 1
      BY <1>3, <1>4, <2>3
    <3>2. t[i - Len(line)] = "CR" => t[(i - Len(line)) + 1] = "LF"
      BY <1>1, <1>2, <3>1, CallIs DEF LFAfterCR
    <3>3. /\ line'[i].c = t[i - Len(line)] /\ line'[i].of = h /\ line'[i].at = i - Len(line)
          /\ line'[i + 1].c = t[(i - Len(line)) + 1] /\ line'[i + 1].of = h
          /\ line'[i + 1].at = (i - Len(line)) + 1
      BY <1>7, <3>1
    <3> QED BY <3>2, <3>3 DEF Succeeds, Follows
  <2> QED BY <1>4, <2>1, <2>2, <2>3
<1>10. line' # <<>> /\ resp # NoByte => Succeeds(resp, line'[1])
  <2> SUFFICES ASSUME line' # <<>>, resp # NoByte PROVE Succeeds(resp, line'[1])
    OBVIOUS
  <2>1. CASE line # <<>>
    <3>1. 1 \in 1 .. Len(line)
      BY <1>4, <2>1, OrderFacts DEF OrderInv
    <3> QED BY <1>4, <2>1, <3>1 DEF OrderInv, Ordered
  <2>2. CASE line = <<>>
    <3>1. Len(line') \in Nat /\ Len(line') # 0
      <4>1. line' \in Seq(Byte)
        BY <1>2, <1>3, ConcatProperties DEF OrderInv, ReadInv, BoardType
      <4> QED BY <4>1, EmptySeq
    <3>2. 1 \in Len(line) + 1 .. Len(line) + Len(t) /\ 1 - Len(line) = 1
      BY <1>3, <1>4, <2>2, <3>1, EmptySeq
    <3>3. line'[1].of = h /\ line'[1].at = 1
      BY <1>7, <3>2
    <3> QED BY <1>5, <1>6, <3>3, OrderFacts DEF OrderInv, Succeeds, Follows
  <2> QED BY <2>1, <2>2
<1>11. \A i \in 1 .. Len(line') : line'[i].of = h \/ (i \in 1 .. Len(line) /\ line'[i] = line[i])
  <2> SUFFICES ASSUME NEW i \in 1 .. Len(line')
               PROVE  line'[i].of = h \/ (i \in 1 .. Len(line) /\ line'[i] = line[i])
    OBVIOUS
  <2> QED BY <1>4, <1>7, <1>8
<1>12. toBoard' # <<>> => h < toBoard'[1]
  <2> SUFFICES ASSUME toBoard' # <<>> PROVE h < toBoard'[1]
    OBVIOUS
  <2>1. Len(toBoard') \in Nat /\ Len(toBoard') >= 1
    <3>1. toBoard' \in Seq(DOMAIN Act)
      BY <1>1, HeadTailProperties DEF OrderInv, ReadInv, BoardType
    <3> QED BY <3>1, EmptySeq
  <2>2. 1 \in 1 .. Len(toBoard) - 1
    BY <1>5, <2>1
  <2>3. toBoard[1] < toBoard[1 + 1]
    BY <2>2 DEF OrderInv, Ordered
  <2> QED BY <1>5, <2>2, <2>3
<1>13. toBoard' # <<>> => /\ resp.of < toBoard'[1]
                          /\ \A i \in 1 .. Len(line') : line'[i].of < toBoard'[1]
  <2> SUFFICES ASSUME toBoard' # <<>>
               PROVE  /\ resp.of < toBoard'[1]
                      /\ \A i \in 1 .. Len(line') : line'[i].of < toBoard'[1]
    OBVIOUS
  <2>1. h < toBoard'[1] /\ toBoard'[1] \in Nat
    <3>1. Len(toBoard') \in Nat /\ Len(toBoard') >= 1
      <4>1. toBoard' \in Seq(DOMAIN Act)
        BY <1>1, HeadTailProperties DEF OrderInv, ReadInv, BoardType
      <4> QED BY <4>1, EmptySeq
    <3>2. 1 \in 1 .. Len(toBoard) - 1 /\ 1 + 1 \in 1 .. Len(toBoard)
      BY <1>5, <3>1
    <3> QED BY <1>5, <1>12, <3>2, OrderFacts DEF OrderInv
  <2>2. \A n \in Nat : n < h => n < toBoard'[1]
    BY <1>5, <2>1
  <2>3. \A i \in 1 .. Len(line) : line[i].of \in Nat
    BY OrderFacts DEF OrderInv
  <2> QED BY <1>6, <1>11, <2>1, <2>2, <2>3, OrderFacts DEF OrderInv
<1>14. \A i \in 1 .. Len(line') : line'[i].of <= Newest
  BY <1>5, <1>11 DEF OrderInv, Ordered
<1>15. \A i \in 1 .. Len(toBoard') : i + 1 \in 1 .. Len(toBoard) /\ toBoard'[i] = toBoard[i + 1]
  BY <1>5
<1>16. \A i \in 1 .. Len(toBoard') - 1 : toBoard'[i] < toBoard'[i + 1]
  <2> SUFFICES ASSUME NEW i \in 1 .. Len(toBoard') - 1 PROVE toBoard'[i] < toBoard'[i + 1]
    OBVIOUS
  <2>1. i + 1 \in 1 .. Len(toBoard) - 1 /\ i \in 1 .. Len(toBoard') /\ i + 1 \in 1 .. Len(toBoard')
    BY <1>5
  <2>2. toBoard[i + 1] < toBoard[(i + 1) + 1]
    BY <2>1 DEF OrderInv, Ordered
  <2> QED BY <1>15, <2>1, <2>2
<1> QED BY <1>1, <1>5, <1>9, <1>10, <1>13, <1>14, <1>15, <1>16 DEF OrderInv, Ordered

\* The order of the bytes is kept by every step.
LEMMA NextOrdered == LFAfterCR /\ OrderInv /\ [Next]_vars => Ordered'
<1> SUFFICES ASSUME LFAfterCR, OrderInv, [Next]_vars PROVE Ordered'
  OBVIOUS
<1>1. Newest' \in Nat /\ Newest <= Newest' /\ ReadInv /\ Ordered
  BY NewestGrows DEF OrderInv
<1>2. CASE ByteArrives
  BY <1>2, OrderByte
<1>3. CASE Answer
  BY <1>3, OrderAnswer
<1>4. CASE SendTo \/ SendCmd
  <2>1. CASE toBoard' = Append(toBoard, k)
    <3>1. pc = "call" /\ (k' = k + 1 \/ (k' = k /\ pc' = "io")) /\ UNCHANGED <<line, resp>>
      BY <1>4 DEF SendTo, SendCmd, Over, Read, parser
    <3> QED BY <2>1, <3>1, OrderCommand
  <2>2. CASE toBoard' # Append(toBoard, k)
    <3>1. UNCHANGED <<line, toBoard, resp>>
      BY <1>4, <2>2 DEF SendTo, SendCmd, parser, Read
    <3> QED BY <1>1, <3>1, OrderKept
  <2> QED BY <2>1, <2>2
<1>5. CASE UNCHANGED <<line, toBoard>> /\ (resp' = resp \/ resp' = NoByte)
  BY <1>1, <1>5, OrderKept
<1> QED
  BY <1>2, <1>3, <1>4, <1>5
     DEF Next, Host, TimerHandler, ReadHandler, ReadAgain, Timeout, LineEnd, Character, Found, SkipLines,
         Await, Expire, Returns, Read, vars, board, parser

\* The character that is added to a line is the one that comes next.
LEMMA CharacterFollows ==
  ASSUME OrderInv, Returns({"cmd", "until"}), tryNum < Tries, ~EndsLine(resp.c)
  PROVE  /\ resp \in Byte /\ Fresh /\ pc = "io" /\ Call.kind # "skip"
         /\ str # <<>> => Follows(str[Len(str)], resp)
<1>1. resp \in Byte /\ Fresh /\ pc = "io" /\ Call.kind # "skip"
  BY ReturnsByte DEF OrderInv, Fresh, Returns
<1> QED BY <1>1 DEF OrderInv, Built, EndsLine

\* A character more keeps the order of a line.
LEMMA StrAppended ==
  ASSUME str \in Seq(Byte), resp \in Byte, StrOrdered, str' = Append(str, resp),
         str # <<>> => Follows(str[Len(str)], resp)
  PROVE  /\ StrOrdered' /\ str' # <<>> /\ str'[Len(str')] = resp
<1>1. /\ Len(str) \in Nat /\ Len(str') = Len(str) + 1 /\ str'[Len(str) + 1] = resp
      /\ \A i \in 1 .. Len(str) : str'[i] = str[i]
      /\ str = <<>> => Len(str) = 0
      /\ str' # <<>>
  <2>1. Append(str, resp) # <<>> /\ Len(str) \in Nat /\ (str = <<>> => Len(str) = 0)
    BY AppendProperties, LenProperties, EmptySeq
  <2> QED BY <2>1, AppendProperties
<1>2. ASSUME NEW i \in 1 .. Len(str') - 1 PROVE Follows(str'[i], str'[i + 1])
  <2>1. CASE i = Len(str)
    <3>1. str # <<>> /\ i \in 1 .. Len(str)
      BY <1>1, <1>2, <2>1
    <3> QED BY <1>1, <2>1, <3>1
  <2>2. CASE i # Len(str)
    <3>1. i \in 1 .. Len(str) - 1 /\ i \in 1 .. Len(str) /\ i + 1 \in 1 .. Len(str)
      BY <1>1, <1>2, <2>2
    <3> QED BY <1>1, <3>1 DEF StrOrdered
  <2> QED BY <2>1, <2>2
<1> QED BY <1>1, <1>2 DEF StrOrdered

\* A line is built of bytes that follow each other.
LEMMA NextStr == OrderInv /\ [Next]_vars => StrOrdered'
<1> SUFFICES ASSUME OrderInv, [Next]_vars PROVE StrOrdered'
  OBVIOUS
<1>1. StrOrdered /\ str \in Seq(Byte)
  BY DEF OrderInv, ReadInv, ParseType
<1>2. CASE str' = <<>>
  BY <1>2, EmptySeq DEF StrOrdered
<1>3. CASE str' = str
  BY <1>1, <1>3 DEF StrOrdered
<1>4. CASE (Character \/ Found) /\ str' = Append(str, resp)
  <2>1. Returns({"cmd", "until"}) /\ tryNum < Tries /\ ~EndsLine(resp.c)
    BY <1>4 DEF Character, Found
  <2> QED BY <1>1, <1>4, <2>1, CharacterFollows, StrAppended
<1>5. CASE Character \/ Found
  <2>1. str' = str \/ str' = Append(str, resp)
    BY <1>5 DEF Character, Found
  <2> QED BY <1>3, <1>4, <1>5, <2>1
<1>6. CASE LineEnd \/ SendTo \/ Await
  BY <1>2, <1>3, <1>6 DEF LineEnd, SendTo, Await
<1> QED
  BY <1>3, <1>5, <1>6
     DEF Next, Host, TimerHandler, ReadHandler, ReadAgain, Timeout, SkipLines, SendCmd, ByteArrives,
         Expire, Answer, vars, parser

\* What comes next after a dropped CR, or after the last of a line, belongs to it.
LEMMA BuiltByte == OrderInv /\ ByteArrives => Built'
<1> SUFFICES ASSUME OrderInv, ByteArrives PROVE Built'
  OBVIOUS
<1>1. /\ line # <<>> /\ resp' = Head(line) /\ rd = "pending" /\ rd' = "done"
      /\ UNCHANGED <<k, pc, str, processed>> /\ Call' = Call
  BY DEF ByteArrives, caller, Call
<1>2. Fresh'
  BY <1>1 DEF Fresh
<1>3. ASSUME pc = "io", str # <<>> PROVE Follows(str[Len(str)], resp') \/ resp'.c = "LF"
  <2>1. processed # 1
    BY <1>1, <1>3 DEF OrderInv, ReadInv, TryCount
  <2>2. /\ resp # NoByte
        /\ resp = str[Len(str)] \/ (resp.c = "CR" /\ resp.of >= str[Len(str)].of)
    BY <1>1, <1>3, <2>1 DEF OrderInv, Built, Fresh
  <2>3. /\ Succeeds(resp, resp') /\ Len(str) \in 1 .. Len(str) /\ resp' \in Byte
    <3>1. line \in Seq(Byte)
      BY DEF OrderInv, ReadInv, BoardType
    <3>2. Head(line) = line[1] /\ Head(line) \in Byte
      BY <1>1, <3>1, HeadTailProperties
    <3>3. Len(str) \in 1 .. Len(str)
      BY <1>3, OrderFacts DEF OrderInv
    <3> QED BY <1>1, <2>2, <3>2, <3>3 DEF OrderInv, Ordered
  <2>4. resp.of \in Nat /\ resp'.of \in Nat /\ str[Len(str)].of \in Nat
    BY <2>3, OrderFacts DEF OrderInv
  <2>5. CASE resp = str[Len(str)]
    BY <2>3, <2>5 DEF Succeeds
  <2>6. CASE resp.c = "CR" /\ resp.of >= str[Len(str)].of
    BY <2>3, <2>4, <2>6 DEF Succeeds, Follows
  <2> QED BY <2>2, <2>5, <2>6
<1> QED BY <1>1, <1>2, <1>3 DEF OrderInv, Built

\* A line goes on with the byte that was read last.
LEMMA NextBuilt == OrderInv /\ [Next]_vars => Built'
<1> SUFFICES ASSUME OrderInv, [Next]_vars PROVE Built'
  OBVIOUS
<1>1. Built /\ ReadType /\ TryCount /\ (pc # "io" => Quiet)
  BY DEF OrderInv, ReadInv, NothingPends
<1>2. CASE pc' # "io" \/ str' = <<>>
  BY <1>2 DEF Built
<1>3. CASE UNCHANGED <<k, pc, str, resp>> /\ Fresh' = Fresh
  <2>1. Call' = Call
    BY <1>3 DEF Call
  <2> QED BY <1>1, <1>3, <2>1 DEF Built
<1>4. CASE TimerHandler \/ Expire
  <2>1. UNCHANGED <<k, pc, str, resp, processed>> /\ (rd' = "done" <=> rd = "done")
    BY <1>4 DEF TimerHandler, Expire, caller, parser
  <2> QED BY <1>3, <2>1 DEF Fresh
<1>5. CASE ReadHandler
  <2>1. UNCHANGED <<k, pc, str, resp>> /\ rd' = "none" /\ rd \in {"done", "aborted"}
        /\ processed' = IF rd = "done" THEN 1 ELSE processed
    BY <1>5 DEF ReadHandler, caller, parser
  <2> QED BY <1>3, <2>1 DEF Fresh
<1>6. CASE ReadAgain
  <2>1. UNCHANGED <<k, pc, str, resp>> /\ rd' = "pending" /\ processed' = 0 /\ processed = 0 /\ rd = "none"
    BY <1>6 DEF ReadAgain, Begin, Quiet, caller, parser
  <2> QED BY <1>3, <2>1 DEF Fresh
<1>7. CASE ByteArrives
  BY <1>7, BuiltByte
<1>8. CASE LineEnd \/ Await
  BY <1>2, <1>8 DEF LineEnd, Await
<1>9. CASE SendTo
  <2>1. str' = <<>> \/ pc' # "io"
    BY <1>9 DEF SendTo, Over
  <2> QED BY <1>2, <2>1
<1>10. CASE Timeout \/ Found \/ SendCmd
  BY <1>2, <1>10 DEF Timeout, Found, SendCmd, Over
<1>11. CASE SkipLines
  <2>1. pc = "io" /\ Call.kind = "skip" /\ str' = str
    BY <1>11 DEF SkipLines, Returns
  <2> QED BY <1>1, <1>2, <2>1 DEF Built
<1>12. CASE Character
  <2>1. /\ Returns({"cmd", "until"}) /\ tryNum < Tries /\ ~EndsLine(resp.c)
        /\ rd' = "pending" /\ processed' = 0 /\ k' = k /\ resp' = resp
        /\ str' = IF resp.c = "CR" THEN str ELSE Append(str, resp)
    BY <1>12 DEF Character, Read, Begin
  <2>2. /\ resp \in Byte /\ Call.kind # "skip" /\ Call' = Call /\ ~Fresh' /\ resp # NoByte
        /\ str # <<>> => Follows(str[Len(str)], resp)
    BY <2>1, CharacterFollows, OrderFacts DEF Call, Fresh, OrderInv
  <2>3. CASE resp.c = "CR"
    <3>1. str # <<>> => resp.of >= str[Len(str)].of
      <4> SUFFICES ASSUME str # <<>> PROVE resp.of >= str[Len(str)].of
        OBVIOUS
      <4>1. Len(str) \in 1 .. Len(str)
        BY OrderFacts DEF OrderInv
      <4>2. resp.of \in Nat /\ str[Len(str)].of \in Nat
        BY <2>2, <4>1, OrderFacts DEF OrderInv
      <4> QED BY <2>2, <4>2 DEF Follows
    <3> QED BY <2>1, <2>2, <2>3, <3>1 DEF Built
  <2>4. CASE resp.c # "CR"
    <3>1. str'[Len(str')] = resp
      BY <2>1, <2>2, <2>4, StrAppended DEF OrderInv, ReadInv, ParseType
    <3> QED BY <2>1, <2>2, <3>1 DEF Built
  <2> QED BY <2>3, <2>4
<1>13. CASE Answer \/ UNCHANGED vars
  <2>1. UNCHANGED <<caller, reader, parser>>
    BY <1>13 DEF Answer, vars
  <2>2. UNCHANGED <<k, pc, str, resp>> /\ Fresh' = Fresh
    BY <2>1 DEF caller, reader, parser, Fresh
  <2> QED BY <1>3, <2>2
<1> QED
  BY <1>4, <1>5, <1>6, <1>7, <1>8, <1>9, <1>10, <1>11, <1>12, <1>13 DEF Next, Host

\* The order of the bytes is kept.
LEMMA NextOrder == ASSUME LFAfterCR, OrderInv, [Next]_vars PROVE OrderInv'
<1>1. ReadInv'
  BY CallTypes, FlagTypes, ReadTypes, RespTypes, ParseTypes, BoardTypes, HeardTypes, NextPends,
     NextTries, NextByteRead DEF OrderInv, ReadInv
<1> QED BY <1>1, LFAfterCR, NextOrdered, NextStr, NextBuilt DEF OrderInv

\* Within a line no byte is lost and none is taken twice, of a board that ends its
\* lines with CR and LF.
THEOREM BytesAreKept == ASSUME LFAfterCR PROVE Spec => []NothingLost
<1>1. Init => OrderInv
  BY InitRead, InitOrder DEF OrderInv
<1>2. OrderInv /\ [Next]_vars => OrderInv'
  BY LFAfterCR, NextOrder
<1> QED BY <1>1, <1>2, OrderInvNothingLost, PTL DEF Spec
-----------------------------------------------------------------------------
(* Whose prompt is heard *)

\* A talk for each command: what the board says, or will say, for it.
Tales == [DOMAIN Act -> Seq(Chars)]

\* Byte b is of its command's talk.
Told(talk, b) ==
  /\ b.of \in DOMAIN Act /\ IsCommand(b.of) /\ talk[b.of] \in Act[b.of].talks
  /\ b.at \in 1 .. Len(talk[b.of]) /\ b.c = talk[b.of][b.at]

\* The bytes on the line, the one read last and those of the line that is built.
Spoken(talk) ==
  /\ \A i \in 1 .. Len(line) : Told(talk, line[i])
  /\ resp # NoByte => Told(talk, resp)
  /\ pc = "io" => \A i \in 1 .. Len(str) : Told(talk, str[i])

\* What is left of a talk is on the line.
Whole(talk) ==
  /\ \A i \in 1 .. Len(line) : line[i].at < Len(talk[line[i].of]) =>
       i < Len(line) /\ line[i + 1].of = line[i].of
  /\ resp # NoByte /\ resp.at < Len(talk[resp.of]) => line # <<>> /\ line[1].of = resp.of

\* The line that is built has a byte for each place, none newer than the one that
\* was read last; the text is not in it yet.
Placed ==
  pc = "io" =>
    /\ \A j \in 1 .. Len(str) : \A i \in 1 .. j :
         \/ str[i].of = str[j].of /\ str[j].at = str[i].at + (j - i)
         \/ str[i].of < str[j].of /\ str[j].at <= j - i
    /\ \A i \in 1 .. Len(str) : str[i].of <= resp.of /\ str[i].c \notin {"CR", "LF"}
    /\ Call.kind \in {"cmd", "until"} => ~Matches(str)

\* Only commands are answered.
Asked == \A i \in 1 .. Len(toBoard) : IsCommand(toBoard[i])

\* What is known of the bytes, whoever awaits what.
SaidInv(talk) == Spoken(talk) /\ Whole(talk) /\ Placed /\ Asked

\* A command is sent while nothing has timed out: the prompts before it were heard,
\* and nothing is left of the talks that they end.
Consumed ==
  /\ pc = "io" /\ Call.kind = "cmd" => ~failed
  /\ ~failed => \A j \in 1 .. k - 1 : Prompted(j) =>
       /\ \A i \in 1 .. Len(line) : line[i].of # j
       /\ \A i \in 1 .. Len(toBoard) : toBoard[i] # j
       /\ pc = "io" /\ Fresh => resp.of # j
       /\ pc = "io" => \A i \in 1 .. Len(str) : str[i].of # j

\* The first byte of a command's own talk that may come into a line begins one.
Begins(talk, b) == b.of = k => b.c = "LF" \/ LineStart(talk[k], b.at)

\* While a command's prompt is awaited: a line of its talk begins as a line does,
\* and no line of an earlier talk goes on in it.
Started(talk) ==
  pc = "io" /\ Call.kind = "cmd" =>
    /\ str = <<>> => IF Fresh THEN Begins(talk, resp) ELSE line # <<>> => Begins(talk, line[1])
    /\ str # <<>> =>
         LET last == str[Len(str)]
         IN  /\ Begins(talk, str[1])
             /\ last.of = k => str[1].of = k
             /\ last.of # k =>
                  IF Fresh
                  THEN resp.of = last.of /\ (resp.at = last.at + 1 \/ resp.c = "LF")
                  ELSE \/ resp = last
                       \/ resp.c = "CR" /\ resp.of = last.of /\ resp.at = last.at + 1

\* The inductive invariant, for what the board says.
AnswerInv(talk) == SaidInv(talk) /\ Consumed /\ Started(talk) /\ AnswerIsOwn

\* Any set of numbers has a least one.
LEMMA Least == ASSUME NEW T, T \subseteq Nat, T # {} PROVE \E x \in T : \A y \in T : x <= y
<1>1. \E x \in T : \A y \in T : ~(<<y, x>> \in OpToRel(<, Nat))
  BY WFMin, NatLessThanWellFounded, Zenon
<1>2. PICK x \in T : \A y \in T : ~(<<y, x>> \in OpToRel(<, Nat))
  BY <1>1
<1>3. ASSUME NEW y \in T, y < x PROVE FALSE
  <2>1. <<y, x>> \in Nat \X Nat /\ <<y, x>>[1] < <<y, x>>[2]
    BY <1>3
  <2>2. <<y, x>> \in OpToRel(<, Nat)
    BY <2>1 DEF OpToRel
  <2> QED BY <1>2, <2>2
<1> QED BY <1>3

\* The command of a call is the last one before it, or the call itself.
LEMMA CommandIs ==
  ASSUME NEW i \in 1 .. Len(Act), NEW o \in 1 .. i, IsCommand(o)
  PROVE  /\ Command(i) \in 1 .. i /\ o <= Command(i) /\ IsCommand(Command(i))
         /\ IsCommand(i) => Command(i) = i
<1>1. Len(Act) \in Nat
  BY CallIs
<1> DEFINE T == {n \in Nat : i - n \in 1 .. i /\ IsCommand(i - n)}
<1>2. i - o \in T
  <2>1. i - o \in Nat /\ i - (i - o) = o
    BY <1>1
  <2> QED BY <2>1
<1>3. PICK n \in T : \A y \in T : n <= y
  BY <1>2, Least
<1>4. /\ n \in Nat /\ i - n \in 1 .. i /\ IsCommand(i - n)
      /\ \A y \in Nat : i - y \in 1 .. i /\ IsCommand(i - y) => n <= y
  BY <1>3
<1> HIDE DEF T
<1>5. \A x \in (i - n) + 1 .. i : ~IsCommand(x)
  <2> SUFFICES ASSUME NEW x \in (i - n) + 1 .. i, IsCommand(x) PROVE FALSE
    OBVIOUS
  <2>1. i - x \in Nat /\ i - (i - x) = x /\ x \in 1 .. i /\ i - x < n
    BY <1>1, <1>4
  <2>2. n <= i - x
    BY <1>4, <2>1
  <2> QED BY <1>1, <1>4, <2>1, <2>2
<1>6. \E j \in 1 .. i : /\ Act[j].kind \in {"cmd", "send"}
                        /\ \A x \in j + 1 .. i : Act[x].kind \notin {"cmd", "send"}
  BY <1>4, <1>5 DEF IsCommand
<1>7. /\ Command(i) \in 1 .. i /\ IsCommand(Command(i))
      /\ \A x \in Command(i) + 1 .. i : ~IsCommand(x)
  BY <1>6 DEF Command, IsCommand
<1>8. PICK c \in 1 .. i : c = Command(i) /\ IsCommand(c) /\ \A x \in c + 1 .. i : ~IsCommand(x)
  BY <1>7
<1>9. \A x \in 1 .. i : IsCommand(x) => x <= c
  BY <1>1, <1>8
<1>10. IsCommand(i) => c = i
  <2>1. i \in 1 .. i
    BY <1>1
  <2> QED BY <1>1, <1>9, <2>1
<1> QED BY <1>8, <1>9, <1>10

\* The steps that read nothing and make no call.
Idle == UNCHANGED <<k, pc, failed, heard, parser, line, toBoard>> /\ Fresh' = Fresh

\* All others are named.
LEMMA IdleSteps ==
  OrderInv /\ [Next]_vars =>
    \/ Idle \/ ByteArrives \/ Answer \/ Timeout \/ LineEnd \/ Character \/ Found
    \/ SkipLines \/ SendTo \/ SendCmd \/ Await
<1> SUFFICES ASSUME OrderInv, [Next]_vars,
                    ~(ByteArrives \/ Answer \/ Timeout \/ LineEnd \/ Character \/ Found
                        \/ SkipLines \/ SendTo \/ SendCmd \/ Await)
             PROVE  Idle
  OBVIOUS
<1>1. TimerHandler \/ ReadHandler \/ ReadAgain \/ Expire \/ UNCHANGED vars
  BY DEF Next, Host
<1>2. UNCHANGED <<caller, parser, board>>
  BY <1>1 DEF TimerHandler, ReadHandler, ReadAgain, Expire, vars
<1>3. (rd' = "done" \/ processed' = 1) = (rd = "done" \/ processed = 1)
  <2>1. CASE TimerHandler \/ Expire
    BY <2>1 DEF TimerHandler, Expire
  <2>2. CASE ReadHandler
    BY <2>2 DEF ReadHandler
  <2>3. CASE ReadAgain
    BY <2>3 DEF ReadAgain, Begin, Quiet
  <2>4. CASE UNCHANGED vars
    BY <2>4 DEF vars, reader
  <2> QED BY <1>1, <2>1, <2>2, <2>3, <2>4
<1> QED BY <1>2, <1>3 DEF Idle, caller, parser, board, Fresh

\* The invariant speaks of nothing that such a step changes.
LEMMA IdleKeeps == ASSUME NEW talk \in Tales, AnswerInv(talk), Idle PROVE AnswerInv(talk)'
<1>1. UNCHANGED <<k, pc, failed, heard, str, resp, line, toBoard>> /\ Fresh' = Fresh /\ Call' = Call
  BY DEF Idle, Call, parser
<1>2. Spoken(talk)' /\ Whole(talk)' /\ Asked' /\ AnswerIsOwn'
  BY <1>1 DEF AnswerInv, SaidInv, Spoken, Told, Whole, Asked, AnswerIsOwn
<1>3. Placed'
  BY <1>1 DEF AnswerInv, SaidInv, Placed, Matches
<1>4. Consumed'
  BY <1>1 DEF AnswerInv, SaidInv, Consumed
<1>5. Started(talk)'
  BY <1>1 DEF AnswerInv, SaidInv, Started, Begins
<1> QED BY <1>2, <1>3, <1>4, <1>5 DEF AnswerInv, SaidInv

\* A byte is read off the line.
LEMMA ByteTaken ==
  ASSUME OrderInv, ByteArrives
  PROVE  /\ Len(line) \in Nat /\ 1 \in 1 .. Len(line) /\ resp' = line[1] /\ Len(line') = Len(line) - 1
         /\ \A i \in 1 .. Len(line') : i + 1 \in 1 .. Len(line) /\ line'[i] = line[i + 1]
         /\ line' # <<>> => 2 \in 1 .. Len(line) /\ line'[1] = line[2]
         /\ pc = "io" /\ ~Fresh /\ Fresh' /\ resp' \in Byte /\ resp' # NoByte
         /\ resp # NoByte => Succeeds(resp, resp')
         /\ UNCHANGED <<k, pc, failed, heard, str, toBoard>> /\ Call' = Call
<1>1. /\ line # <<>> /\ resp' = Head(line) /\ line' = Tail(line) /\ rd = "pending" /\ rd' = "done"
      /\ UNCHANGED <<k, pc, failed, heard, str, toBoard>> /\ Call' = Call
  BY DEF ByteArrives, caller, Call
<1>2. line \in Seq(Byte) /\ Len(line) \in Nat /\ Len(line) >= 1
  BY <1>1, OrderFacts DEF OrderInv, ReadInv, BoardType
<1>3. /\ Head(line) = line[1] /\ Head(line) \in Byte /\ Tail(line) \in Seq(Byte)
      /\ Len(Tail(line)) = Len(line) - 1
      /\ \A i \in 1 .. Len(Tail(line)) : Tail(line)[i] = line[i + 1]
  BY <1>1, <1>2, HeadTailProperties
<1>4. line' # <<>> => Len(line) >= 2
  BY <1>1, <1>2, <1>3, EmptySeq
<1>5. line' # <<>> => 2 \in 1 .. Len(line) /\ line'[1] = line[2]
  <2>1. line' # <<>> => 2 \in 1 .. Len(line) /\ 1 \in 1 .. Len(Tail(line)) /\ 1 + 1 = 2
    BY <1>2, <1>3, <1>4
  <2> QED BY <1>1, <1>3, <2>1
<1>6. pc = "io" /\ processed # 1
  BY <1>1 DEF OrderInv, ReadInv, NothingPends, Quiet, TryCount
<1>7. ~Fresh /\ Fresh'
  BY <1>1, <1>6 DEF Fresh
<1>8. resp # NoByte => Succeeds(resp, resp')
  BY <1>1, <1>3 DEF OrderInv, Ordered
<1>9. resp' # NoByte
  BY <1>1, <1>3, OrderFacts DEF OrderInv
<1> QED BY <1>1, <1>2, <1>3, <1>5, <1>6, <1>7, <1>8, <1>9

\* ParseUntil looks at the byte that was read.
LEMMA ByteSeen ==
  ASSUME OrderInv, Returns({"cmd", "until"}), tryNum < Tries
  PROVE  /\ resp \in Byte /\ resp # NoByte /\ Fresh /\ pc = "io" /\ Call.kind \in {"cmd", "until"}
         /\ k \in 1 .. Len(Act) /\ Newest = k /\ resp.of \in 1 .. k
         /\ line # <<>> => Succeeds(resp, line[1]) /\ line[1] \in Byte /\ 1 \in 1 .. Len(line)
<1>1. resp \in Byte /\ Fresh /\ pc = "io" /\ Call.kind \in {"cmd", "until"}
  BY ReturnsByte DEF OrderInv, Fresh, Returns
<1>2. k \in 1 .. Len(Act) /\ Newest = k /\ resp # NoByte
  BY <1>1, OrderFacts DEF OrderInv, ReadInv, CallType, Newest
<1>3. resp.of \in 1 .. k
  <2>1. resp.of \in Nat /\ resp.of >= 1 /\ resp.of <= Newest /\ k \in Nat
    BY <1>1, OrderFacts DEF OrderInv, Ordered
  <2> QED BY <1>2, <2>1
<1>4. line # <<>> => Succeeds(resp, line[1]) /\ line[1] \in Byte /\ 1 \in 1 .. Len(line)
  BY <1>2, OrderFacts DEF OrderInv, Ordered
<1> QED BY <1>1, <1>2, <1>3, <1>4

\* A character is added to the line that is built.
LEMMA StrGrows ==
  ASSUME str \in Seq(Byte), resp \in Byte, str' = Append(str, resp)
  PROVE  /\ Len(str) \in Nat /\ Len(str') = Len(str) + 1 /\ str'[Len(str) + 1] = resp
         /\ \A i \in 1 .. Len(str) : str'[i] = str[i]
         /\ \A i \in 1 .. Len(str') : i \in 1 .. Len(str) \/ i = Len(str) + 1
         /\ str' # <<>>
<1>1. Len(str) \in Nat /\ Len(Append(str, resp)) = Len(str) + 1 /\ Append(str, resp) # <<>>
  BY AppendProperties, LenProperties
<1>2. /\ Append(str, resp)[Len(str) + 1] = resp
      /\ \A i \in 1 .. Len(str) : Append(str, resp)[i] = str[i]
  BY AppendProperties
<1> QED BY <1>1, <1>2

\* What becomes of a line: another one is begun, it stays as it is, or a character is
\* added.
LEMMA LineSteps ==
  ASSUME OrderInv, [Next]_vars, ~ByteArrives, ~Answer
  PROVE  /\ line' = line /\ (resp' = resp \/ resp' = NoByte)
         /\ pc' = "io" => /\ k' = k /\ Call' = Call
                          /\ \/ str' = <<>>
                             \/ pc = "io" /\ str' = str /\ resp' = resp
                             \/ Character /\ resp.c # "CR" /\ str' = Append(str, resp) /\ resp' = resp
<1>1. CASE Idle
  BY <1>1 DEF Idle, Call, parser
<1>2. CASE Timeout \/ Found \/ SendCmd
  BY <1>2 DEF Timeout, Found, SendCmd, Over, Returns, board, parser
<1>3. CASE LineEnd \/ Await
  BY <1>3 DEF LineEnd, Await, Returns, board, Read, Call
<1>4. CASE Character
  BY <1>4 DEF Character, Returns, board, Read, Call
<1>5. CASE SkipLines
  <2>1. pc = "io" /\ line' = line /\ resp' = resp /\ str' = str
    BY <1>5 DEF SkipLines, Returns, board, Read
  <2>2. pc' = "io" => k' = k
    BY <1>5 DEF SkipLines, Over
  <2> QED BY <2>1, <2>2 DEF Call
<1>6. CASE SendTo
  <2>1. line' = line /\ resp' = resp
    BY <1>6 DEF SendTo, Read
  <2>2. pc' = "io" => k' = k /\ str' = <<>>
    BY <1>6 DEF SendTo, Over
  <2> QED BY <2>1, <2>2 DEF Call
<1> QED BY <1>1, <1>2, <1>3, <1>4, <1>5, <1>6, IdleSteps

\* Every byte is of its talk, wherever it goes.
LEMMA SpokenKept ==
  ASSUME NEW talk \in Tales, OrderInv, Spoken(talk), [Next]_vars, ~Answer PROVE Spoken(talk)'
<1>1. CASE ByteArrives
  <2>1. \A i \in 1 .. Len(line') : Told(talk, line'[i])
    BY <1>1, ByteTaken DEF Spoken
  <2>2. Told(talk, resp')
    BY <1>1, ByteTaken DEF Spoken
  <2>3. pc' = "io" => \A i \in 1 .. Len(str') : Told(talk, str'[i])
    BY <1>1, ByteTaken DEF Spoken
  <2> QED BY <2>1, <2>2, <2>3 DEF Spoken, Told
<1>2. CASE ~ByteArrives
  <2>1. /\ line' = line /\ (resp' = resp \/ resp' = NoByte)
    BY <1>2, LineSteps
  <2>2. ASSUME pc' = "io", NEW i \in 1 .. Len(str') PROVE Told(talk, str'[i])
    <3>1. CASE str' = <<>>
      BY <2>2, <3>1, EmptySeq
    <3>2. CASE pc = "io" /\ str' = str
      BY <2>2, <3>2 DEF Spoken
    <3>3. CASE Character /\ str' = Append(str, resp)
      <4>1. resp \in Byte /\ resp # NoByte /\ pc = "io"
        BY <3>3, ByteSeen DEF Character
      <4>2. str'[i] = resp \/ (i \in 1 .. Len(str) /\ str'[i] = str[i])
        BY <2>2, <3>3, <4>1, StrGrows DEF OrderInv, ReadInv, ParseType
      <4> QED BY <4>1, <4>2 DEF Spoken
    <3> QED BY <1>2, <2>2, <3>1, <3>2, <3>3, LineSteps
  <2> QED BY <2>1, <2>2 DEF Spoken, Told
<1> QED BY <1>1, <1>2

\* What is left of a talk stays on the line.
LEMMA WholeKept ==
  ASSUME NEW talk \in Tales, OrderInv, Whole(talk), [Next]_vars, ~Answer PROVE Whole(talk)'
<1>1. CASE ByteArrives
  <2>1. ASSUME NEW i \in 1 .. Len(line'), line'[i].at < Len(talk[line'[i].of])
        PROVE  i < Len(line') /\ line'[i + 1].of = line'[i].of
    <3>1. i + 1 \in 1 .. Len(line) /\ line'[i] = line[i + 1] /\ Len(line') = Len(line) - 1 /\ Len(line) \in Nat
      BY <1>1, ByteTaken
    <3>2. i + 1 < Len(line) /\ line[(i + 1) + 1].of = line[i + 1].of
      BY <2>1, <3>1 DEF Whole
    <3>3. i < Len(line') /\ i + 1 \in 1 .. Len(line')
      BY <3>1, <3>2
    <3> QED BY <1>1, <3>1, <3>2, <3>3, ByteTaken
  <2>2. ASSUME resp'.at < Len(talk[resp'.of]) PROVE line' # <<>> /\ line'[1].of = resp'.of
    <3>1. 1 \in 1 .. Len(line) /\ resp' = line[1] /\ Len(line') = Len(line) - 1 /\ Len(line) \in Nat
      BY <1>1, ByteTaken
    <3>2. 1 < Len(line) /\ line[1 + 1].of = line[1].of
      BY <2>2, <3>1 DEF Whole
    <3>3. 1 \in 1 .. Len(line') /\ line' # <<>>
      BY <3>1, <3>2, EmptySeq
    <3> QED BY <1>1, <3>1, <3>2, <3>3, ByteTaken
  <2> QED BY <2>1, <2>2 DEF Whole
<1>2. CASE ~ByteArrives
  <2>1. line' = line /\ (resp' = resp \/ resp' = NoByte)
    BY <1>2, LineSteps
  <2> QED BY <2>1 DEF Whole
<1> QED BY <1>1, <1>2

\* A text that is awaited has a character.
LEMMA TextIs ==
  ASSUME k \in 1 .. Len(Act), Call.kind \in {"cmd", "until"}
  PROVE  Len(Call.text) \in Nat /\ Len(Call.text) >= 1 /\ Call.text \in Seq(Chars)
<1>1. k \in DOMAIN Act /\ Act[k].text # <<>> /\ Call = Act[k]
  BY CallIs, ConsoleAssumption DEF Call
<1>2. Act[k].text \in Seq(Chars)
  <2>1. Act[k] \in Calls
    BY ElementOfSeq, ConsoleAssumption
  <2> QED BY <2>1 DEF Calls
<1>3. ASSUME NEW t \in Seq(Chars), t # <<>> PROVE Len(t) \in Nat /\ Len(t) >= 1
  BY <1>3, EmptySeq, LenProperties
<1> QED BY <1>1, <1>2, <1>3

\* It is not in an empty line.
LEMMA NoMatch ==
  ASSUME k \in 1 .. Len(Act), Call.kind \in {"cmd", "until"} PROVE ~Matches(<<>>)
<1>1. Len(<<>>) = 0 /\ DOMAIN <<>> = {}
  OBVIOUS
<1> QED BY <1>1, TextIs DEF Matches

\* A byte that follows the last of a line has its place in it.
LEMMA PlaceNext ==
  ASSUME OrderInv, Placed, pc = "io", resp \in Byte, str # <<>> => Follows(str[Len(str)], resp),
         NEW i \in 1 .. Len(str)
  PROVE  \/ str[i].of = resp.of /\ resp.at = str[i].at + (Len(str) + 1 - i)
         \/ str[i].of < resp.of /\ resp.at <= Len(str) + 1 - i
<1>1. /\ Len(str) \in Nat /\ str # <<>> /\ Len(str) \in 1 .. Len(str) /\ i \in 1 .. Len(str)
      /\ str[i] \in Byte /\ str[Len(str)] \in Byte
  BY OrderFacts DEF OrderInv
<1>2. /\ str[i].of \in Nat /\ str[i].at \in Nat /\ resp.of \in Nat /\ resp.at \in Nat
      /\ str[Len(str)].of \in Nat /\ str[Len(str)].at \in Nat
  BY <1>1, OrderFacts DEF OrderInv
<1>3. \/ str[i].of = str[Len(str)].of /\ str[Len(str)].at = str[i].at + (Len(str) - i)
      \/ str[i].of < str[Len(str)].of /\ str[Len(str)].at <= Len(str) - i
  BY <1>1 DEF Placed
<1>4. \/ resp.of = str[Len(str)].of /\ resp.at = str[Len(str)].at + 1
      \/ resp.of > str[Len(str)].of /\ resp.at = 1
  BY <1>1 DEF Follows
<1>5. i \in Nat /\ i <= Len(str) /\ Len(str) \in Nat
  BY <1>1
<1>6. CASE str[i].of = str[Len(str)].of /\ str[Len(str)].at = str[i].at + (Len(str) - i)
  BY <1>2, <1>4, <1>5, <1>6
<1>7. CASE str[i].of < str[Len(str)].of /\ str[Len(str)].at <= Len(str) - i
  BY <1>2, <1>4, <1>5, <1>7
<1> QED BY <1>3, <1>6, <1>7

\* The bytes of a line keep their places.
LEMMA PlacedKept ==
  ASSUME OrderInv, Placed, [Next]_vars, ~Answer PROVE Placed'
<1>1. CASE ByteArrives
  <2>1. /\ UNCHANGED <<k, pc, str>> /\ Call' = Call /\ ~Fresh /\ pc = "io"
        /\ resp' \in Byte /\ (resp # NoByte => Succeeds(resp, resp'))
    BY <1>1, ByteTaken
  <2>2. \A i \in 1 .. Len(str) : str[i].of <= resp'.of
    <3> SUFFICES ASSUME NEW i \in 1 .. Len(str) PROVE str[i].of <= resp'.of
      OBVIOUS
    <3>1. resp # NoByte
      <4>1. str # <<>>
        BY EmptySeq
      <4> QED BY <2>1, <4>1 DEF OrderInv, Built
    <3>2. str[i].of <= resp.of /\ (resp'.of = resp.of \/ resp'.of > resp.of)
      BY <2>1, <3>1 DEF Placed, Succeeds, Follows
    <3>3. str[i].of \in Nat /\ resp.of \in Nat /\ resp'.of \in Nat
      BY <2>1, OrderFacts DEF OrderInv
    <3> QED BY <3>2, <3>3
  <2>3. pc' = pc /\ str' = str /\ Matches(str)' = Matches(str)
    BY <2>1 DEF Matches
  <2> QED BY <2>1, <2>2, <2>3 DEF Placed
<1>2. CASE ~ByteArrives
  <2> SUFFICES ASSUME pc' = "io" PROVE Placed'
    BY DEF Placed
  <2>1. k' = k /\ Call' = Call /\ k \in 1 .. Len(Act)
    <3>1. CallType'
      BY CallTypes DEF OrderInv
    <3> QED BY <1>2, <3>1, LineSteps DEF CallType
  <2>2. CASE str' = <<>>
    <3>1. Call.kind \in {"cmd", "until"} => ~Matches(str')
      BY <2>1, <2>2, NoMatch
    <3>2. Len(str') = 0
      BY <2>2, EmptySeq
    <3> QED BY <2>1, <3>1, <3>2 DEF Placed, Matches
  <2>3. CASE pc = "io" /\ str' = str /\ resp' = resp
    BY <2>1, <2>3 DEF Placed, Matches
  <2>4. CASE Character /\ resp.c # "CR" /\ str' = Append(str, resp) /\ resp' = resp
    <3>1. resp \in Byte /\ pc = "io" /\ Call.kind # "skip" /\ (str # <<>> => Follows(str[Len(str)], resp))
      BY <2>4, CharacterFollows DEF Character
    <3>2. resp.c \notin {"CR", "LF"} /\ ~Matches(str')
      BY <2>4 DEF Character, EndsLine
    <3>3. /\ Len(str) \in Nat /\ Len(str') = Len(str) + 1 /\ str'[Len(str) + 1] = resp
          /\ \A i \in 1 .. Len(str) : str'[i] = str[i]
          /\ \A i \in 1 .. Len(str') : i \in 1 .. Len(str) \/ i = Len(str) + 1
      BY <2>4, <3>1, StrGrows DEF OrderInv, ReadInv, ParseType
    <3>4. resp.of \in Nat /\ resp.at \in Nat
      BY <3>1, OrderFacts DEF OrderInv
    <3>5. ASSUME NEW j \in 1 .. Len(str'), NEW i \in 1 .. j
          PROVE  \/ str'[i].of = str'[j].of /\ str'[j].at = str'[i].at + (j - i)
                 \/ str'[i].of < str'[j].of /\ str'[j].at <= j - i
      <4>1. CASE j \in 1 .. Len(str)
        <5>1. i \in 1 .. Len(str)
          BY <3>3, <4>1
        <5> QED BY <3>1, <3>3, <4>1, <5>1 DEF Placed
      <4>2. CASE j = Len(str) + 1 /\ i = Len(str) + 1
        BY <3>3, <3>4, <4>2
      <4>3. CASE j = Len(str) + 1 /\ i # Len(str) + 1
        <5>1. i \in 1 .. Len(str)
          BY <3>3, <4>3
        <5> QED BY <3>1, <3>3, <4>3, <5>1, PlaceNext
      <4> QED BY <3>3, <4>1, <4>2, <4>3
    <3>6. ASSUME NEW i \in 1 .. Len(str') PROVE str'[i].of <= resp.of /\ str'[i].c \notin {"CR", "LF"}
      <4>1. CASE i \in 1 .. Len(str)
        BY <3>1, <3>3, <4>1 DEF Placed
      <4>2. CASE i = Len(str) + 1
        BY <3>2, <3>3, <3>4, <4>2
      <4> QED BY <3>3, <4>1, <4>2
    <3> QED BY <2>1, <2>4, <3>2, <3>5, <3>6 DEF Placed, Matches
  <2> QED BY <1>2, <2>2, <2>3, <2>4, LineSteps
<1> QED BY <1>1, <1>2

\* What is sent is a command.
LEMMA AskedKept == ASSUME OrderInv, Asked, [Next]_vars PROVE Asked'
<1>1. CASE Answer
  <2>1. /\ toBoard # <<>> /\ toBoard' = Tail(toBoard) /\ toBoard \in Seq(DOMAIN Act)
    BY <1>1, AnswerIs DEF OrderInv, ReadInv, BoardType
  <2>2. \A i \in 1 .. Len(toBoard') : i + 1 \in 1 .. Len(toBoard) /\ toBoard'[i] = toBoard[i + 1]
    <3>1. /\ Len(Tail(toBoard)) = Len(toBoard) - 1 /\ Len(toBoard) \in Nat
          /\ \A i \in 1 .. Len(Tail(toBoard)) : Tail(toBoard)[i] = toBoard[i + 1]
      BY <2>1, HeadTailProperties, LenProperties
    <3> QED BY <2>1, <3>1
  <2> QED BY <2>2 DEF Asked
<1>2. CASE SendTo \/ SendCmd
  <2>1. pc = "call" /\ IsCommand(k) /\ (toBoard' = toBoard \/ toBoard' = Append(toBoard, k))
    BY <1>2 DEF SendTo, SendCmd, IsCommand, Call
  <2>2. k \in DOMAIN Act /\ toBoard \in Seq(DOMAIN Act)
    BY <2>1, CallIs DEF OrderInv, ReadInv, CallType, BoardType
  <2>3. CASE toBoard' = Append(toBoard, k)
    <3>1. /\ Len(toBoard) \in Nat /\ Len(toBoard') = Len(toBoard) + 1 /\ toBoard'[Len(toBoard) + 1] = k
          /\ \A i \in 1 .. Len(toBoard) : toBoard'[i] = toBoard[i]
      BY <2>2, <2>3, AppendProperties, LenProperties
    <3>2. \A i \in 1 .. Len(toBoard') : i \in 1 .. Len(toBoard) \/ i = Len(toBoard) + 1
      BY <3>1
    <3> QED BY <2>1, <3>1, <3>2 DEF Asked
  <2> QED BY <2>1, <2>3 DEF Asked
<1>3. CASE toBoard' = toBoard
  BY <1>3 DEF Asked
<1> QED
  BY <1>1, <1>2, <1>3
     DEF Next, Host, TimerHandler, ReadHandler, ReadAgain, Timeout, LineEnd, Character, Found, SkipLines,
         Await, ByteArrives, Expire, Returns, vars, board

\* And what is known of the bytes, unless the board answers.
LEMMA SaidKept ==
  ASSUME NEW talk \in Tales, OrderInv, SaidInv(talk), [Next]_vars, ~Answer PROVE SaidInv(talk)'
BY SpokenKept, WholeKept, PlacedKept, AskedKept DEF SaidInv

\* A text that was not in the line before its last character ends with that.
LEMMA NewMatch ==
  ASSUME k \in 1 .. Len(Act), Call.kind \in {"cmd", "until"},
         str \in Seq(Byte), resp \in Byte, str' = Append(str, resp), Matches(str'), ~Matches(str)
  PROVE  /\ Len(Call.text) <= Len(str) + 1
         /\ \A d \in 0 .. Len(Call.text) - 1 :
              str'[Len(str) + 1 - d].c = Call.text[Len(Call.text) - d]
         /\ ~Call.anywhere => Len(Call.text) = Len(str) + 1
<1> DEFINE n == Len(Call.text)
           m == Len(str)
<1>1. n \in Nat /\ n >= 1
  BY TextIs
<1> HIDE DEF n
<1>2. /\ m \in Nat /\ Len(str') = m + 1 /\ DOMAIN str' = 1 .. m + 1 /\ DOMAIN str = 1 .. m
      /\ \A i \in 1 .. m : str'[i] = str[i]
  <2>1. str' \in Seq(Byte)
    BY AppendProperties
  <2> QED BY <2>1, StrGrows, LenProperties
<1> HIDE DEF m
<1>3. PICK i \in 1 .. m + 1 :
        /\ i + n - 1 <= m + 1 /\ \A j \in 1 .. n : str'[i + j - 1].c = Call.text[j]
        /\ ~Call.anywhere => i = 1
  <2>1. CASE Call.anywhere
    BY <1>2, <2>1 DEF Matches, n
  <2>2. CASE ~Call.anywhere
    <3>1. 1 \in 1 .. m + 1
      BY <1>2
    <3> QED BY <1>2, <2>2, <3>1 DEF Matches, n
  <2> QED BY <2>1, <2>2
<1>4. i + n - 1 = m + 1
  <2> SUFFICES ASSUME i + n - 1 <= m PROVE FALSE
    BY <1>1, <1>2, <1>3
  <2>1. i \in 1 .. m /\ \A j \in 1 .. n : i + j - 1 \in 1 .. m
    BY <1>1, <1>2
  <2>2. \A j \in 1 .. n : str[i + j - 1].c = Call.text[j]
    BY <1>2, <1>3, <2>1
  <2>3. CASE Call.anywhere
    BY <1>2, <2>1, <2>2, <2>3 DEF Matches, n, m
  <2>4. CASE ~Call.anywhere
    BY <1>2, <1>3, <2>2, <2>4 DEF Matches, n, m
  <2> QED BY <2>3, <2>4
<1>5. ASSUME NEW d \in 0 .. n - 1 PROVE str'[m + 1 - d].c = Call.text[n - d]
  <2>1. n - d \in 1 .. n /\ i + (n - d) - 1 = m + 1 - d
    BY <1>1, <1>2, <1>4
  <2> QED BY <1>3, <2>1
<1>6. n <= m + 1 /\ (~Call.anywhere => n = m + 1)
  BY <1>1, <1>2, <1>3, <1>4
<1> QED BY <1>5, <1>6 DEF n, m

\* What ParseUntil knows when it has found the text.
LEMMA FoundFacts ==
  ASSUME NEW talk \in Tales, AnswersDiffer, OrderInv, AnswerInv(talk), Found
  PROVE  /\ pc = "io" /\ Fresh /\ Call.kind \in {"cmd", "until"} /\ k \in 1 .. Len(Act) /\ Call = Act[k]
         /\ resp \in Byte /\ resp # NoByte /\ resp.of \in 1 .. k /\ Told(talk, resp) /\ Newest = k
         /\ str \in Seq(Byte) /\ str' = Append(str, resp)
         /\ str # <<>> => Follows(str[Len(str)], resp)
         /\ Len(Call.text) \in Nat /\ Len(Call.text) >= 1 /\ Len(Call.text) <= Len(str) + 1
         /\ \A d \in 0 .. Len(Call.text) - 1 :
              str'[Len(str) + 1 - d].c = Call.text[Len(Call.text) - d]
         /\ ~Call.anywhere => Len(Call.text) = Len(str) + 1
<1>1. Returns({"cmd", "until"}) /\ tryNum < Tries /\ ~EndsLine(resp.c) /\ str' = Append(str, resp) /\ Matches(str')
  BY DEF Found
<1>2. /\ pc = "io" /\ Fresh /\ Call.kind \in {"cmd", "until"} /\ k \in 1 .. Len(Act)
      /\ resp \in Byte /\ resp # NoByte /\ resp.of \in 1 .. k /\ Newest = k
  BY <1>1, ByteSeen
<1>3. str # <<>> => Follows(str[Len(str)], resp)
  BY <1>1, CharacterFollows
<1>4. ~Matches(str) /\ str \in Seq(Byte) /\ Told(talk, resp)
  BY <1>2 DEF AnswerInv, SaidInv, Placed, Spoken, OrderInv, ReadInv, ParseType
<1> QED BY <1>1, <1>2, <1>3, <1>4, NewMatch, TextIs DEF Call

\* The talk whose byte completes the text ends there as the text does.
LEMMA FoundEnds ==
  ASSUME NEW talk \in Tales, AnswersDiffer, OrderInv, AnswerInv(talk), Found
  PROVE  EndsAs(k, talk[resp.of], resp.at)
<1> DEFINE n == Len(Call.text)
           m == Len(str)
<1>1. n \in Nat /\ n <= m + 1 /\ m \in Nat /\ Call = Act[k] /\ resp.at \in Nat
  <2>1. m \in Nat /\ resp.at \in Nat
    BY FoundFacts, OrderFacts DEF OrderInv
  <2> QED BY <2>1, FoundFacts
<1>2. SUFFICES ASSUME NEW d \in 0 .. n - 1, d < resp.at
               PROVE  talk[resp.of][resp.at - d] = Call.text[n - d]
  BY <1>1 DEF EndsAs
<1>3. str'[m + 1 - d].c = Call.text[n - d]
  BY FoundFacts
<1>4. str'[m + 1] = resp /\ \A i \in 1 .. m : str'[i] = str[i]
  BY FoundFacts, StrGrows
<1>5. CASE d = 0
  <2>1. resp.c = talk[resp.of][resp.at] /\ m + 1 - d = m + 1 /\ resp.at - d = resp.at
    BY <1>1, <1>5, FoundFacts DEF Told
  <2> QED BY <1>3, <1>4, <2>1
<1>6. CASE d # 0
  <2>1. m + 1 - d \in 1 .. m
    BY <1>1, <1>6
  <2> DEFINE b == str[m + 1 - d]
  <2>2. \/ b.of = resp.of /\ resp.at = b.at + (m + 1 - (m + 1 - d))
        \/ b.of < resp.of /\ resp.at <= m + 1 - (m + 1 - d)
    BY <2>1, FoundFacts, PlaceNext DEF AnswerInv, SaidInv
  <2>3. b \in Byte /\ b.at \in Nat /\ m + 1 - (m + 1 - d) = d
    BY <1>1, <2>1, OrderFacts DEF OrderInv
  <2>4. b.of = resp.of /\ b.at = resp.at - d
    BY <1>1, <1>2, <2>2, <2>3
  <2>5. b.c = talk[b.of][b.at]
    BY <2>1, FoundFacts DEF AnswerInv, SaidInv, Spoken, Told
  <2> QED BY <1>3, <1>4, <2>1, <2>4, <2>5
<1> QED BY <1>5, <1>6

\* It is the talk of the call's own command.
LEMMA FoundOwn ==
  ASSUME NEW talk \in Tales, AnswersDiffer, OrderInv, AnswerInv(talk), Found
  PROVE  resp.of = Command(k)
<1>1. /\ resp.of \in 1 .. k /\ k \in 1 .. Len(Act) /\ IsCommand(resp.of) /\ Call = Act[k]
      /\ Len(Act) \in Nat /\ DOMAIN Act = 1 .. Len(Act) /\ talk[resp.of] \in Act[resp.of].talks
      /\ resp.at \in 1 .. Len(talk[resp.of])
  BY FoundFacts, CallIs DEF Told
<1>2. Command(k) \in 1 .. k /\ resp.of <= Command(k) /\ (IsCommand(k) => Command(k) = k)
  BY <1>1, CommandIs
<1> SUFFICES ASSUME resp.of # Command(k) PROVE FALSE
  OBVIOUS
<1>3. resp.of \in 1 .. Command(k) - 1
  BY <1>1, <1>2
<1>4. Foreign(k, resp.of) \/ (Act[k].kind = "cmd" /\ Prompted(resp.of))
  BY <1>1, <1>3, FoundFacts DEF AnswersDiffer
<1>5. CASE Foreign(k, resp.of)
  BY <1>1, <1>5, FoundEnds DEF Foreign
<1>6. CASE Act[k].kind = "cmd" /\ Prompted(resp.of)
  <2>1. pc = "io" /\ Fresh /\ ~failed
    BY <1>1, <1>6, FoundFacts DEF AnswerInv, SaidInv, Consumed
  <2>2. resp.of \in 1 .. k - 1
    BY <1>1, <1>2, <1>3
  <2> QED BY <1>6, <2>1, <2>2 DEF AnswerInv, SaidInv, Consumed
<1> QED BY <1>4, <1>5, <1>6

\* If it is the prompt that ends a talk, nothing is left of that.
LEMMA FoundLast ==
  ASSUME NEW talk \in Tales, AnswersDiffer, OrderInv, AnswerInv(talk), Found, Call.kind = "cmd", Prompted(k)
  PROVE  line = <<>> /\ toBoard = <<>>
<1> DEFINE n == Len(Call.text)
           m == Len(str)
<1>1. /\ resp \in Byte /\ k \in 1 .. Len(Act) /\ Call = Act[k] /\ Told(talk, resp) /\ k \in Nat /\ Newest = k
      /\ m \in Nat /\ n \in Nat /\ n >= 1 /\ resp.at \in Nat /\ Len(Act) \in Nat
  BY FoundFacts, OrderFacts, CallIs DEF OrderInv
<1>2. resp.of = k
  <2>1. Command(k) = k
    <3>1. IsCommand(k) /\ k \in 1 .. k
      BY <1>1 DEF IsCommand
    <3> QED BY <1>1, <3>1, CommandIs
  <2> QED BY <2>1, FoundOwn
<1>3. /\ talk[k] \in Act[k].talks /\ resp.at \in 1 .. Len(talk[k]) /\ EndsAs(k, talk[k], resp.at)
  BY <1>1, <1>2, FoundEnds DEF Told
<1>4. Act[k].anywhere \/ resp.at + 1 - n < 1 \/ LineStart(talk[k], resp.at + 1 - n)
  <2> SUFFICES ASSUME ~Call.anywhere, resp.at + 1 - n >= 1 PROVE LineStart(talk[k], resp.at + 1 - n)
    BY <1>1
  <2>1. n = m + 1
    BY FoundFacts
  <2>2. CASE str = <<>>
    <3>1. m = 0 /\ resp.at + 1 - n = resp.at /\ resp.c # "LF" /\ Begins(talk, resp)
      <4>1. m = 0
        BY <2>2, EmptySeq
      <4>2. resp.c # "LF"
        BY DEF Found, EndsLine
      <4> QED BY <1>1, <2>1, <2>2, <4>1, <4>2, FoundFacts DEF AnswerInv, SaidInv, Started
    <3> QED BY <1>2, <3>1 DEF Begins
  <2>3. CASE str # <<>>
    <3>1. 1 \in 1 .. m
      BY <1>1, <2>3, OrderFacts DEF OrderInv
    <3>2. \/ str[1].of = resp.of /\ resp.at = str[1].at + (m + 1 - 1)
          \/ str[1].of < resp.of /\ resp.at <= m + 1 - 1
      BY <3>1, FoundFacts, PlaceNext DEF AnswerInv, SaidInv
    <3>3. str[1].at \in Nat
      BY <3>1, OrderFacts DEF OrderInv
    <3>4. str[1].of = k /\ str[1].at = resp.at + 1 - n
      BY <1>1, <1>2, <2>1, <3>2, <3>3
    <3>5. Begins(talk, str[1]) /\ str[1].c # "LF"
      BY <2>3, <3>1, FoundFacts DEF AnswerInv, SaidInv, Started, Placed
    <3> QED BY <3>4, <3>5 DEF Begins
  <2> QED BY <2>2, <2>3
<1>5. resp.at = Len(talk[k])
  BY <1>1, <1>3, <1>4 DEF Prompted
<1>6. line = <<>>
  <2> SUFFICES ASSUME line # <<>> PROVE FALSE
    OBVIOUS
  <2>1. Succeeds(resp, line[1]) /\ 1 \in 1 .. Len(line) /\ line[1] \in Byte
    BY ByteSeen DEF Found
  <2>2. line[1].of <= k /\ line[1].of \in Nat /\ Told(talk, line[1])
    BY <1>1, <2>1, OrderFacts DEF OrderInv, Ordered, AnswerInv, SaidInv, Spoken
  <2>3. line[1].of = k /\ line[1].at = resp.at + 1
    BY <1>1, <1>2, <2>1, <2>2 DEF Succeeds, Follows
  <2> QED BY <1>1, <1>5, <2>2, <2>3 DEF Told
<1>7. toBoard = <<>>
  <2> SUFFICES ASSUME toBoard # <<>> PROVE FALSE
    OBVIOUS
  <2>1. 1 \in 1 .. Len(toBoard) /\ toBoard[1] \in Nat
    BY OrderFacts DEF OrderInv
  <2>2. resp.of < toBoard[1] /\ toBoard[1] <= k
    BY <1>1, <2>1 DEF OrderInv, Ordered
  <2> QED BY <1>1, <1>2, <2>1, <2>2
<1> QED BY <1>6, <1>7

\* Nothing of a talk that its prompt ended is left.
LEMMA ConsumedKept ==
  ASSUME NEW talk \in Tales, AnswersDiffer, OrderInv, AnswerInv(talk), [Next]_vars, ~Answer
  PROVE  Consumed'
<1> DEFINE Gone(j) == /\ \A i \in 1 .. Len(line) : line[i].of # j
                      /\ \A i \in 1 .. Len(toBoard) : toBoard[i] # j
                      /\ pc = "io" /\ Fresh => resp.of # j
                      /\ pc = "io" => \A i \in 1 .. Len(str) : str[i].of # j
<1>1. /\ pc = "io" /\ Call.kind = "cmd" => ~failed
      /\ ~failed => \A j \in 1 .. k - 1 : Prompted(j) => Gone(j)
  BY DEF AnswerInv, SaidInv, Consumed
<1>2. SUFFICES /\ pc' = "io" /\ Call'.kind = "cmd" => ~failed'
               /\ ~failed' => \A j \in 1 .. k' - 1 : Prompted(j) => Gone(j)'
  BY DEF Consumed
<1>3. CASE Idle
  <2>1. UNCHANGED <<k, pc, failed, str, resp, line, toBoard>> /\ Fresh' = Fresh /\ Call' = Call
    BY <1>3 DEF Idle, Call, parser
  <2> QED BY <1>1, <2>1
<1>4. CASE ByteArrives
  <2>1. /\ UNCHANGED <<k, pc, failed, str, toBoard>> /\ Call' = Call /\ resp' = line[1] /\ 1 \in 1 .. Len(line)
        /\ \A i \in 1 .. Len(line') : i + 1 \in 1 .. Len(line) /\ line'[i] = line[i + 1]
    BY <1>4, ByteTaken
  <2> QED BY <1>1, <2>1
<1>5. CASE Timeout
  BY <1>5 DEF Timeout, Over
<1>6. k \in Nat
  BY OrderFacts DEF OrderInv
<1>7. CASE LineEnd \/ Await
  <2>1. /\ UNCHANGED <<k, failed, line, toBoard>> /\ Call' = Call /\ ~Fresh' /\ str' = <<>>
        /\ Call.kind = "cmd" => pc = "io"
    BY <1>7 DEF LineEnd, Await, Returns, board, Read, Begin, Call, Fresh
  <2>2. Len(str') = 0
    BY <2>1, EmptySeq
  <2> QED BY <1>1, <2>1, <2>2
<1>8. CASE Character
  <2>1. /\ UNCHANGED <<k, failed, line, toBoard>> /\ Call' = Call /\ ~Fresh' /\ pc = "io" /\ Fresh
        /\ str' = str \/ str' = Append(str, resp)
        /\ resp \in Byte
    BY <1>8, ByteSeen DEF Character, Returns, board, Read, Begin, Call, Fresh
  <2>2. \A i \in 1 .. Len(str') : str'[i] = resp \/ (i \in 1 .. Len(str) /\ str'[i] = str[i])
    BY <2>1, StrGrows DEF OrderInv, ReadInv, ParseType
  <2>3. ~failed => \A j \in 1 .. k - 1 : Prompted(j) => \A i \in 1 .. Len(str') : str'[i].of # j
    BY <1>1, <2>1, <2>2
  <2> QED BY <1>1, <2>1, <2>3
<1>9. CASE Found
  <2>1. k' = k + 1 /\ pc' # "io" /\ UNCHANGED <<failed, line, toBoard>>
    BY <1>9 DEF Found, Over, Returns, board
  <2>2. \A j \in 1 .. k' - 1 : j = k \/ j \in 1 .. k - 1
    BY <1>6, <2>1
  <2>3. ASSUME ~failed', NEW j \in 1 .. k' - 1, Prompted(j) PROVE Gone(j)'
    <3>1. ~failed /\ (j = k \/ j \in 1 .. k - 1)
      BY <2>1, <2>2, <2>3
    <3>2. CASE j = k
      <4>1. line' = <<>> /\ toBoard' = <<>>
        BY <1>9, <2>1, <2>3, <3>1, <3>2, FoundLast, FoundFacts DEF Prompted
      <4> QED BY <2>1, <4>1, EmptySeq
    <3>3. CASE j \in 1 .. k - 1
      BY <1>1, <2>1, <2>3, <3>1, <3>3
    <3> QED BY <3>1, <3>2, <3>3
  <2> QED BY <2>1, <2>3
<1>10. CASE SkipLines
  <2>1. /\ UNCHANGED <<failed, line, toBoard, str, resp>> /\ Call.kind = "skip" /\ Call = Act[k] /\ pc = "io"
        /\ (k' = k /\ ~Fresh') \/ (k' = k + 1 /\ pc' # "io")
    BY <1>10 DEF SkipLines, Returns, board, Read, Begin, Over, Fresh, Call
  <2>2. ~Prompted(k)
    BY <2>1 DEF Prompted
  <2>3. ASSUME ~failed, NEW j \in 1 .. k - 1, Prompted(j) PROVE Gone(j)'
    BY <1>1, <2>1, <2>3
  <2>4. \A j \in 1 .. k' - 1 : j = k \/ j \in 1 .. k - 1
    BY <1>6, <2>1
  <2>5. pc' = "io" => Call' = Call
    BY <2>1 DEF Call
  <2> QED BY <2>1, <2>2, <2>3, <2>4, <2>5
<1>11. CASE SendTo
  <2>1. /\ pc = "call" /\ UNCHANGED <<failed, line, resp>>
        /\ \/ failed /\ pc' # "io"
           \/ ~failed /\ k' = k /\ toBoard' = Append(toBoard, k) /\ str' = <<>> /\ ~Fresh'
    BY <1>11 DEF SendTo, Read, Begin, Over, Fresh
  <2>2. k \in DOMAIN Act /\ toBoard \in Seq(DOMAIN Act)
    BY <2>1, CallIs DEF OrderInv, ReadInv, CallType, BoardType
  <2>3. CASE toBoard' = Append(toBoard, k) /\ k' = k /\ str' = <<>> /\ ~Fresh'
    <3>1. \A i \in 1 .. Len(toBoard') : toBoard'[i] = k \/ (i \in 1 .. Len(toBoard) /\ toBoard'[i] = toBoard[i])
      <4>1. /\ Len(toBoard) \in Nat /\ Len(toBoard') = Len(toBoard) + 1 /\ toBoard'[Len(toBoard) + 1] = k
            /\ \A i \in 1 .. Len(toBoard) : toBoard'[i] = toBoard[i]
        BY <2>2, <2>3, AppendProperties, LenProperties
      <4>2. \A i \in 1 .. Len(toBoard') : i \in 1 .. Len(toBoard) \/ i = Len(toBoard) + 1
        BY <4>1
      <4> QED BY <4>1, <4>2
    <3>2. Len(str') = 0
      BY <2>3, EmptySeq
    <3>3. \A j \in 1 .. k - 1 : j # k
      BY <1>6
    <3>4. ASSUME ~failed, NEW j \in 1 .. k - 1, Prompted(j) PROVE Gone(j)'
      BY <1>1, <2>1, <2>3, <3>1, <3>2, <3>3, <3>4
    <3> QED BY <2>1, <2>3, <3>4
  <2> QED BY <2>1, <2>3
<1>12. CASE SendCmd
  <2>1. /\ pc = "call" /\ UNCHANGED <<failed, line, resp, str>> /\ Call.kind = "send" /\ Call = Act[k]
        /\ toBoard' = Append(toBoard, k) /\ k' = k + 1 /\ pc' # "io"
    BY <1>12 DEF SendCmd, Over, parser, Call
  <2>2. k \in DOMAIN Act /\ toBoard \in Seq(DOMAIN Act) /\ ~Prompted(k)
    BY <2>1, CallIs DEF OrderInv, ReadInv, CallType, BoardType, Prompted
  <2>3. \A i \in 1 .. Len(toBoard') : toBoard'[i] = k \/ (i \in 1 .. Len(toBoard) /\ toBoard'[i] = toBoard[i])
    <3>1. /\ Len(toBoard) \in Nat /\ Len(toBoard') = Len(toBoard) + 1 /\ toBoard'[Len(toBoard) + 1] = k
          /\ \A i \in 1 .. Len(toBoard) : toBoard'[i] = toBoard[i]
      BY <2>1, <2>2, AppendProperties, LenProperties
    <3>2. \A i \in 1 .. Len(toBoard') : i \in 1 .. Len(toBoard) \/ i = Len(toBoard) + 1
      BY <3>1
    <3> QED BY <3>1, <3>2
  <2>4. \A j \in 1 .. k' - 1 : j = k \/ (j \in 1 .. k - 1 /\ j # k)
    BY <1>6, <2>1
  <2>5. ASSUME ~failed, NEW j \in 1 .. k - 1, j # k, Prompted(j) PROVE Gone(j)'
    BY <1>1, <2>1, <2>3, <2>5
  <2> QED BY <2>1, <2>2, <2>4, <2>5
<1> QED BY <1>3, <1>4, <1>5, <1>7, <1>8, <1>9, <1>10, <1>11, <1>12, IdleSteps

\* What is heard is heard of a call's own command.
LEMMA OwnKept ==
  ASSUME NEW talk \in Tales, AnswersDiffer, OrderInv, AnswerInv(talk), [Next]_vars PROVE AnswerIsOwn'
<1>1. AnswerIsOwn
  BY DEF AnswerInv, SaidInv
<1>2. CASE Found
  <2>1. heard' = [heard EXCEPT ![k] = resp.of] /\ heard \in [DOMAIN Act -> 0 .. Len(Act)]
    BY <1>2 DEF Found, OrderInv, ReadInv, HeardType
  <2>2. \A i \in DOMAIN Act : heard'[i] = IF i = k THEN resp.of ELSE heard[i]
    BY <2>1
  <2> QED BY <1>1, <1>2, <2>2, FoundOwn DEF AnswerIsOwn
<1>3. CASE heard' = heard
  BY <1>1, <1>3 DEF AnswerIsOwn
<1> QED
  BY <1>2, <1>3
     DEF Next, Host, TimerHandler, ReadHandler, ReadAgain, Timeout, LineEnd, Character, SkipLines,
         SendTo, SendCmd, Await, ByteArrives, Expire, Answer, vars, caller

\* The last line of an earlier talk does not run into the talk of the command whose
\* prompt is awaited: the byte that comes next is of the same talk, and ends the
\* line after a dropped CR.
LEMMA LineGoesOn ==
  ASSUME NEW talk \in Tales, AnswersDiffer, OrderInv, AnswerInv(talk), ByteArrives,
         Call.kind = "cmd", str # <<>>, str[Len(str)].of # k
  PROVE  resp'.of = str[Len(str)].of /\ (resp'.at = str[Len(str)].at + 1 \/ resp'.c = "LF")
<1> DEFINE last == str[Len(str)]
           j == last.of
<1>1. /\ pc = "io" /\ ~Fresh /\ resp' = line[1] /\ resp' \in Byte /\ 1 \in 1 .. Len(line)
      /\ resp # NoByte => Succeeds(resp, resp')
  BY ByteTaken
<1>2. /\ k \in 1 .. Len(Act) /\ Call = Act[k] /\ Newest = k /\ Len(Act) \in Nat /\ DOMAIN Act = 1 .. Len(Act)
      /\ Len(str) \in 1 .. Len(str)
  BY <1>1, CallIs, OrderFacts DEF OrderInv, ReadInv, CallType, Call, Newest
<1>3. /\ Told(talk, last) /\ last.c \notin {"CR", "LF"} /\ last.at \in Nat
      /\ j \in Nat /\ resp.of \in Nat /\ j <= resp.of /\ resp.of <= k
  BY <1>1, <1>2, OrderFacts DEF AnswerInv, SaidInv, Spoken, Placed, OrderInv, Ordered
<1>4. \/ resp = last
      \/ resp.c = "CR" /\ resp.of = j /\ resp.at = last.at + 1
  BY <1>1, <1>2 DEF AnswerInv, SaidInv, Started
<1>5. resp # NoByte /\ Told(talk, resp)
  <2>1. resp # NoByte
    BY <1>1, <1>3, <1>4 DEF OrderInv, Built
  <2> QED BY <2>1 DEF AnswerInv, SaidInv, Spoken
<1>6. j \in 1 .. k - 1 /\ IsCommand(j) /\ talk[j] \in Act[j].talks /\ last.at \in 1 .. Len(talk[j])
      /\ talk[j] \in Seq(Chars) /\ last.c = talk[j][last.at]
  <2>1. IsCommand(j) /\ j \in DOMAIN Act /\ talk[j] \in Act[j].talks /\ last.at \in 1 .. Len(talk[j])
        /\ last.c = talk[j][last.at]
    BY <1>3 DEF Told
  <2>2. talk[j] \in Seq(Chars)
    BY <2>1 DEF Tales
  <2> QED BY <1>2, <1>3, <2>1, <2>2
<1>7. ~Prompted(j)
  BY <1>1, <1>2, <1>6 DEF AnswerInv, SaidInv, Consumed
<1>8. Command(k) = k
  <2>1. IsCommand(k) /\ k \in 1 .. k
    BY <1>2 DEF IsCommand
  <2> QED BY <1>2, <2>1, CommandIs
<1>9. Closed(j)
  BY <1>2, <1>6, <1>7, <1>8 DEF AnswersDiffer
<1>10. PICK b \in last.at + 1 .. Len(talk[j]) : talk[j][b] = "LF"
  BY <1>3, <1>6, <1>9 DEF Closed
<1>11. Len(talk[j]) \in Nat
  BY <1>6, LenProperties
<1> HIDE DEF last, j
<1>12. CASE resp = last
  <2>1. resp.of = j /\ resp.at < Len(talk[resp.of])
    BY <1>3, <1>10, <1>11, <1>12 DEF j
  <2>2. resp'.of = resp.of
    BY <1>1, <1>5, <2>1 DEF AnswerInv, SaidInv, Whole
  <2>3. resp'.at = resp.at + 1
    BY <1>1, <1>3, <1>5, <2>2 DEF Succeeds, Follows
  <2> QED BY <1>12, <2>1, <2>2, <2>3 DEF j, last
<1>13. CASE resp.c = "CR" /\ resp.of = j /\ resp.at = last.at + 1
  <2>1. talk[j][resp.at] = "CR"
    BY <1>5, <1>13 DEF Told
  <2>2. b # resp.at
    BY <1>10, <2>1
  <2>3. resp.at < Len(talk[resp.of])
    BY <1>3, <1>10, <1>11, <1>13, <2>2
  <2>4. resp'.of = resp.of
    BY <1>1, <1>5, <2>3 DEF AnswerInv, SaidInv, Whole
  <2>5. resp'.c = "LF"
    BY <1>1, <1>5, <1>13, <2>4 DEF Succeeds
  <2> QED BY <1>13, <2>4, <2>5 DEF j, last
<1> QED BY <1>4, <1>12, <1>13 DEF j, last

\* Behind the end of a line, or behind one that is too long, another may begin.
LEMMA NextLine ==
  ASSUME NEW talk \in Tales, OrderInv, AnswerInv(talk), LineEnd, Call.kind = "cmd", line # <<>>
  PROVE  Begins(talk, line[1])
<1> SUFFICES ASSUME line[1].of = k PROVE LineStart(talk[k], line[1].at)
  BY DEF Begins
<1>1. Returns({"cmd", "until"}) /\ tryNum < Tries /\ EndsLine(resp.c)
  BY DEF LineEnd
<1>2. /\ resp \in Byte /\ resp # NoByte /\ Fresh /\ pc = "io" /\ Succeeds(resp, line[1])
      /\ line[1] \in Byte
  BY <1>1, ByteSeen
<1>3. Told(talk, resp) /\ resp.at \in Nat /\ resp.of \in Nat /\ line[1].at \in Nat /\ Limit \in Nat
  BY <1>2, OrderFacts, CallIs DEF AnswerInv, SaidInv, Spoken, OrderInv, Told
<1>4. CASE line[1].at = 1
  BY <1>4 DEF LineStart
<1>5. CASE resp.of = k /\ line[1].at = resp.at + 1
  <2>1. CASE resp.c = "LF"
    <3>1. talk[k][line[1].at - 1] = "LF"
      BY <1>3, <1>5, <2>1 DEF Told
    <3> QED BY <3>1 DEF LineStart
  <2>2. CASE resp.c # "LF"
    <3> DEFINE m == Len(str)
    <3>1. m = Limit + 1 /\ m \in Nat /\ str # <<>> /\ 1 \in 1 .. m /\ m \in 1 .. m
      <4>1. m > Limit /\ m <= Limit + 1 /\ m \in Nat
        BY <1>1, <2>2, OrderFacts DEF EndsLine, OrderInv, ReadInv, ParseType
      <4> QED BY <1>3, <4>1, EmptySeq
    <3>2. Follows(str[m], resp)
      BY <1>2, <2>2, <3>1 DEF OrderInv, Built
    <3>3. str[m].of = k /\ str[1].of = k
      BY <1>2, <1>5, <3>1 DEF AnswerInv, SaidInv, Started
    <3>4. str[1].at \in Nat /\ str[1].at >= 1 /\ str[m].at = str[1].at + (m - 1) /\ resp.at = str[m].at + 1
      <4>1. str[1].of = str[m].of /\ str[m].of \in Nat /\ str[1].at \in Nat /\ Told(talk, str[1])
        BY <1>2, <3>1, <3>3, OrderFacts DEF OrderInv, AnswerInv, SaidInv, Spoken
      <4>2. str[m].at = str[1].at + (m - 1)
        BY <1>2, <3>1, <4>1 DEF AnswerInv, SaidInv, Placed
      <4>3. resp.at = str[m].at + 1
        BY <1>5, <3>2, <3>3, <4>1 DEF Follows
      <4> QED BY <4>1, <4>2, <4>3 DEF Told
    <3>5. line[1].at = str[1].at + (Limit + 2) /\ line[1].at > Limit + 2
      BY <1>3, <1>5, <3>1, <3>4
    <3>6. ASSUME NEW d \in 1 .. Limit + 2 PROVE talk[k][line[1].at - d] # "LF"
      <4>1. CASE d = 1
        <5>1. line[1].at - d = resp.at
          BY <1>3, <1>5, <4>1
        <5> QED BY <1>3, <1>5, <2>2, <5>1 DEF Told
      <4>2. CASE d # 1
        <5> DEFINE i == Limit + 3 - d
        <5>1. i \in 1 .. m /\ i \in Nat /\ 1 \in 1 .. i
          BY <1>3, <3>1, <4>2
        <5>2. \/ str[1].of = str[i].of /\ str[i].at = str[1].at + (i - 1)
              \/ str[1].of < str[i].of /\ str[i].at <= i - 1
          BY <1>2, <5>1 DEF AnswerInv, SaidInv, Placed
        <5>3. \/ str[i].of = str[m].of /\ str[m].at = str[i].at + (m - i)
              \/ str[i].of < str[m].of /\ str[m].at <= m - i
          <6>1. i \in 1 .. m /\ m \in 1 .. m
            BY <3>1, <5>1
          <6> QED BY <1>2, <6>1 DEF AnswerInv, SaidInv, Placed
        <5>4. str[i].of \in Nat /\ str[i].at \in Nat /\ Told(talk, str[i]) /\ str[i].c # "LF" /\ k \in Nat
          BY <1>2, <5>1, OrderFacts DEF OrderInv, AnswerInv, SaidInv, Spoken, Placed
        <5> HIDE DEF i
        <5>5. str[i].of = k /\ str[i].at = str[1].at + (i - 1)
          BY <3>3, <5>2, <5>3, <5>4
        <5>6. str[i].at = line[1].at - d
          <6>1. i = Limit + 3 - d /\ d \in Nat /\ Limit \in Nat
            BY <1>3 DEF i
          <6>2. str[i].at = str[1].at + (Limit + 2 - d)
            BY <3>4, <5>5, <6>1
          <6>3. PICK f \in Nat : f = str[1].at
            BY <3>4
          <6>4. str[i].at = f + (Limit + 2 - d) /\ line[1].at = f + (Limit + 2)
            BY <3>5, <6>2, <6>3
          <6>5. f + (Limit + 2 - d) = (f + (Limit + 2)) - d
            BY <6>1, <6>3
          <6> QED BY <6>4, <6>5
        <5> QED BY <5>4, <5>5, <5>6 DEF Told
      <4> QED BY <4>1, <4>2
    <3> QED BY <3>5, <3>6 DEF LineStart
  <2> QED BY <2>1, <2>2
<1> QED BY <1>2, <1>4, <1>5 DEF Succeeds, Follows

\* The lines of a command's talk begin as lines do.
LEMMA StartedKept ==
  ASSUME NEW talk \in Tales, AnswersDiffer, OrderInv, AnswerInv(talk), [Next]_vars, ~Answer
  PROVE  Started(talk)'
<1> SUFFICES ASSUME pc' = "io", Call'.kind = "cmd" PROVE Started(talk)'
  BY DEF Started
<1>1. CASE ByteArrives
  <2>1. /\ pc = "io" /\ ~Fresh /\ Fresh' /\ resp' = line[1] /\ 1 \in 1 .. Len(line) /\ UNCHANGED <<k, pc, str>>
        /\ Call' = Call
    BY <1>1, ByteTaken
  <2>2. line # <<>>
    BY <2>1, EmptySeq
  <2>3. str = <<>> => Begins(talk, resp')
    BY <2>1, <2>2 DEF AnswerInv, SaidInv, Started
  <2>4. ASSUME str # <<>>, str[Len(str)].of # k
        PROVE  /\ resp'.of = str[Len(str)].of
               /\ resp'.at = str[Len(str)].at + 1 \/ resp'.c = "LF"
    BY <1>1, <2>1, <2>4, LineGoesOn
  <2>5. str # <<>> => Begins(talk, str[1]) /\ (str[Len(str)].of = k => str[1].of = k)
    BY <2>1 DEF AnswerInv, SaidInv, Started
  <2> QED BY <2>1, <2>3, <2>4, <2>5 DEF Started, Begins
<1>2. CASE LineEnd
  <2>1. k' = k /\ line' = line /\ ~Fresh' /\ str' = <<>> /\ Call' = Call
    BY <1>2 DEF LineEnd, Returns, board, Read, Begin, Fresh, Call
  <2>2. line # <<>> => Begins(talk, line[1])
    BY <1>2, <2>1, NextLine
  <2> QED BY <2>1, <2>2 DEF Started, Begins
<1>3. CASE Character
  <2>1. /\ k' = k /\ line' = line /\ resp' = resp /\ ~Fresh' /\ Call' = Call /\ Call.kind = "cmd"
        /\ Returns({"cmd", "until"}) /\ tryNum < Tries /\ ~EndsLine(resp.c)
        /\ str' = IF resp.c = "CR" THEN str ELSE Append(str, resp)
    BY <1>3 DEF Character, Returns, board, Read, Begin, Fresh, Call
  <2>2. /\ pc = "io" /\ Fresh /\ resp \in Byte /\ resp.c # "LF"
        /\ line # <<>> => Succeeds(resp, line[1]) /\ line[1] \in Byte
    BY <2>1, ByteSeen DEF EndsLine
  <2>3. /\ str = <<>> => Begins(talk, resp)
        /\ str # <<>> => /\ Begins(talk, str[1])
                         /\ str[Len(str)].of = k => str[1].of = k
                         /\ str[Len(str)].of # k =>
                              resp.of = str[Len(str)].of /\ resp.at = str[Len(str)].at + 1
    BY <2>1, <2>2 DEF AnswerInv, SaidInv, Started
  <2>4. CASE resp.c = "CR"
    <3>1. str' = str
      BY <2>1, <2>4
    <3>2. line # <<>> => Begins(talk, line[1])
      BY <2>2, <2>4 DEF Begins, Succeeds, Follows, LineStart
    <3> QED BY <2>1, <2>3, <2>4, <3>1, <3>2 DEF Started, Begins
  <2>5. CASE resp.c # "CR"
    <3>1. /\ str' # <<>> /\ str'[Len(str')] = resp /\ Len(str) \in Nat
          /\ \A i \in 1 .. Len(str) : str'[i] = str[i]
          /\ str = <<>> => Len(str) = 0
          /\ Len(str') = Len(str) + 1
      BY <2>1, <2>2, <2>5, StrGrows, EmptySeq DEF OrderInv, ReadInv, ParseType
    <3>2. CASE str = <<>>
      <4>1. str'[1] = resp
        BY <3>1, <3>2
      <4> QED BY <2>1, <2>3, <3>1, <3>2, <4>1 DEF Started, Begins
    <3>3. CASE str # <<>>
      <4>1. str'[1] = str[1]
        <5>1. 1 \in 1 .. Len(str)
          BY <3>3, OrderFacts DEF OrderInv
        <5> QED BY <3>1, <5>1
      <4> QED BY <2>1, <2>3, <3>1, <3>3, <4>1 DEF Started, Begins
    <3> QED BY <3>2, <3>3
  <2> QED BY <2>4, <2>5
<1>4. CASE SendTo
  <2>1. k' = k /\ line' = line /\ ~Fresh' /\ str' = <<>> /\ Newest = k - 1 /\ Call' = Call
    BY <1>4 DEF SendTo, Read, Begin, Over, Fresh, Newest, Call
  <2>2. line # <<>> => line[1].of # k
    <3>1. line # <<>> => line[1].of <= k - 1 /\ line[1].of \in Nat /\ k \in Nat
      BY <2>1, OrderFacts DEF OrderInv, Ordered
    <3> QED BY <3>1
  <2> QED BY <2>1, <2>2 DEF Started, Begins
<1>5. CASE Timeout \/ Found \/ SendCmd
  BY <1>5 DEF Timeout, Found, SendCmd, Over
<1>6. CASE SkipLines \/ Await
  <2>1. pc' = "io" => Call' = Call /\ Call.kind # "cmd"
    BY <1>6 DEF SkipLines, Await, Returns, Over, Call
  <2> QED BY <2>1
<1>7. CASE Idle
  BY <1>7, IdleKeeps DEF AnswerInv, SaidInv
<1> QED BY <1>1, <1>2, <1>3, <1>4, <1>5, <1>6, <1>7, IdleSteps

\* Command h is answered with talk t: what changes, and what does not.
Answered(h, t) ==
  /\ t \in Seq(Chars) /\ IsCommand(h) /\ h \in Nat /\ h <= Newest /\ Len(t) \in Nat
  /\ Len(line) \in Nat /\ Len(line') = Len(line) + Len(t)
  /\ \A i \in 1 .. Len(line) : line'[i] = line[i] /\ line[i].of \in Nat /\ line[i].of < h
  /\ \A i \in Len(line) + 1 .. Len(line) + Len(t) :
       line'[i] = [c |-> t[i - Len(line)], of |-> h, at |-> i - Len(line)]
  /\ \A i \in 1 .. Len(toBoard') : i + 1 \in 1 .. Len(toBoard) /\ toBoard'[i] = toBoard[i + 1]
  /\ 1 \in 1 .. Len(toBoard) /\ toBoard[1] = h /\ toBoard' = Tail(toBoard)
  /\ resp.of \in Nat /\ resp.of < h
  /\ UNCHANGED <<k, pc, failed, heard, reader, parser, timely>> /\ Call' = Call /\ Fresh' = Fresh

\* The board answers a command, with one of its talks.
LEMMA AnswerFacts ==
  ASSUME OrderInv, Asked, Answer PROVE \E h \in DOMAIN Act : \E t \in Act[h].talks : Answered(h, t)
<1> DEFINE h == Head(toBoard)
<1>1. /\ toBoard # <<>> /\ toBoard' = Tail(toBoard) /\ h \in DOMAIN Act
      /\ UNCHANGED <<caller, reader, parser>>
  BY AnswerIs DEF OrderInv, ReadInv
<1>2. PICK t \in Seq(Chars) : t \in Act[h].talks /\ line' = line \o Talk(t, h)
  BY AnswerIs DEF OrderInv, ReadInv
<1>3. /\ Len(t) \in Nat /\ \A j \in 1 .. Len(t) : Talk(t, h)[j] = [c |-> t[j], of |-> h, at |-> j]
      /\ Talk(t, h) \in Seq(Byte) /\ Len(Talk(t, h)) = Len(t)
  BY <1>1, TalkIs
<1>4. /\ toBoard \in Seq(DOMAIN Act) /\ Len(toBoard) \in Nat /\ 1 \in 1 .. Len(toBoard) /\ h = toBoard[1]
      /\ Len(line) \in Nat /\ line \in Seq(Byte)
  BY <1>1, OrderFacts DEF OrderInv, ReadInv, BoardType
<1>5. \A i \in 1 .. Len(toBoard') : i + 1 \in 1 .. Len(toBoard) /\ toBoard'[i] = toBoard[i + 1]
  <2>1. /\ Len(Tail(toBoard)) = Len(toBoard) - 1
        /\ \A i \in 1 .. Len(Tail(toBoard)) : Tail(toBoard)[i] = toBoard[i + 1]
    BY <1>1, <1>4, HeadTailProperties
  <2> QED BY <1>1, <1>4, <2>1
<1>6. IsCommand(h) /\ h \in Nat /\ h <= Newest
  BY <1>4, OrderFacts DEF OrderInv, Ordered, Asked
<1>7. /\ resp.of \in Nat /\ resp.of < h
      /\ \A i \in 1 .. Len(line) : line[i].of \in Nat /\ line[i].of < h
  BY <1>1, <1>4, OrderFacts DEF OrderInv, Ordered
<1>8. UNCHANGED <<k, pc, failed, heard, reader, parser, timely>> /\ Call' = Call /\ Fresh' = Fresh
  BY <1>1 DEF caller, reader, parser, Call, Fresh, Answer
<1> HIDE DEF h
<1>9. /\ Len(line') = Len(line) + Len(t)
      /\ \A i \in 1 .. Len(line) + Len(t) :
           line'[i] = IF i <= Len(line) THEN line[i] ELSE Talk(t, h)[i - Len(line)]
  BY <1>2, <1>3, <1>4, TalkSaid
<1>10. \A i \in 1 .. Len(line) : line'[i] = line[i]
  BY <1>3, <1>4, <1>9
<1>11. ASSUME NEW i \in Len(line) + 1 .. Len(line) + Len(t)
       PROVE  line'[i] = [c |-> t[i - Len(line)], of |-> h, at |-> i - Len(line)]
  <2>1. i - Len(line) \in 1 .. Len(t) /\ i \in 1 .. Len(line) + Len(t) /\ ~(i <= Len(line))
    BY <1>3, <1>4
  <2> QED BY <1>3, <1>9, <2>1
<1>12. Answered(h, t)
  BY <1>1, <1>2, <1>3, <1>4, <1>5, <1>6, <1>7, <1>8, <1>9, <1>10, <1>11 DEF Answered
<1> QED BY <1>1, <1>2, <1>12

\* What is known of the bytes, when it is known what the board says for command h.
LEMMA SaidAnswer ==
  ASSUME NEW talk \in Tales, NEW new \in Tales, NEW h \in DOMAIN Act, NEW t \in Act[h].talks,
         OrderInv, SaidInv(talk), Answered(h, t),
         new[h] = t, \A j \in DOMAIN Act \ {h} : new[j] = talk[j]
  PROVE  SaidInv(new)'
<1>1. /\ t \in Seq(Chars) /\ IsCommand(h) /\ h \in Nat /\ h <= Newest /\ Len(t) \in Nat
      /\ Len(line) \in Nat /\ Len(line') = Len(line) + Len(t)
      /\ \A i \in 1 .. Len(line) : line'[i] = line[i] /\ line[i].of \in Nat /\ line[i].of < h
      /\ \A i \in Len(line) + 1 .. Len(line) + Len(t) :
           line'[i] = [c |-> t[i - Len(line)], of |-> h, at |-> i - Len(line)]
      /\ \A i \in 1 .. Len(toBoard') : i + 1 \in 1 .. Len(toBoard) /\ toBoard'[i] = toBoard[i + 1]
      /\ 1 \in 1 .. Len(toBoard) /\ toBoard[1] = h /\ toBoard' = Tail(toBoard)
      /\ resp.of \in Nat /\ resp.of < h
      /\ UNCHANGED <<k, pc, failed, heard, reader, parser, timely>> /\ Call' = Call /\ Fresh' = Fresh
      /\ UNCHANGED <<str, resp>>
  BY DEF Answered, parser
<1>2. new[h] = t /\ \A j \in DOMAIN Act \ {h} : new[j] = talk[j]
  OBVIOUS
<1>3. \A i \in 1 .. Len(line') : i \in 1 .. Len(line) \/ i \in Len(line) + 1 .. Len(line) + Len(t)
  BY <1>1
<1>4. ASSUME NEW b, Told(talk, b), b.of # h PROVE Told(new, b)
  BY <1>2, <1>4 DEF Told
<1>5. ASSUME pc = "io", NEW i \in 1 .. Len(str) PROVE str[i].of \in Nat /\ str[i].of < h
  <2>1. str[i].of <= resp.of /\ str[i].of \in Nat
    BY <1>5, OrderFacts DEF SaidInv, Placed, OrderInv
  <2> QED BY <1>1, <2>1
<1>6. pc = "io" => h <= k /\ k \in Nat
  BY <1>1, OrderFacts DEF Newest, OrderInv
<1>7. ASSUME NEW i \in Len(line) + 1 .. Len(line) + Len(t)
      PROVE  /\ line'[i].c = t[i - Len(line)] /\ line'[i].of = h /\ line'[i].at = i - Len(line)
             /\ i - Len(line) \in 1 .. Len(t)
  <2>1. i - Len(line) \in 1 .. Len(t)
    BY <1>1
  <2>2. line'[i] = [c |-> t[i - Len(line)], of |-> h, at |-> i - Len(line)]
    BY <1>1
  <2> QED BY <2>1, <2>2
<1>8. Spoken(new)'
  <2>1. ASSUME NEW i \in 1 .. Len(line') PROVE Told(new, line'[i])
    <3>1. CASE i \in 1 .. Len(line)
      <4>1. Told(talk, line[i]) /\ line[i].of # h /\ line'[i] = line[i]
        BY <1>1, <3>1 DEF SaidInv, Spoken
      <4> QED BY <1>4, <4>1
    <3>2. CASE i \in Len(line) + 1 .. Len(line) + Len(t)
      BY <1>1, <1>2, <1>7, <3>2 DEF Told
    <3> QED BY <1>3, <3>1, <3>2
  <2>2. resp # NoByte => Told(new, resp)
    BY <1>1, <1>4 DEF SaidInv, Spoken
  <2>3. ASSUME pc = "io", NEW i \in 1 .. Len(str) PROVE Told(new, str[i])
    <3>1. Told(talk, str[i]) /\ str[i].of # h
      BY <1>1, <1>5, <2>3 DEF SaidInv, Spoken
    <3> QED BY <1>4, <3>1
  <2> QED BY <1>1, <2>1, <2>2, <2>3 DEF Spoken, Told
<1>9. Whole(new)'
  <2>1. ASSUME NEW i \in 1 .. Len(line'), line'[i].at < Len(new[line'[i].of])
        PROVE  i < Len(line') /\ line'[i + 1].of = line'[i].of
    <3>1. CASE i \in 1 .. Len(line)
      <4>1. Told(talk, line[i]) /\ line[i].of # h /\ line'[i] = line[i]
        BY <1>1, <3>1 DEF SaidInv, Spoken
      <4>2. line[i].at < Len(talk[line[i].of])
        BY <1>2, <2>1, <4>1 DEF Told
      <4>3. i < Len(line) /\ line[i + 1].of = line[i].of
        BY <3>1, <4>2 DEF SaidInv, Whole
      <4>4. i + 1 \in 1 .. Len(line)
        BY <1>1, <3>1, <4>3
      <4> QED BY <1>1, <4>1, <4>3, <4>4
    <3>2. CASE i \in Len(line) + 1 .. Len(line) + Len(t)
      <4>1. i - Len(line) < Len(t) /\ line'[i].of = h
        BY <1>2, <1>7, <2>1, <3>2
      <4>2. i < Len(line') /\ i + 1 \in Len(line) + 1 .. Len(line) + Len(t)
        BY <1>1, <3>2, <4>1
      <4> QED BY <1>7, <4>1, <4>2
    <3> QED BY <1>3, <3>1, <3>2
  <2>2. ASSUME resp # NoByte, resp.at < Len(new[resp.of]) PROVE line' # <<>> /\ line'[1].of = resp.of
    <3>1. resp.at < Len(talk[resp.of])
      <4>1. resp.of \in DOMAIN Act /\ resp.of # h
        BY <1>1, <2>2 DEF SaidInv, Spoken, Told
      <4> QED BY <1>2, <2>2, <4>1
    <3>2. line # <<>> /\ line[1].of = resp.of
      BY <2>2, <3>1 DEF SaidInv, Whole
    <3>3. 1 \in 1 .. Len(line) /\ Len(line') # 0
      BY <1>1, <3>2, OrderFacts DEF OrderInv
    <3>4. line' # <<>>
      BY <3>3, EmptySeq
    <3> QED BY <1>1, <3>2, <3>3, <3>4
  <2> QED BY <1>1, <2>1, <2>2 DEF Whole
<1>10. Placed'
  <2>1. Matches(str)' = Matches(str)
    BY <1>1 DEF Matches
  <2> QED BY <1>1, <2>1 DEF SaidInv, Placed
<1>11. Asked'
  BY <1>1 DEF SaidInv, Asked
<1> QED BY <1>8, <1>9, <1>10, <1>11 DEF SaidInv

\* When the board answers, it is known what it says for that command.
LEMMA AnswerSaid ==
  ASSUME NEW talk \in Tales, AnswersDiffer, OrderInv, AnswerInv(talk), Answer
  PROVE  \E new \in Tales : AnswerInv(new)'
<1>0. PICK h \in DOMAIN Act : \E t \in Act[h].talks : Answered(h, t)
  BY AnswerFacts DEF AnswerInv, SaidInv
<1>4. PICK t \in Act[h].talks : Answered(h, t)
  BY <1>0
<1>1. /\ t \in Seq(Chars) /\ IsCommand(h) /\ h \in Nat /\ h <= Newest /\ Len(t) \in Nat
      /\ Len(line) \in Nat /\ Len(line') = Len(line) + Len(t)
      /\ \A i \in 1 .. Len(line) : line'[i] = line[i] /\ line[i].of \in Nat /\ line[i].of < h
      /\ \A i \in Len(line) + 1 .. Len(line) + Len(t) :
           line'[i] = [c |-> t[i - Len(line)], of |-> h, at |-> i - Len(line)]
      /\ \A i \in 1 .. Len(toBoard') : i + 1 \in 1 .. Len(toBoard) /\ toBoard'[i] = toBoard[i + 1]
      /\ 1 \in 1 .. Len(toBoard) /\ toBoard[1] = h /\ toBoard' = Tail(toBoard)
      /\ resp.of \in Nat /\ resp.of < h
      /\ UNCHANGED <<k, pc, failed, heard, reader, parser, timely>> /\ Call' = Call /\ Fresh' = Fresh
      /\ UNCHANGED <<str, resp>>
  BY <1>4 DEF Answered, parser
<1>2. PICK new \in Tales : new[h] = t /\ \A j \in DOMAIN Act \ {h} : new[j] = talk[j]
  <2> DEFINE w == [talk EXCEPT ![h] = t]
  <2>1. w \in Tales /\ w[h] = t /\ \A j \in DOMAIN Act \ {h} : w[j] = talk[j]
    BY <1>1 DEF Tales
  <2> QED BY <2>1
<1>3. \A i \in 1 .. Len(line') : i \in 1 .. Len(line) \/ i \in Len(line) + 1 .. Len(line) + Len(t)
  BY <1>1
<1>5. ASSUME pc = "io", NEW i \in 1 .. Len(str) PROVE str[i].of \in Nat /\ str[i].of < h
  <2>1. str[i].of <= resp.of /\ str[i].of \in Nat
    BY <1>5, OrderFacts DEF AnswerInv, SaidInv, Placed, OrderInv
  <2> QED BY <1>1, <2>1
<1>6. pc = "io" => h <= k /\ k \in Nat
  BY <1>1, OrderFacts DEF Newest, OrderInv
<1>7. ASSUME NEW i \in Len(line) + 1 .. Len(line) + Len(t)
      PROVE  /\ line'[i].c = t[i - Len(line)] /\ line'[i].of = h /\ line'[i].at = i - Len(line)
             /\ i - Len(line) \in 1 .. Len(t)
  <2>1. i - Len(line) \in 1 .. Len(t)
    BY <1>1
  <2>2. line'[i] = [c |-> t[i - Len(line)], of |-> h, at |-> i - Len(line)]
    BY <1>1
  <2> QED BY <2>1, <2>2
<1>8. SaidInv(new)'
  BY <1>2, <1>4, SaidAnswer DEF AnswerInv
<1>12. Consumed'
  <2>1. ASSUME ~failed, NEW j \in 1 .. k - 1, Prompted(j)
        PROVE  /\ \A i \in 1 .. Len(line') : line'[i].of # j
               /\ \A i \in 1 .. Len(toBoard') : toBoard'[i] # j
    <3>1. /\ \A i \in 1 .. Len(line) : line[i].of # j
          /\ \A i \in 1 .. Len(toBoard) : toBoard[i] # j
      BY <2>1 DEF AnswerInv, SaidInv, Consumed
    <3>2. h # j
      BY <1>1, <3>1
    <3> QED BY <1>1, <1>3, <1>7, <3>1, <3>2
  <2>2. pc = "io" /\ Call.kind = "cmd" => ~failed
    BY DEF AnswerInv, SaidInv, Consumed
  <2>3. ASSUME ~failed, NEW j \in 1 .. k - 1, Prompted(j)
        PROVE  /\ pc = "io" /\ Fresh => resp.of # j
               /\ pc = "io" => \A i \in 1 .. Len(str) : str[i].of # j
    BY <2>3 DEF AnswerInv, SaidInv, Consumed
  <2> QED BY <1>1, <2>1, <2>2, <2>3 DEF Consumed
<1>13. Started(new)'
  <2> SUFFICES ASSUME pc = "io", Call.kind = "cmd" PROVE Started(new)'
    BY <1>1 DEF Started
  <2>1. resp.of # k /\ h <= k /\ k \in Nat
    BY <1>1, <1>6
  <2>2. str # <<>> => str[1].of # k /\ str[Len(str)].of # k
    <3>1. str # <<>> => 1 \in 1 .. Len(str) /\ Len(str) \in 1 .. Len(str)
      BY OrderFacts DEF OrderInv
    <3> QED BY <1>1, <1>5, <2>1, <3>1
  <2>3. line' # <<>> => line'[1].of # k \/ line'[1].at = 1
    <3> SUFFICES ASSUME line' # <<>> PROVE line'[1].of # k \/ line'[1].at = 1
      OBVIOUS
    <3>1. Len(line') \in Nat /\ Len(line') # 0
      <4>1. BoardType'
        BY BoardTypes DEF OrderInv, Next
      <4> QED BY <4>1, EmptySeq, LenProperties DEF BoardType
    <3>2. 1 \in 1 .. Len(line) \/ (1 \in Len(line) + 1 .. Len(line) + Len(t) /\ Len(line) = 0)
      BY <1>1, <3>1
    <3> QED BY <1>1, <1>7, <2>1, <3>2
  <2>4. str # <<>> => IF Fresh
                      THEN /\ resp.of = str[Len(str)].of
                           /\ resp.at = str[Len(str)].at + 1 \/ resp.c = "LF"
                      ELSE \/ resp = str[Len(str)]
                           \/ /\ resp.c = "CR" /\ resp.of = str[Len(str)].of
                              /\ resp.at = str[Len(str)].at + 1
    BY <2>2 DEF AnswerInv, SaidInv, Started
  <2> QED BY <1>1, <2>1, <2>2, <2>3, <2>4 DEF Started, Begins, LineStart
<1>14. AnswerIsOwn'
  BY <1>1 DEF AnswerInv, SaidInv, AnswerIsOwn
<1> QED BY <1>8, <1>12, <1>13, <1>14 DEF AnswerInv

\* The prompt that ends a command is the one the board says after that command, not
\* the late one of a command before it, if its answers can be told apart.
THEOREM AnswersAreOwn == ASSUME LFAfterCR, AnswersDiffer PROVE Spec => []AnswerIsOwn
<1> DEFINE Inv == OrderInv /\ \E talk \in Tales : AnswerInv(talk)
<1>1. Init => Inv
  <2> SUFFICES ASSUME Init PROVE Inv
    OBVIOUS
  <2>1. OrderInv
    BY InitRead, InitOrder DEF OrderInv
  <2>2. PICK talk \in Tales : TRUE
    <3>1. [i \in DOMAIN Act |-> <<>>] \in Tales
      BY EmptySeq DEF Tales
    <3> QED BY <3>1
  <2>3. /\ line = <<>> /\ toBoard = <<>> /\ resp = NoByte /\ pc = "call" /\ k = 1
        /\ \A i \in DOMAIN Act : heard[i] = 0
    BY DEF Init
  <2>4. AnswerInv(talk)
    BY <2>3, EmptySeq DEF AnswerInv, SaidInv, Spoken, Whole, Placed, Asked, Consumed, Started, AnswerIsOwn
  <2> QED BY <2>1, <2>4
<1>2. Inv /\ [Next]_vars => Inv'
  <2> SUFFICES ASSUME OrderInv, NEW talk \in Tales, AnswerInv(talk), [Next]_vars PROVE Inv'
    OBVIOUS
  <2>1. OrderInv'
    BY LFAfterCR, NextOrder
  <2>2. CASE Answer
    BY <2>1, <2>2, AnswerSaid
  <2>3. CASE ~Answer
    <3>1. SaidInv(talk)' /\ AnswerIsOwn'
      BY <2>3, SaidKept, OwnKept DEF AnswerInv
    <3>2. Consumed' /\ Started(talk)'
      BY <2>3, ConsumedKept, StartedKept
    <3> QED BY <2>1, <3>1, <3>2 DEF AnswerInv, SaidInv
  <2> QED BY <2>2, <2>3
<1>3. Inv => AnswerIsOwn
  BY DEF AnswerInv, SaidInv
<1> QED BY <1>1, <1>2, <1>3, PTL DEF Spec
-----------------------------------------------------------------------------
(* A board that answers in time *)

\* Each command is answered with one of its talks.
Rightful(talk) == \A j \in DOMAIN Act : IsCommand(j) => talk[j] \in Act[j].talks

\* How far the calls read talk t of command j, and between which places call i does.
Reach(j, t) == CHOOSE place \in [DOMAIN Act -> Nat] : Reaches(j, t, place)
From(i, j, t) == IF i = j THEN 0 ELSE Reach(j, t)[i - 1]
To(i, j, t) == Reach(j, t)[i]

\* Of the talk of command j, the last one sent, c bytes were read: the others are on
\* the line, or the board has yet to say them.
Left(talk, j, c) ==
  /\ c \in 0 .. Len(talk[j])
  /\ IF toBoard # <<>> THEN c = 0 /\ toBoard[Len(toBoard)] = j
     ELSE c < Len(talk[j]) => \E i \in 1 .. Len(line) : line[i].of = j
  /\ resp.of = j => resp.at = c
  /\ line # <<>> => /\ line[1].of = j => line[1].at = c + 1
                    /\ line[1].of < j => c = 0

\* A line that begins with byte b, behind the LF at place q, begins there, or where the
\* call began to read.
Early(b, j, a, q) == b.of = j /\ b.at > q => b.at <= a + 1 \/ b.at <= q + 1

\* The awaited text is still to be said, and the line it comes in begins before it.
TextAhead(talk, j, c) ==
  LET a == From(k, j, talk[j])
      e == To(k, j, talk[j])
  IN  /\ c <= e /\ (c = e => Fresh /\ resp.of = j)
      /\ \A q \in 1 .. e : TextAt(k, talk[j], a, e, q) =>
           /\ str = <<>> => IF Fresh THEN Early(resp, j, a, q)
                            ELSE line # <<>> => Early(line[1], j, a, q)
           /\ str # <<>> => Early(str[1], j, a, q)

\* How many bytes of the talk SkipLines has looked at.
Seen(j, c) == IF Fresh /\ resp.of = j THEN c - 1 ELSE c

\* So are the lines that are skipped: those that were seen are counted.
LinesAhead(talk, j, c) ==
  LET a == From(k, j, talk[j])
      e == To(k, j, talk[j])
  IN  /\ c <= e
      /\ \A p \in [1 .. Call.count -> 1 .. e] : LinesAt(k, talk[j], a, e, p) =>
           /\ Seen(j, c) < e
           /\ \A n \in 1 .. Call.count : p[n] <= Seen(j, c) => lines >= n

Ahead(talk, j, c) ==
  /\ Left(talk, j, c)
  /\ pc = "call" => c <= To(k - 1, j, talk[j])
  /\ pc = "io" /\ Call.kind \in {"cmd", "until"} => TextAhead(talk, j, c)
  /\ pc = "io" /\ Call.kind = "skip" => LinesAhead(talk, j, c)

\* No time has passed in vain: each text was heard.
Punctual ==
  /\ ~failed /\ (pc = "done" => k = Len(Act) + 1)
  /\ \A i \in 1 .. k - 1 : Act[i].kind \in {"cmd", "until"} => heard[i] # 0
  /\ pc = "io" /\ Call.kind \in {"cmd", "until"} => tryNum = 0 /\ timer # "fired"

\* The inductive invariant, for a board that answers in time.
TimelyInv(talk) ==
  timely =>
    /\ Rightful(talk) /\ Punctual
    /\ pc # "done" =>
         \A j \in 1 .. Newest : Reading(Newest, j) => \E c \in 0 .. Len(talk[j]) : Ahead(talk, j, c)

\* A call reads the talk of the last command.
LEMMA ReadingLast ==
  ASSUME NEW i \in Nat, NEW j \in 1 .. i, Reading(i, j)
  PROVE  /\ IsCommand(j) /\ j \in Nat
         /\ \A o \in 1 .. i : IsCommand(o) => o <= j
         /\ IsCommand(i) => j = i
         /\ j < i => j \in 1 .. i - 1 /\ Reading(i - 1, j)
<1>1. \A o \in 1 .. i : IsCommand(o) => o <= j
  BY DEF Reading
<1>2. IsCommand(i) => j = i
  BY DEF Reading
<1>3. j < i => j \in 1 .. i - 1 /\ Reading(i - 1, j)
  BY DEF Reading
<1> QED BY <1>1, <1>2, <1>3 DEF Reading

\* There is one, if a command was sent.
LEMMA ReadingOne ==
  ASSUME NEW i \in 1 .. Len(Act), NEW o \in 1 .. i, IsCommand(o)
  PROVE  \E j \in 1 .. i : Reading(i, j)
<1>1. PICK c \in 1 .. i : c = Command(i) /\ IsCommand(c)
  BY CommandIs
<1>2. \A x \in 1 .. i : IsCommand(x) => x <= c
  BY <1>1, CommandIs
<1>3. Reading(i, c)
  BY <1>1, <1>2, CallIs DEF Reading
<1> QED BY <1>3

\* How far it reads.
LEMMA ReachIs ==
  ASSUME TextsSaid, NEW i \in 1 .. Len(Act), NEW j \in 1 .. i, Reading(i, j), NEW t \in Act[j].talks
  PROVE  /\ t \in Seq(Chars) /\ Len(t) \in Nat
         /\ From(i, j, t) \in Nat /\ To(i, j, t) \in Nat /\ To(i, j, t) <= Len(t)
         /\ Reads(i, t, From(i, j, t), To(i, j, t))
         /\ i # j => From(i, j, t) = To(i - 1, j, t)
<1>1. j \in DOMAIN Act /\ IsCommand(j) /\ i \in DOMAIN Act /\ i \in Nat /\ j \in Nat
  BY CallIs DEF Reading
<1>2. t \in Seq(Chars) /\ Len(t) \in Nat
  BY <1>1, CallIs, LenProperties
<1>3. \E place \in [DOMAIN Act -> Nat] : Reaches(j, t, place)
  BY <1>1 DEF TextsSaid
<1>4. Reach(j, t) \in [DOMAIN Act -> Nat] /\ Reaches(j, t, Reach(j, t))
  BY <1>3 DEF Reach
<1>5. To(i, j, t) \in Nat /\ To(i, j, t) <= Len(t)
  BY <1>1, <1>4 DEF Reaches, To
<1>6. i # j => i - 1 \in DOMAIN Act
  BY <1>1, CallIs
<1>7. From(i, j, t) \in Nat
  BY <1>4, <1>6 DEF From
<1>8. Reads(i, t, From(i, j, t), To(i, j, t))
  BY <1>1, <1>4 DEF Reaches, From, To
<1> QED BY <1>2, <1>5, <1>7, <1>8 DEF From, To

\* Where the text is that is awaited.
LEMMA TextFacts ==
  ASSUME NEW i \in 1 .. Len(Act), Act[i].kind \in {"cmd", "until"}, NEW t,
         NEW a \in Nat, NEW b \in Nat, NEW q \in 1 .. b, TextAt(i, t, a, b, q)
  PROVE  /\ a < b /\ q < b /\ b - q <= Limit + 1
         /\ t[q] = "LF" /\ \A m \in q + 1 .. b : t[m] \notin {"CR", "LF"}
<1>1. PICK n \in Nat : n = Len(Act[i].text) /\ n >= 1
  <2>1. Act[i] \in Calls /\ i \in DOMAIN Act
    BY CallIs, ElementOfSeq, ConsoleAssumption
  <2>2. Act[i].text \in Seq(Chars) /\ Act[i].text # <<>>
    BY <2>1, ConsoleAssumption DEF Calls
  <2> QED BY <2>2, EmptySeq, LenProperties
<1>2. /\ q <= b - n /\ b - q <= Limit + 1
      /\ t[q] = "LF" /\ \A m \in q + 1 .. b : t[m] \notin {"CR", "LF"}
      /\ IF Act[i].anywhere THEN a <= b - n ELSE a <= q /\ q = b - n
  BY <1>1 DEF TextAt
<1>3. a < b /\ q < b
  BY <1>1, <1>2
<1> QED BY <1>2, <1>3

\* Each text that is awaited is somewhere.
LEMMA TextSaid ==
  ASSUME TextsSaid, NEW talk \in Tales, Rightful(talk), NEW i \in 1 .. Len(Act), NEW j \in 1 .. i,
         Reading(i, j), Act[i].kind \in {"cmd", "until"}
  PROVE  /\ From(i, j, talk[j]) \in Nat /\ To(i, j, talk[j]) \in Nat
         /\ From(i, j, talk[j]) < To(i, j, talk[j]) /\ To(i, j, talk[j]) <= Len(talk[j])
         /\ \E q \in 1 .. To(i, j, talk[j]) :
              TextAt(i, talk[j], From(i, j, talk[j]), To(i, j, talk[j]), q)
<1>1. talk[j] \in Act[j].talks
  <2>1. j \in DOMAIN Act /\ IsCommand(j)
    BY CallIs DEF Reading
  <2> QED BY <2>1 DEF Rightful
<1>2. /\ From(i, j, talk[j]) \in Nat /\ To(i, j, talk[j]) \in Nat /\ To(i, j, talk[j]) <= Len(talk[j])
      /\ Reads(i, talk[j], From(i, j, talk[j]), To(i, j, talk[j]))
  BY <1>1, ReachIs
<1>3. \E q \in 1 .. To(i, j, talk[j]) :
        TextAt(i, talk[j], From(i, j, talk[j]), To(i, j, talk[j]), q)
  BY <1>2 DEF Reads
<1> QED BY <1>2, <1>3, TextFacts

\* A line that is built up to the byte at place c of a talk, behind the LF at q, is of
\* that talk, and its bytes come one after the other.
LEMMA LinePlaces ==
  ASSUME NEW talk \in Tales, OrderInv, SaidInv(talk), pc = "io", Fresh,
         resp \in Byte, resp.c \notin {"CR", "LF"}, str # <<>>,
         NEW q \in Nat, q >= 1, q < resp.at, talk[resp.of][q] = "LF"
  PROVE  /\ str[1].of = resp.of /\ str[1].at > q /\ resp.at = str[1].at + Len(str)
         /\ \A i \in 1 .. Len(str) : str[i].of = resp.of /\ str[i].at = str[1].at + (i - 1)
<1>1. /\ Len(str) \in Nat /\ Len(str) >= 1 /\ resp.of \in Nat /\ resp.at \in Nat
      /\ \A i \in 1 .. Len(str) : str[i].of \in Nat /\ str[i].at \in Nat /\ str[i].at >= 1
  <2>1. \A i \in 1 .. Len(str) : str[i] \in Byte
    BY OrderFacts DEF OrderInv
  <2>2. \A b \in Byte : b.at >= 1 /\ b.of \in Nat /\ b.at \in Nat
    BY CallIs DEF Byte
  <2> QED BY <2>1, <2>2, OrderFacts DEF OrderInv
<1>2. Follows(str[Len(str)], resp)
  BY DEF OrderInv, Built
<1>3. ASSUME NEW i \in 1 .. Len(str)
      PROVE  \/ str[i].of = resp.of /\ resp.at = str[i].at + (Len(str) + 1 - i)
             \/ str[i].of < resp.of /\ resp.at <= Len(str) + 1 - i
  BY <1>2, <1>3, PlaceNext DEF SaidInv
<1>4. ASSUME NEW i \in 1 .. Len(str), str[i].of = resp.of PROVE str[i].at # q
  BY <1>4 DEF SaidInv, Spoken, Told, Placed
<1>5. ASSUME NEW j \in 1 .. Len(str), NEW i \in 1 .. j
      PROVE  \/ str[i].of = str[j].of /\ str[j].at = str[i].at + (j - i)
             \/ str[i].of < str[j].of /\ str[j].at <= j - i
  BY <1>5 DEF SaidInv, Placed
<1>6. 1 \in 1 .. Len(str)
  BY <1>1
<1>7. CASE str[1].of < resp.of
  <2>1. resp.at <= Len(str)
    BY <1>1, <1>3, <1>6, <1>7
  <2>2. PICK e \in Nat : resp.at = q + e /\ e >= 1 /\ e <= Len(str)
    <3>1. resp.at - q \in Nat /\ resp.at = q + (resp.at - q)
      BY <1>1
    <3> QED BY <1>1, <2>1, <3>1
  <2>3. PICK i \in 1 .. Len(str) : Len(str) + 1 - i = e
    <3>1. Len(str) + 1 - e \in 1 .. Len(str) /\ Len(str) + 1 - (Len(str) + 1 - e) = e
      BY <1>1, <2>2
    <3> QED BY <3>1
  <2>4. CASE str[i].of = resp.of /\ resp.at = str[i].at + (Len(str) + 1 - i)
    <3>1. resp.at = str[i].at + e /\ str[i].at \in Nat
      BY <1>1, <2>3, <2>4
    <3>2. str[i].at = q
      BY <2>2, <3>1
    <3> QED BY <1>4, <2>4, <3>2
  <2>5. CASE resp.at <= Len(str) + 1 - i
    BY <1>1, <2>2, <2>3, <2>5
  <2> QED BY <1>3, <2>4, <2>5
<1>8. CASE ~(str[1].of < resp.of)
  <2>1. str[1].of = resp.of /\ resp.at = str[1].at + Len(str)
    BY <1>1, <1>3, <1>6, <1>8
  <2>2. ASSUME NEW i \in 1 .. Len(str) PROVE str[i].of = resp.of /\ str[i].at = str[1].at + (i - 1)
    <3>1. 1 \in 1 .. i
      BY <1>1
    <3>2. str[i].of <= resp.of
      BY DEF SaidInv, Placed
    <3> QED BY <1>1, <1>5, <2>1, <3>1, <3>2
  <2>3. str[1].at > q
    <3> SUFFICES ASSUME str[1].at <= q PROVE FALSE
      BY <1>1, <1>6
    <3>1. PICK i \in 1 .. Len(str) : i = q - str[1].at + 1
      BY <1>1, <1>6, <2>1
    <3>2. str[i].of = resp.of /\ str[i].at = str[1].at + (i - 1)
      BY <2>2
    <3>3. str[i].at = q
      BY <1>1, <1>6, <3>1, <3>2
    <3> QED BY <1>4, <3>2, <3>3
  <2> QED BY <2>1, <2>2, <2>3
<1> QED BY <1>7, <1>8
\* The line up to the last byte of a text is not too long, and holds it.
LEMMA MatchAtEnd ==
  ASSUME NEW talk \in Tales, NEW a \in Nat, NEW q \in Nat,
         OrderInv, SaidInv(talk), pc = "io", Fresh, k \in 1 .. Len(Act), Call.kind \in {"cmd", "until"},
         resp \in Byte, q \in 1 .. resp.at, TextAt(k, talk[resp.of], a, resp.at, q),
         IF str = <<>> THEN Early(resp, resp.of, a, q) ELSE Early(str[1], resp.of, a, q)
  PROVE  Len(str) <= Limit /\ Matches(Append(str, resp)) /\ resp.c \notin {"CR", "LF"}
<1>1. PICK o \in DOMAIN Act : o = resp.of
  BY DEF Byte
<1>2. PICK b \in Nat : b = resp.at
  BY DEF Byte
<1>3. PICK t \in Seq(Chars) : t = talk[o]
  BY DEF Tales
<1>4. PICK n \in Nat : n = Len(Call.text) /\ n >= 1
  <2>1. Act[k] = Call
    BY DEF Call
  <2> QED BY <2>1, TextIs
<1>5. /\ a < b /\ q < b /\ b <= Len(t) /\ q <= b - n /\ b - q <= Limit + 1
      /\ IF Call.anywhere THEN a <= b - n ELSE a <= q /\ q = b - n
      /\ t[q] = "LF" /\ t[b] \notin {"CR", "LF"}
      /\ \A d \in 0 .. n - 1 : t[b - d] = Call.text[n - d]
  <2>1. TextAt(k, t, a, b, q) /\ Act[k] = Call
    BY <1>1, <1>2, <1>3 DEF Call
  <2>2. /\ b <= Len(t) /\ q <= b - n /\ EndsAs(k, t, b) /\ b - q <= Limit + 1
        /\ t[q] = "LF" /\ \A m \in q + 1 .. b : t[m] \notin {"CR", "LF"}
        /\ IF Call.anywhere THEN a <= b - n ELSE a <= q /\ q = b - n
    BY <1>4, <2>1 DEF TextAt
  <2>3. a < b /\ q < b /\ b \in q + 1 .. b
    <3>1. q < b
      BY <1>4, <2>2
    <3>2. a < b
      <4>1. CASE Call.anywhere
        BY <1>4, <2>2, <4>1
      <4>2. CASE ~Call.anywhere
        BY <1>4, <2>2, <3>1, <4>2
      <4> QED BY <4>1, <4>2
    <3> QED BY <1>4, <2>2, <3>1, <3>2
  <2>4. \A d \in 0 .. n - 1 : d < b => t[b - d] = Call.text[n - d]
    BY <1>4, <2>1, <2>2 DEF EndsAs
  <2>5. \A d \in 0 .. n - 1 : t[b - d] = Call.text[n - d]
    BY <1>4, <2>2, <2>4
  <2> QED BY <2>2, <2>3, <2>5
<1>6. resp # NoByte /\ Told(talk, resp) /\ resp.c = t[b]
  <2>1. resp # NoByte
    BY OrderFacts DEF OrderInv
  <2>2. Told(talk, resp)
    BY <2>1 DEF SaidInv, Spoken
  <2> QED BY <1>1, <1>2, <1>3, <2>1, <2>2 DEF Told
<1>7. /\ str \in Seq(Byte) /\ Len(str) \in Nat /\ Len(Append(str, resp)) = Len(str) + 1
      /\ Append(str, resp)[Len(str) + 1] = resp
      /\ \A i \in 1 .. Len(str) : Append(str, resp)[i] = str[i]
  <2>1. str \in Seq(Byte)
    BY DEF OrderInv, ReadInv, ParseType
  <2> QED BY <2>1, AppendProperties, LenProperties
<1>8. PICK f \in Nat :
        /\ f > q /\ (f <= a + 1 \/ f <= q + 1)
        /\ b = f + Len(str)
        /\ \A i \in 1 .. Len(str) : str[i].of = o /\ str[i].at = f + (i - 1)
  <2>1. CASE str = <<>>
    <3>1. Early(resp, o, a, q) /\ Len(str) = 0
      BY <1>1, <2>1, EmptySeq
    <3>2. b <= a + 1 \/ b <= q + 1
      BY <1>1, <1>2, <1>5, <3>1 DEF Early
    <3> QED BY <1>5, <3>1, <3>2
  <2>2. CASE str # <<>>
    <3>1. /\ str[1].of = resp.of /\ str[1].at > q /\ resp.at = str[1].at + Len(str)
          /\ \A i \in 1 .. Len(str) : str[i].of = resp.of /\ str[i].at = str[1].at + (i - 1)
      <4>1. q >= 1 /\ q < resp.at /\ talk[resp.of][q] = "LF" /\ resp.c \notin {"CR", "LF"}
        BY <1>1, <1>2, <1>3, <1>5, <1>6
      <4> QED BY <2>2, <4>1, LinePlaces
    <3>2. PICK f \in Nat : f = str[1].at
      <4>1. 1 \in 1 .. Len(str)
        BY <1>7, <2>2, EmptySeq
      <4> QED BY <4>1, OrderFacts DEF OrderInv
    <3>3. Early(str[1], o, a, q)
      BY <1>1, <2>2
    <3>4. f <= a + 1 \/ f <= q + 1
      BY <1>1, <3>1, <3>2, <3>3 DEF Early
    <3> QED BY <1>1, <1>2, <3>1, <3>2, <3>4
  <2> QED BY <2>1, <2>2
<1>9. Len(str) <= Limit
  BY <1>5, <1>7, <1>8, CallIs
<1> DEFINE s == Append(str, resp)
<1>10. ASSUME NEW i \in 1 .. Len(s) PROVE f + (i - 1) \in Nat /\ s[i].c = t[f + (i - 1)]
  <2>1. CASE i \in 1 .. Len(str)
    <3>1. str[i].of = o /\ str[i].at = f + (i - 1) /\ s[i] = str[i]
      BY <1>7, <1>8, <2>1
    <3>2. Told(talk, str[i])
      BY <2>1 DEF SaidInv, Spoken
    <3> QED BY <1>3, <2>1, <3>1, <3>2 DEF Told
  <2>2. CASE i = Len(str) + 1
    <3>1. f + (i - 1) = b
      BY <1>7, <1>8, <2>2
    <3> QED BY <1>6, <1>7, <2>2, <3>1
  <2> QED BY <1>7, <2>1, <2>2
<1> HIDE DEF s
<1>11. PICK m \in Nat : m = Len(s) /\ b - n >= q /\ b = f + m - 1 /\ m >= 1
  BY <1>5, <1>7, <1>8 DEF s
<1>12. PICK first \in 1 .. m : first + (n - 1) = m /\ (~Call.anywhere => first = 1)
  <2>1. n <= m /\ (~Call.anywhere => m = n)
    <3>1. ~Call.anywhere => a <= q /\ q = b - n
      BY <1>5
    <3>2. Call.anywhere => a <= b - n
      BY <1>5
    <3>3. CASE Call.anywhere
      BY <1>4, <1>8, <1>11, <3>2, <3>3
    <3>4. CASE ~Call.anywhere
      BY <1>4, <1>8, <1>11, <3>1, <3>4
    <3> QED BY <3>3, <3>4
  <2>2. m + 1 - n \in 1 .. m /\ (m + 1 - n) + (n - 1) = m /\ (m = n => m + 1 - n = 1)
    BY <1>4, <1>11, <2>1
  <2> QED BY <2>1, <2>2
<1>13. ASSUME NEW x \in 1 .. n PROVE s[first + x - 1].c = Call.text[x]
  <2>1. /\ n \in Nat /\ m \in Nat /\ first \in Nat /\ x \in Nat /\ f \in Nat /\ b \in Nat
        /\ first >= 1 /\ x >= 1 /\ x <= n /\ first + (n - 1) = m /\ b = f + m - 1
    BY <1>11, <1>12
  <2>2. /\ n - x \in 0 .. n - 1 /\ n - (n - x) = x /\ first + x - 1 \in 1 .. m
        /\ f + ((first + x - 1) - 1) = b - (n - x)
    BY <2>1
  <2>3. PICK y \in 1 .. Len(s) : y = first + x - 1
    BY <1>11, <2>2
  <2>4. PICK d \in 0 .. n - 1 : d = n - x
    BY <2>2
  <2>5. s[y].c = t[f + (y - 1)]
    BY <1>10
  <2>6. t[b - d] = Call.text[n - d]
    BY <1>5
  <2>7. f + (y - 1) = b - d /\ n - d = x
    BY <2>2, <2>3, <2>4
  <2>8. s[y].c = Call.text[x]
    BY <2>5, <2>6, <2>7
  <2> QED BY <2>3, <2>8
<1>14. first + n - 1 <= Len(s) /\ first \in DOMAIN s
  <2>1. s \in Seq(Byte)
    BY <1>7, AppendProperties DEF s
  <2>2. first + n - 1 <= m /\ first \in 1 .. m
    BY <1>4, <1>12
  <2> QED BY <1>11, <2>1, <2>2, LenProperties
<1>15. Matches(s)
  BY <1>4, <1>12, <1>13, <1>14 DEF Matches
<1> QED BY <1>5, <1>6, <1>9, <1>15 DEF s

\* What is left of a talk stays as it is while nobody reads or writes.
LEMMA LeftKept ==
  ASSUME NEW talk, NEW j \in Nat, j >= 1, NEW c, Left(talk, j, c),
         UNCHANGED <<line, toBoard>>, resp' = resp \/ resp' = NoByte
  PROVE  Left(talk, j, c)'
<1>1. NoByte.of # j
  BY DEF NoByte
<1> QED BY <1>1 DEF Left

\* Bytes and commands are not of a later command than the last.
LEMMA LeftFacts ==
  ASSUME NEW talk \in Tales, OrderInv, SaidInv(talk), NEW j \in 1 .. Newest, Reading(Newest, j)
  PROVE  /\ j \in Nat /\ j >= 1 /\ Len(line) \in Nat /\ Len(toBoard) \in Nat
         /\ \A i \in 1 .. Len(line) : /\ line[i].of \in Nat /\ line[i].at \in Nat /\ line[i].of <= j
                                      /\ Told(talk, line[i])
         /\ \A i \in 1 .. Len(toBoard) : toBoard[i] \in Nat /\ toBoard[i] <= j
         /\ toBoard # <<>> => \A i \in 1 .. Len(line) : line[i].of < j
<1>1. /\ Newest \in Nat /\ Len(line) \in Nat /\ Len(toBoard) \in Nat
      /\ \A i \in 1 .. Len(line) : line[i] \in Byte
      /\ \A b \in Byte : b.of \in Nat /\ b.of >= 1 /\ b.at \in Nat
      /\ \A i \in 1 .. Len(toBoard) : toBoard[i] \in Nat /\ toBoard[i] >= 1
  BY OrderFacts DEF OrderInv
<1>2. \A o \in 1 .. Newest : IsCommand(o) => o <= j
  BY <1>1, ReadingLast
<1>3. ASSUME NEW i \in 1 .. Len(line)
      PROVE  /\ line[i].of \in Nat /\ line[i].at \in Nat /\ line[i].of <= j /\ Told(talk, line[i])
  <2>1. line[i].of \in Nat /\ line[i].at \in Nat /\ line[i].of >= 1 /\ line[i].of <= Newest
    BY <1>1 DEF OrderInv, Ordered
  <2>2. Told(talk, line[i])
    BY DEF SaidInv, Spoken
  <2>3. line[i].of <= j
    BY <1>1, <1>2, <2>1, <2>2 DEF Told
  <2> QED BY <2>1, <2>2, <2>3
<1>4. ASSUME NEW i \in 1 .. Len(toBoard) PROVE toBoard[i] \in Nat /\ toBoard[i] <= j
  <2>1. toBoard[i] \in Nat /\ toBoard[i] >= 1 /\ toBoard[i] <= Newest /\ IsCommand(toBoard[i])
    BY <1>1 DEF OrderInv, Ordered, SaidInv, Asked
  <2> QED BY <1>1, <1>2, <2>1
<1>5. ASSUME toBoard # <<>>, NEW i \in 1 .. Len(line) PROVE line[i].of < j
  <2>1. 1 \in 1 .. Len(toBoard)
    BY <1>1, <1>5, OrderFacts DEF OrderInv
  <2>2. line[i].of < toBoard[1]
    BY <1>5 DEF OrderInv, Ordered
  <2>3. toBoard[1] \in Nat /\ toBoard[1] <= j
    BY <1>4, <2>1
  <2>4. line[i].of \in Nat
    BY <1>3
  <2> QED BY <2>2, <2>3, <2>4
<1> QED BY <1>1, <1>3, <1>4, <1>5

\* A byte is read: it is the next one of the talk, or one of an earlier talk.
LEMMA LeftByte ==
  ASSUME NEW talk \in Tales, OrderInv, SaidInv(talk), NEW j \in 1 .. Newest, Reading(Newest, j),
         NEW c, Left(talk, j, c), ByteArrives
  PROVE  \E d \in 0 .. Len(talk[j]) :
           /\ Left(talk, j, d)'
           /\ resp'.of = j => d = c + 1 /\ resp'.at = d
           /\ resp'.of # j => d = c
<1>1. /\ Len(line) \in Nat /\ 1 \in 1 .. Len(line) /\ resp' = line[1] /\ Len(line') = Len(line) - 1
      /\ \A i \in 1 .. Len(line') : i + 1 \in 1 .. Len(line) /\ line'[i] = line[i + 1]
      /\ line' # <<>> => 2 \in 1 .. Len(line) /\ line'[1] = line[2]
      /\ toBoard' = toBoard
  BY ByteTaken
<1>2. /\ j \in Nat /\ j >= 1
      /\ \A i \in 1 .. Len(line) : /\ line[i].of \in Nat /\ line[i].at \in Nat /\ line[i].of <= j
                                   /\ Told(talk, line[i])
      /\ toBoard # <<>> => \A i \in 1 .. Len(line) : line[i].of < j
  BY LeftFacts
<1>3. /\ c \in 0 .. Len(talk[j]) /\ Len(talk[j]) \in Nat /\ c \in Nat /\ line # <<>>
      /\ line[1].of = j => line[1].at = c + 1
      /\ line[1].of < j => c = 0
  <2>1. j \in DOMAIN Act
    <3>1. pc = "io"
      BY ByteTaken
    <3>2. k \in 1 .. Len(Act) /\ Newest = k
      BY <3>1 DEF OrderInv, ReadInv, CallType, Newest
    <3> QED BY <1>2, <3>2, CallIs
  <2>2. Len(talk[j]) \in Nat
    BY <2>1, LenProperties DEF Tales
  <2>3. line # <<>>
    BY DEF ByteArrives
  <2> QED BY <2>2, <2>3 DEF Left
<1>4. 2 \in 1 .. Len(line) => Succeeds(line[1], line[2])
  <2>1. 2 \in 1 .. Len(line) => 1 \in 1 .. Len(line) - 1 /\ 1 + 1 = 2
    BY <1>1
  <2> QED BY <2>1 DEF OrderInv, Ordered
<1>5. CASE line[1].of = j
  <2>1. Told(talk, line[1]) /\ line[1].at = c + 1 /\ toBoard = <<>>
    BY <1>1, <1>2, <1>3, <1>5
  <2>2. c + 1 \in 0 .. Len(talk[j])
    BY <1>3, <1>5, <2>1 DEF Told
  <2>3. c + 1 < Len(talk[j]) => \E i \in 1 .. Len(line') : line'[i].of = j
    <3> SUFFICES ASSUME c + 1 < Len(talk[j]) PROVE \E i \in 1 .. Len(line') : line'[i].of = j
      OBVIOUS
    <3>1. 1 < Len(line) /\ line[1 + 1].of = line[1].of
      BY <1>1, <1>5, <2>1 DEF SaidInv, Whole
    <3>2. 1 \in 1 .. Len(line')
      BY <1>1, <3>1
    <3>3. line'[1] = line[1 + 1]
      BY <1>1, <3>2
    <3> QED BY <1>5, <3>1, <3>2, <3>3
  <2>4. line' # <<>> => /\ line'[1].of = j => line'[1].at = (c + 1) + 1
                        /\ line'[1].of < j => c + 1 = 0
    <3> SUFFICES ASSUME line' # <<>>
                 PROVE  (line'[1].of = j => line'[1].at = (c + 1) + 1) /\ ~(line'[1].of < j)
      OBVIOUS
    <3>1. Follows(line[1], line[2]) /\ line'[1] = line[2] /\ line[2].of \in Nat
      BY <1>1, <1>2, <1>4 DEF Succeeds
    <3> QED BY <1>1, <1>2, <1>5, <2>1, <3>1 DEF Follows
  <2>5. Left(talk, j, c + 1)'
    BY <1>1, <2>1, <2>2, <2>3, <2>4 DEF Left
  <2> QED BY <1>1, <1>5, <2>1, <2>2, <2>5
<1>6. CASE line[1].of # j
  <2>1. line[1].of < j /\ c = 0
    BY <1>1, <1>2, <1>3, <1>6
  <2>2. ASSUME NEW i \in 1 .. Len(line), line[i].of = j PROVE \E n \in 1 .. Len(line') : line'[n].of = j
    <3>1. i - 1 \in 1 .. Len(line') /\ (i - 1) + 1 = i
      BY <1>1, <1>6, <2>2
    <3>2. line'[i - 1] = line[(i - 1) + 1]
      BY <1>1, <3>1
    <3> QED BY <2>2, <3>1, <3>2
  <2>3. line' # <<>> /\ line'[1].of = j => line'[1].at = c + 1
    <3> SUFFICES ASSUME line' # <<>>, line'[1].of = j PROVE line'[1].at = 1
      BY <2>1
    <3>1. Follows(line[1], line[2]) /\ line'[1] = line[2]
      BY <1>1, <1>4 DEF Succeeds
    <3> QED BY <1>1, <1>2, <2>1, <3>1 DEF Follows
  <2>4. /\ c \in 0 .. Len(talk[j])
        /\ IF toBoard # <<>> THEN c = 0 /\ toBoard[Len(toBoard)] = j
           ELSE c < Len(talk[j]) => \E i \in 1 .. Len(line) : line[i].of = j
    BY DEF Left
  <2>5. Left(talk, j, c)'
    BY <1>1, <1>6, <2>1, <2>2, <2>3, <2>4 DEF Left
  <2> QED BY <1>1, <1>3, <1>6, <2>5
<1> QED BY <1>5, <1>6

\* The board answers: nothing of the last talk was read before.
LEMMA LeftAnswer ==
  ASSUME NEW talk \in Tales, NEW new \in Tales, NEW h \in DOMAIN Act, NEW t \in Act[h].talks,
         OrderInv, SaidInv(talk), Answer, Answered(h, t),
         new[h] = t, \A i \in DOMAIN Act \ {h} : new[i] = talk[i],
         NEW j \in 1 .. Newest, j \in DOMAIN Act, Reading(Newest, j), NEW c, Left(talk, j, c)
  PROVE  /\ c = 0 /\ Left(new, j, 0)'
         /\ resp.of \in Nat /\ resp.of < j
         /\ line' # <<>> /\ line'[1].of = j => line'[1].at = 1
<1>1. /\ h \in Nat /\ Len(t) \in Nat
      /\ Len(line) \in Nat /\ Len(line') = Len(line) + Len(t)
      /\ \A i \in 1 .. Len(line) : line'[i] = line[i] /\ line[i].of \in Nat /\ line[i].of < h
      /\ \A i \in Len(line) + 1 .. Len(line) + Len(t) :
           line'[i] = [c |-> t[i - Len(line)], of |-> h, at |-> i - Len(line)]
      /\ \A i \in 1 .. Len(toBoard') : i + 1 \in 1 .. Len(toBoard) /\ toBoard'[i] = toBoard[i + 1]
      /\ 1 \in 1 .. Len(toBoard) /\ toBoard[1] = h /\ toBoard' = Tail(toBoard)
      /\ resp.of \in Nat /\ resp.of < h /\ resp' = resp
  BY DEF Answered, parser
<1>2. /\ j \in Nat /\ j >= 1 /\ Len(toBoard) \in Nat
      /\ \A i \in 1 .. Len(toBoard) : toBoard[i] \in Nat /\ toBoard[i] <= j
  BY LeftFacts
<1>3. toBoard # <<>> /\ c = 0 /\ toBoard[Len(toBoard)] = j
  <2>1. toBoard # <<>>
    BY <1>1, EmptySeq
  <2> QED BY <2>1 DEF Left
<1>4. Len(toBoard') = Len(toBoard) - 1 /\ (toBoard' = <<>> <=> Len(toBoard) = 1)
  <2>1. toBoard \in Seq(DOMAIN Act)
    BY DEF OrderInv, ReadInv, BoardType
  <2>2. Len(Tail(toBoard)) = Len(toBoard) - 1 /\ Tail(toBoard) \in Seq(DOMAIN Act)
    BY <1>3, <2>1, HeadTailProperties
  <2>3. Tail(toBoard) = <<>> <=> Len(Tail(toBoard)) = 0
    BY <2>2, EmptySeq
  <2>4. toBoard' = Tail(toBoard)
    BY <1>1
  <2>5. Len(toBoard') = Len(toBoard) - 1
    BY <2>2, <2>4
  <2> QED BY <1>2, <2>3, <2>4, <2>5
<1>5. h <= j
  BY <1>1, <1>2
<1>6. Len(new[j]) \in Nat /\ 0 \in 0 .. Len(new[j])
  <2>1. Len(new[j]) \in Nat
    BY LenProperties DEF Tales
  <2> QED BY <2>1
<1>7. line' # <<>> => (line'[1].of = h /\ line'[1].at = 1) \/ line'[1].of < h
  <2> SUFFICES ASSUME line' # <<>> PROVE (line'[1].of = h /\ line'[1].at = 1) \/ line'[1].of < h
    OBVIOUS
  <2>1. Len(line') # 0
    <3>1. BoardType'
      BY BoardTypes DEF OrderInv, Next
    <3> QED BY <3>1, EmptySeq, LenProperties DEF BoardType
  <2>2. CASE 1 \in 1 .. Len(line)
    BY <1>1, <2>2
  <2>3. CASE 1 \notin 1 .. Len(line)
    <3>1. Len(line) = 0 /\ 1 \in Len(line) + 1 .. Len(line) + Len(t) /\ 1 - Len(line) = 1
      BY <1>1, <2>1, <2>3
    <3>2. line'[1] = [c |-> t[1 - Len(line)], of |-> h, at |-> 1 - Len(line)]
      BY <1>1, <3>1
    <3> QED BY <3>1, <3>2
  <2> QED BY <2>2, <2>3
<1>8. CASE toBoard' = <<>>
  <2>1. h = j /\ Len(new[j]) = Len(t)
    BY <1>1, <1>3, <1>4, <1>8
  <2>2. 0 < Len(t) => \E i \in 1 .. Len(line') : line'[i].of = j
    <3> SUFFICES ASSUME 0 < Len(t) PROVE \E i \in 1 .. Len(line') : line'[i].of = j
      OBVIOUS
    <3>1. Len(line) + 1 \in Len(line) + 1 .. Len(line) + Len(t) /\ Len(line) + 1 \in 1 .. Len(line')
      BY <1>1
    <3>2. line'[Len(line) + 1].of = h
      <4>1. line'[Len(line) + 1] = [c |-> t[(Len(line) + 1) - Len(line)], of |-> h, at |-> (Len(line) + 1) - Len(line)]
        BY <1>1, <3>1
      <4> QED BY <4>1
    <3> QED BY <2>1, <3>1, <3>2
  <2>3. Left(new, j, 0)'
    BY <1>1, <1>6, <1>7, <1>8, <2>1, <2>2 DEF Left
  <2> QED BY <1>1, <1>2, <1>3, <1>5, <1>7, <2>3
<1>9. CASE toBoard' # <<>>
  <2>1. Len(toBoard') \in 1 .. Len(toBoard') /\ Len(toBoard') + 1 = Len(toBoard) /\ 2 \in 1 .. Len(toBoard)
    BY <1>1, <1>2, <1>4, <1>9
  <2>2. toBoard'[Len(toBoard')] = j
    BY <1>1, <1>3, <2>1
  <2>3. h < j
    <3>1. 1 \in 1 .. Len(toBoard) - 1 /\ 1 + 1 = 2
      BY <1>2, <2>1
    <3>2. toBoard[1] < toBoard[2]
      BY <3>1 DEF OrderInv, Ordered
    <3> QED BY <1>1, <1>2, <2>1, <3>2
  <2>4. Left(new, j, 0)'
    BY <1>1, <1>2, <1>6, <1>7, <1>9, <2>2, <2>3 DEF Left
  <2> QED BY <1>1, <1>2, <1>3, <1>5, <1>7, <2>3, <2>4
<1> QED BY <1>8, <1>9

\* A command is sent: its talk is all ahead.
LEMMA LeftSent ==
  ASSUME NEW talk \in Tales, NEW j \in 1 .. Len(Act), OrderInv, pc = "call", k = j,
         toBoard' = Append(toBoard, k), line' = line, resp' = resp
  PROVE  /\ Left(talk, j, 0)' /\ resp.of \in Nat /\ resp.of < j
         /\ line # <<>> => line[1].of < j
<1>1. /\ Newest = j - 1 /\ j \in Nat /\ resp.of \in Nat /\ resp.of < j
      /\ line # <<>> => line[1].of < j
  <2>1. resp.of <= Newest /\ Newest = j - 1 /\ resp.of \in Nat /\ j \in Nat
    BY CallIs, OrderFacts DEF OrderInv, Ordered, Newest
  <2>2. line # <<>> => line[1].of <= Newest /\ line[1].of \in Nat
    <3>1. line # <<>> => 1 \in 1 .. Len(line)
      BY OrderFacts DEF OrderInv
    <3> QED BY <3>1, OrderFacts DEF OrderInv, Ordered
  <2> QED BY <2>1, <2>2
<1>2. Len(talk[j]) \in Nat /\ 0 \in 0 .. Len(talk[j])
  <2>1. Len(talk[j]) \in Nat
    BY CallIs, LenProperties DEF Tales
  <2> QED BY <2>1
<1>3. toBoard' # <<>> /\ toBoard'[Len(toBoard')] = j
  <2>1. toBoard \in Seq(DOMAIN Act) /\ j \in DOMAIN Act
    BY CallIs DEF OrderInv, ReadInv, BoardType
  <2>2. /\ Append(toBoard, j) # <<>> /\ Len(Append(toBoard, j)) = Len(toBoard) + 1
        /\ Append(toBoard, j)[Len(toBoard) + 1] = j
    BY <2>1, AppendProperties
  <2> QED BY <2>2
<1>4. Left(talk, j, 0)'
  BY <1>1, <1>2, <1>3 DEF Left
<1> QED BY <1>1, <1>4

\* Nothing of its talk was read: the awaited text is ahead.
LEMMA TextUnread ==
  ASSUME TextsSaid, NEW talk \in Tales, Rightful(talk), NEW i \in 1 .. Len(Act), NEW j \in 1 .. i,
         Reading(i, j), Act[i].kind \in {"cmd", "until"},
         k' = i, resp'.of # j, str' # <<>> => str'[1].of # j,
         line' # <<>> /\ line'[1].of = j => line'[1].at = 1
  PROVE  TextAhead(talk, j, 0)'
<1>1. PICK a \in Nat : a = From(i, j, talk[j])
  BY TextSaid
<1>2. PICK e \in Nat : e = To(i, j, talk[j]) /\ a < e
  BY <1>1, TextSaid
<1>3. ASSUME NEW q \in 1 .. e
      PROVE  /\ Early(resp', j, a, q) /\ (str' # <<>> => Early(str'[1], j, a, q))
             /\ line' # <<>> => Early(line'[1], j, a, q)
  BY DEF Early
<1> QED BY <1>1, <1>2, <1>3 DEF TextAhead

\* The call begins to read where those before it have left off.
LEMMA TextBegun ==
  ASSUME TextsSaid, NEW talk \in Tales, Rightful(talk), NEW i \in 1 .. Len(Act), NEW j \in 1 .. i,
         Reading(i, j), Act[i].kind \in {"cmd", "until"}, i # j, NEW c \in Nat, c <= To(i - 1, j, talk[j]),
         k' = i, str' = <<>>, ~Fresh', line' # <<>> /\ line'[1].of = j => line'[1].at = c + 1
  PROVE  TextAhead(talk, j, c)'
<1>1. PICK a \in Nat : a = From(i, j, talk[j]) /\ c <= a
  <2>1. From(i, j, talk[j]) = To(i - 1, j, talk[j])
    BY DEF From, To
  <2> QED BY <2>1, TextSaid
<1>2. PICK e \in Nat : e = To(i, j, talk[j]) /\ a < e
  BY <1>1, TextSaid
<1>3. ASSUME NEW q \in 1 .. e PROVE line' # <<>> => Early(line'[1], j, a, q)
  BY <1>1 DEF Early
<1>4. c <= e /\ c # e
  BY <1>1, <1>2
<1> QED BY <1>1, <1>2, <1>3, <1>4 DEF TextAhead

\* A byte is read on the way to the text.
LEMMA TextByte ==
  ASSUME TextsSaid, NEW talk \in Tales, Rightful(talk), OrderInv,
         NEW i \in 1 .. Len(Act), k = i, Call.kind \in {"cmd", "until"}, NEW j \in 1 .. i, Reading(i, j),
         NEW c \in Nat, TextAhead(talk, j, c), ByteArrives,
         NEW d \in Nat, resp'.of = j => d = c + 1, resp'.of # j => d = c
  PROVE  TextAhead(talk, j, d)'
<1>1. /\ resp' = line[1] /\ line # <<>> /\ ~Fresh /\ Fresh' /\ UNCHANGED <<k, str>>
  BY ByteTaken DEF ByteArrives
<1>2. PICK a \in Nat : a = From(i, j, talk[j])
  BY TextSaid DEF Call
<1>3. PICK e \in Nat : e = To(i, j, talk[j])
  BY TextSaid DEF Call
<1>4. c < e
  BY <1>1, <1>2, <1>3 DEF TextAhead
<1>5. ASSUME NEW q \in 1 .. e, TextAt(i, talk[j], a, e, q)
      PROVE  /\ str = <<>> => Early(line[1], j, a, q)
             /\ str # <<>> => Early(str[1], j, a, q)
  BY <1>1, <1>2, <1>3, <1>5 DEF TextAhead
<1>6. d <= e /\ (d = e => resp'.of = j)
  BY <1>4
<1> QED BY <1>1, <1>2, <1>3, <1>5, <1>6 DEF TextAhead

\* The byte that is looked at is not the last of the text: that one ends the call.
LEMMA TextNotYet ==
  ASSUME TextsSaid, NEW talk \in Tales, Rightful(talk), OrderInv, SaidInv(talk),
         NEW i \in 1 .. Len(Act), k = i, NEW j \in 1 .. i, Reading(i, j),
         NEW c \in Nat, Left(talk, j, c), TextAhead(talk, j, c), LineEnd \/ Character
  PROVE  c < To(i, j, talk[j])
<1>1. Call.kind \in {"cmd", "until"} /\ Act[i] = Call /\ pc = "io"
  BY DEF LineEnd, Character, Returns, Call
<1>2. PICK a \in Nat : a = From(i, j, talk[j])
  BY <1>1, TextSaid
<1>3. PICK e \in Nat : e = To(i, j, talk[j])
  BY <1>1, TextSaid
<1>4. PICK q \in 1 .. e : TextAt(i, talk[j], a, e, q)
  BY <1>1, <1>2, <1>3, TextSaid
<1>5. c <= e /\ (c = e => Fresh /\ resp.of = j)
  BY <1>3 DEF TextAhead
<1> SUFFICES ASSUME c = e PROVE FALSE
  BY <1>3, <1>5
<1>6. /\ Fresh /\ resp.of = j /\ resp.at = e /\ resp \in Byte
      /\ IF str = <<>> THEN Early(resp, j, a, q) ELSE Early(str[1], j, a, q)
  <2>1. resp \in Byte
    BY ByteSeen DEF LineEnd, Character
  <2> QED BY <1>2, <1>3, <1>4, <1>5, <2>1 DEF TextAhead, Left
<1>7. Len(str) <= Limit /\ Matches(Append(str, resp)) /\ resp.c \notin {"CR", "LF"}
  BY <1>1, <1>4, <1>6, MatchAtEnd
<1>8. Len(str) \in Nat /\ Limit \in Nat
  BY CallIs, OrderFacts DEF OrderInv
<1>9. ~EndsLine(resp.c)
  BY <1>7, <1>8 DEF EndsLine
<1>10. Character => str' = Append(str, resp) /\ ~Matches(str')
  BY <1>7 DEF Character
<1>11. Character => ~Matches(Append(str, resp))
  BY <1>10
<1> QED BY <1>7, <1>9, <1>11 DEF LineEnd

\* Where a line ends, or a CR is dropped, no line of the text goes on behind it.
LEMMA TextLine ==
  ASSUME TextsSaid, NEW talk \in Tales, Rightful(talk), OrderInv, SaidInv(talk),
         NEW i \in 1 .. Len(Act), k = i, NEW j \in 1 .. i, Reading(i, j),
         NEW c \in Nat, Left(talk, j, c), TextAhead(talk, j, c),
         LineEnd \/ (Character /\ resp.c = "CR"),
         NEW q \in 1 .. To(i, j, talk[j]),
         TextAt(i, talk[j], From(i, j, talk[j]), To(i, j, talk[j]), q), line # <<>>
  PROVE  Early(line[1], j, From(i, j, talk[j]), q)
<1>1. Call.kind \in {"cmd", "until"} /\ Act[i] = Call /\ pc = "io"
  BY DEF LineEnd, Character, Returns, Call
<1>2. PICK a \in Nat : a = From(i, j, talk[j])
  BY <1>1, TextSaid
<1>3. PICK e \in Nat : e = To(i, j, talk[j])
  BY <1>1, TextSaid
<1>4. /\ q < e /\ e - q <= Limit + 1
      /\ talk[j][q] = "LF" /\ \A m \in q + 1 .. e : talk[j][m] \notin {"CR", "LF"}
  <2>1. q \in 1 .. e /\ TextAt(i, talk[j], a, e, q) /\ Act[i].kind \in {"cmd", "until"}
    BY <1>1, <1>2, <1>3
  <2>2. PICK t \in Seq(Chars) : t = talk[j]
    BY CallIs DEF Tales
  <2>3. /\ q < e /\ e - q <= Limit + 1
        /\ t[q] = "LF" /\ \A m \in q + 1 .. e : t[m] \notin {"CR", "LF"}
    <3>1. TextAt(i, t, a, e, q)
      BY <2>1, <2>2
    <3> QED BY <2>1, <3>1, TextFacts
  <2> QED BY <2>2, <2>3
<1>5. c < e
  BY <1>3, TextNotYet
<1> SUFFICES ASSUME line[1].of = j, line[1].at > q, ~(line[1].at <= a + 1), ~(line[1].at <= q + 1)
             PROVE  FALSE
  BY <1>2 DEF Early
<1>6. line[1].at = c + 1 /\ c > a /\ c > q /\ q \in Nat /\ q >= 1
  BY DEF Left
<1>7. /\ resp \in Byte /\ resp # NoByte /\ Fresh /\ Follows(resp, line[1])
      /\ resp.of \in Nat /\ resp.at \in Nat
  <2>1. resp \in Byte /\ resp # NoByte /\ Fresh /\ Succeeds(resp, line[1])
    BY ByteSeen DEF LineEnd, Character
  <2> QED BY <2>1, OrderFacts DEF OrderInv, Succeeds
<1>8. resp.of = j /\ resp.at = c
  BY <1>6, <1>7 DEF Follows
<1>9. resp.c \notin {"CR", "LF"}
  <2>1. Told(talk, resp)
    BY <1>7 DEF SaidInv, Spoken
  <2>2. c \in q + 1 .. e
    BY <1>5, <1>6
  <2> QED BY <1>4, <1>8, <2>1, <2>2 DEF Told
<1>10. Len(str) > Limit /\ str # <<>> /\ Len(str) \in Nat /\ Limit \in Nat
  <2>1. EndsLine(resp.c)
    BY <1>9 DEF LineEnd
  <2>2. Len(str) \in Nat /\ Limit \in Nat /\ (str = <<>> => Len(str) = 0)
    BY CallIs, OrderFacts DEF OrderInv
  <2> QED BY <1>9, <2>1, <2>2 DEF EndsLine
<1>11. str[1].at > q /\ c = str[1].at + Len(str)
  <2>1. q < resp.at /\ talk[resp.of][q] = "LF"
    BY <1>4, <1>6, <1>8
  <2>2. str[1].at > q /\ resp.at = str[1].at + Len(str)
    BY <1>1, <1>6, <1>7, <1>9, <1>10, <2>1, LinePlaces
  <2> QED BY <1>8, <2>2
<1>12. str[1].at \in Nat
  <2>1. 1 \in 1 .. Len(str)
    BY <1>10
  <2> QED BY <2>1, OrderFacts DEF OrderInv
<1> QED BY <1>4, <1>5, <1>10, <1>11, <1>12

\* ParseUntil goes on: the text is still ahead.
LEMMA TextKept ==
  ASSUME TextsSaid, NEW talk \in Tales, Rightful(talk), OrderInv, SaidInv(talk),
         NEW i \in 1 .. Len(Act), k = i, NEW j \in 1 .. i, Reading(i, j),
         NEW c \in Nat, Left(talk, j, c), TextAhead(talk, j, c), LineEnd \/ Character
  PROVE  TextAhead(talk, j, c)'
<1>1. /\ Call.kind \in {"cmd", "until"} /\ Act[i] = Call /\ pc = "io" /\ k' = i
      /\ line' = line /\ ~Fresh'
  BY DEF LineEnd, Character, Returns, Call, Read, Begin, Fresh, board
<1>2. PICK a \in Nat : a = From(i, j, talk[j])
  BY <1>1, TextSaid
<1>3. PICK e \in Nat : e = To(i, j, talk[j]) /\ c < e
  BY <1>1, TextSaid, TextNotYet
<1>4. Fresh /\ resp \in Byte
  BY ByteSeen DEF LineEnd, Character
<1>5. ASSUME NEW q \in 1 .. e, TextAt(i, talk[j], a, e, q)
      PROVE  /\ str' = <<>> => (line' # <<>> => Early(line'[1], j, a, q))
             /\ str' # <<>> => Early(str'[1], j, a, q)
  <2>1. IF str = <<>> THEN Early(resp, j, a, q) ELSE Early(str[1], j, a, q)
    BY <1>2, <1>3, <1>4, <1>5 DEF TextAhead
  <2>2. LineEnd \/ (Character /\ resp.c = "CR") => (line # <<>> => Early(line[1], j, a, q))
    BY <1>2, <1>3, <1>5, TextLine
  <2>3. CASE LineEnd
    BY <1>1, <2>2, <2>3 DEF LineEnd
  <2>4. CASE Character /\ resp.c = "CR"
    <3>1. str' = str
      BY <2>4 DEF Character
    <3> QED BY <1>1, <2>1, <2>2, <2>4, <3>1
  <2>5. CASE Character /\ resp.c # "CR"
    <3>1. str' = Append(str, resp) /\ str \in Seq(Byte) /\ Len(str) \in Nat
      BY <2>5, OrderFacts DEF Character, OrderInv, ReadInv, ParseType
    <3>2. /\ str'[Len(str) + 1] = resp /\ str' # <<>>
          /\ \A n \in 1 .. Len(str) : str'[n] = str[n]
      BY <1>4, <3>1, StrGrows
    <3>3. (str = <<>> => Len(str) = 0) /\ (str # <<>> => 1 \in 1 .. Len(str))
      BY <3>1, OrderFacts DEF OrderInv
    <3>4. str'[1] = IF str = <<>> THEN resp ELSE str[1]
      BY <3>2, <3>3
    <3> QED BY <2>1, <3>2, <3>4
  <2> QED BY <2>3, <2>4, <2>5
<1>6. c <= e /\ c # e
  BY <1>3
<1> QED BY <1>1, <1>2, <1>3, <1>5, <1>6 DEF TextAhead

\* The lines that are skipped are in the talk, or it is read to its end.
LEMMA LinesSaid ==
  ASSUME TextsSaid, NEW talk \in Tales, Rightful(talk), NEW i \in 1 .. Len(Act), NEW j \in 1 .. i,
         Reading(i, j), Act[i].kind = "skip"
  PROVE  /\ From(i, j, talk[j]) \in Nat /\ To(i, j, talk[j]) \in Nat
         /\ Len(talk[j]) \in Nat /\ Act[i].count \in Nat
         /\ i # j /\ From(i, j, talk[j]) = To(i - 1, j, talk[j])
         /\ \/ To(i, j, talk[j]) = Len(talk[j])
            \/ \E p \in [1 .. Act[i].count -> 1 .. To(i, j, talk[j])] :
                 LinesAt(i, talk[j], From(i, j, talk[j]), To(i, j, talk[j]), p)
<1>1. talk[j] \in Act[j].talks /\ i # j /\ Act[i].count \in Nat
  <2>1. j \in DOMAIN Act /\ IsCommand(j)
    BY CallIs DEF Reading
  <2> QED BY <2>1, CallIs DEF Rightful, IsCommand
<1>2. /\ From(i, j, talk[j]) \in Nat /\ To(i, j, talk[j]) \in Nat /\ Len(talk[j]) \in Nat
      /\ Reads(i, talk[j], From(i, j, talk[j]), To(i, j, talk[j]))
      /\ From(i, j, talk[j]) = To(i - 1, j, talk[j])
  BY <1>1, ReachIs
<1>3. \/ To(i, j, talk[j]) = Len(talk[j])
      \/ \E p \in [1 .. Act[i].count -> 1 .. To(i, j, talk[j])] :
           LinesAt(i, talk[j], From(i, j, talk[j]), To(i, j, talk[j]), p)
  BY <1>2 DEF Reads
<1> QED BY <1>1, <1>2, <1>3

\* Nothing of its talk was read: no line of it was seen.
LEMMA LinesUnread ==
  ASSUME TextsSaid, NEW talk \in Tales, Rightful(talk), NEW i \in 1 .. Len(Act), NEW j \in 1 .. i,
         Reading(i, j), Act[i].kind = "skip", k' = i, resp'.of # j
  PROVE  LinesAhead(talk, j, 0)'
<1>1. PICK a \in Nat : a = From(i, j, talk[j])
  BY LinesSaid
<1>2. PICK e \in Nat : e = To(i, j, talk[j])
  BY LinesSaid
<1>3. Seen(j, 0)' = 0 /\ Call' = Act[i] /\ Act[i].count \in Nat
  BY CallIs DEF Seen, Call
<1>4. ASSUME NEW p \in [1 .. Act[i].count -> 1 .. e], LinesAt(i, talk[j], a, e, p)
      PROVE  0 < e /\ \A n \in 1 .. Act[i].count : ~(p[n] <= 0)
  BY <1>3, <1>4 DEF LinesAt
<1> QED BY <1>1, <1>2, <1>3, <1>4 DEF LinesAhead

\* SkipLines begins to read where the calls before it have left off.
LEMMA LinesBegun ==
  ASSUME TextsSaid, NEW talk \in Tales, Rightful(talk), NEW i \in 1 .. Len(Act), NEW j \in 1 .. i,
         Reading(i, j), Act[i].kind = "skip", NEW c \in 0 .. Len(talk[j]), c <= To(i - 1, j, talk[j]),
         k' = i, resp'.of # j
  PROVE  LinesAhead(talk, j, c)'
<1>1. PICK a \in Nat : a = From(i, j, talk[j]) /\ c <= a
  BY LinesSaid
<1>2. PICK e \in Nat : e = To(i, j, talk[j])
  BY LinesSaid
<1>3. Seen(j, c)' = c /\ Call' = Act[i] /\ Act[i].count \in Nat /\ c \in Nat /\ Len(talk[j]) \in Nat
  BY LinesSaid DEF Seen, Call
<1>4. ASSUME NEW p \in [1 .. Act[i].count -> 1 .. e], LinesAt(i, talk[j], a, e, p)
      PROVE  c < e /\ \A n \in 1 .. Act[i].count : ~(p[n] <= c)
  <2>1. a < e /\ p \in [1 .. Act[i].count -> a + 1 .. e]
    BY <1>4 DEF LinesAt
  <2> QED BY <1>1, <1>3, <2>1
<1>5. c <= e
  <2>1. e = Len(talk[j]) \/ \E p \in [1 .. Act[i].count -> 1 .. e] : LinesAt(i, talk[j], a, e, p)
    BY <1>1, <1>2, LinesSaid
  <2> QED BY <1>3, <1>4, <2>1
<1> QED BY <1>1, <1>2, <1>3, <1>4, <1>5 DEF LinesAhead

\* A byte is read, which SkipLines has not seen yet.
LEMMA LinesByte ==
  ASSUME TextsSaid, NEW talk \in Tales, Rightful(talk), OrderInv,
         NEW i \in 1 .. Len(Act), k = i, Call.kind = "skip", NEW j \in 1 .. i, Reading(i, j),
         NEW c \in Nat, LinesAhead(talk, j, c), ByteArrives,
         NEW d \in 0 .. Len(talk[j]), resp'.of = j => d = c + 1, resp'.of # j => d = c
  PROVE  LinesAhead(talk, j, d)'
<1>1. ~Fresh /\ Fresh' /\ k' = k /\ Call' = Call /\ lines' = lines /\ Call = Act[i]
  BY ByteTaken DEF ByteArrives, Call
<1>2. PICK a \in Nat : a = From(i, j, talk[j])
  BY <1>1, LinesSaid
<1>3. PICK e \in Nat : e = To(i, j, talk[j])
  BY <1>1, LinesSaid
<1>4. Seen(j, c) = c /\ Seen(j, d)' = c /\ d \in Nat
  <2>1. d \in Nat
    OBVIOUS
  <2>2. Seen(j, c) = c
    BY <1>1 DEF Seen
  <2>3. CASE resp'.of = j
    BY <1>1, <2>3 DEF Seen
  <2>4. CASE resp'.of # j
    <3>1. d = c /\ ~(Fresh' /\ resp'.of = j)
      BY <2>4
    <3> QED BY <2>1, <2>2, <3>1 DEF Seen
  <2> QED BY <2>1, <2>2, <2>3, <2>4
<1>5. ASSUME NEW p \in [1 .. Call.count -> 1 .. e], LinesAt(i, talk[j], a, e, p)
      PROVE  c < e /\ \A n \in 1 .. Call.count : p[n] <= c => lines >= n
  BY <1>2, <1>3, <1>4, <1>5 DEF LinesAhead
<1>6. d <= e
  <2>1. e = Len(talk[j]) \/ \E p \in [1 .. Call.count -> 1 .. e] : LinesAt(i, talk[j], a, e, p)
    BY <1>1, <1>2, <1>3, LinesSaid
  <2>2. CASE e = Len(talk[j])
    BY <2>2
  <2>3. CASE \E p \in [1 .. Call.count -> 1 .. e] : LinesAt(i, talk[j], a, e, p)
    <3>1. c < e
      BY <1>5, <2>3
    <3> QED BY <1>3, <3>1
  <2> QED BY <2>1, <2>2, <2>3
<1> QED BY <1>1, <1>2, <1>3, <1>4, <1>5, <1>6 DEF LinesAhead

\* SkipLines looks at a byte, and goes on: what it has seen is counted.
LEMMA LinesKept ==
  ASSUME TextsSaid, NEW talk \in Tales, Rightful(talk), OrderInv, SaidInv(talk),
         NEW i \in 1 .. Len(Act), k = i, NEW j \in 1 .. i, Reading(i, j),
         NEW c \in Nat, Left(talk, j, c), LinesAhead(talk, j, c), SkipLines, lines' < Call.count
  PROVE  LinesAhead(talk, j, c)'
<1>1. /\ Call.kind = "skip" /\ Call = Act[i] /\ pc = "io"
      /\ lines' = IF resp.c = "CR" THEN lines + 1 ELSE lines
      /\ k' = k /\ Call' = Call /\ resp' = resp /\ ~Fresh'
  BY DEF SkipLines, Returns, Call, Read, Begin, Fresh
<1>2. PICK a \in Nat : a = From(i, j, talk[j])
  BY <1>1, LinesSaid
<1>3. PICK e \in Nat : e = To(i, j, talk[j])
  BY <1>1, LinesSaid
<1>4. Seen(j, c)' = c /\ lines \in Nat /\ lines' \in Nat /\ lines <= lines' /\ Call.count \in Nat
  <2>1. lines \in Nat
    BY DEF OrderInv, ReadInv, ParseType
  <2>2. Seen(j, c)' = c
    BY <1>1 DEF Seen
  <2>3. Call.count \in Nat
    BY <1>1, CallIs
  <2> QED BY <1>1, <2>1, <2>2, <2>3
<1>5. ASSUME NEW p \in [1 .. Call.count -> 1 .. e], LinesAt(i, talk[j], a, e, p)
      PROVE  c < e /\ \A n \in 1 .. Call.count : p[n] <= c => lines' >= n
  <2>1. \A n \in 1 .. Call.count : p[n] <= Seen(j, c) => lines >= n
    BY <1>2, <1>3, <1>5 DEF LinesAhead
  <2>2. c <= e
    BY <1>3 DEF LinesAhead
  <2>3. \A n \in 1 .. Call.count : p[n] \in Nat /\ talk[j][p[n]] = "CR" /\ (n > 1 => p[n - 1] < p[n])
    BY <1>1, <1>5 DEF LinesAt
  <2>4. ASSUME NEW n \in 1 .. Call.count, p[n] <= c PROVE lines' >= n
    <3>1. CASE p[n] <= Seen(j, c)
      BY <1>4, <2>1, <3>1
    <3>2. CASE ~(p[n] <= Seen(j, c))
      <4>1. Seen(j, c) = c - 1 /\ Fresh /\ resp.of = j
        BY <2>3, <2>4, <3>2 DEF Seen
      <4>2. p[n] = c /\ resp.at = c
        BY <2>3, <2>4, <3>2, <4>1 DEF Left
      <4>3. Told(talk, resp)
        <5>1. resp # NoByte
          BY <4>1 DEF NoByte
        <5> QED BY <5>1 DEF SaidInv, Spoken
      <4>4. resp.c = "CR"
        BY <2>3, <4>1, <4>2, <4>3 DEF Told
      <4>5. lines' = lines + 1
        BY <1>1, <4>4
      <4>6. CASE n = 1
        BY <1>4, <4>5, <4>6
      <4>7. CASE n > 1
        <5>1. n - 1 \in 1 .. Call.count /\ p[n - 1] <= Seen(j, c)
          <6>1. n - 1 \in 1 .. Call.count
            BY <1>4, <4>7
          <6>2. p[n - 1] < c /\ p[n - 1] \in Nat
            BY <2>3, <4>2, <4>7, <6>1
          <6> QED BY <4>1, <6>1, <6>2
        <5>2. lines >= n - 1
          BY <2>1, <5>1
        <5> QED BY <1>4, <4>5, <5>2
      <4> QED BY <4>6, <4>7
    <3> QED BY <3>1, <3>2
  <2>5. c # e
    <3> SUFFICES ASSUME c = e PROVE FALSE
      OBVIOUS
    <3>1. Call.count \in 1 .. Call.count
      BY <1>4
    <3>2. p[Call.count] <= c
      BY <3>1
    <3> QED BY <1>4, <2>4, <3>1, <3>2
  <2> QED BY <2>2, <2>4, <2>5
<1>6. c <= e
  BY <1>3 DEF LinesAhead
<1> QED BY <1>1, <1>2, <1>3, <1>4, <1>5, <1>6 DEF LinesAhead

\* While a text is awaited, the board has something to say: no time passes in vain.
LEMMA NeverLate ==
  ASSUME TextsSaid, NEW talk \in Tales, OrderInv, SaidInv(talk), timely, TimelyInv(talk),
         pc = "io", Call.kind \in {"cmd", "until"}
  PROVE  ~Expire
<1> SUFFICES ASSUME Expire PROVE FALSE
  OBVIOUS
<1>1. PICK i \in 1 .. Len(Act) : i = k
  BY DEF OrderInv, ReadInv, CallType
<1>2. Newest = i /\ Call = Act[i] /\ i \in DOMAIN Act /\ i \in 1 .. i
  BY <1>1, CallIs DEF Newest, Call
<1>3. \E o \in 1 .. i : IsCommand(o)
  <2>1. CASE Act[i].kind = "cmd"
    BY <1>2, <2>1 DEF IsCommand
  <2>2. CASE Act[i].kind = "until"
    BY <1>2, <2>2 DEF TextsSaid
  <2> QED BY <1>2, <2>1, <2>2
<1>4. PICK j \in 1 .. i : Reading(i, j)
  BY <1>3, ReadingOne
<1>5. Rightful(talk) /\ \E c \in 0 .. Len(talk[j]) : Ahead(talk, j, c)
  BY <1>2, <1>4 DEF TimelyInv
<1>6. PICK c \in 0 .. Len(talk[j]) : Ahead(talk, j, c)
  BY <1>5
<1>7. line = <<>> /\ toBoard = <<>> /\ rd = "pending" /\ ~Fresh
  BY DEF Expire, OrderInv, ReadInv, TryCount, Fresh
<1>8. PICK e \in Nat : e = To(i, j, talk[j]) /\ e <= Len(talk[j])
  BY <1>2, <1>4, <1>5, TextSaid
<1>9. Left(talk, j, c) /\ c <= e /\ c # e
  BY <1>1, <1>2, <1>6, <1>7, <1>8 DEF Ahead, TextAhead
<1>10. c < Len(talk[j])
  <2>1. Len(talk[j]) \in Nat
    BY <1>4, CallIs, LenProperties DEF Tales
  <2> QED BY <1>8, <1>9, <2>1
<1>11. \E n \in 1 .. Len(line) : line[n].of = j
  BY <1>7, <1>9, <1>10 DEF Left
<1> QED BY <1>7, <1>11, EmptySeq

\* A call that is over in time has heard its text.
LEMMA PunctualOver ==
  ASSUME OrderInv, Punctual, pc # "done", Over(FALSE), failed' = failed,
         \A i \in 1 .. k : Act[i].kind \in {"cmd", "until"} => heard'[i] # 0
  PROVE  Punctual'
<1>1. k \in 1 .. Len(Act) /\ Len(Act) \in Nat /\ k \in Nat
  BY CallIs DEF OrderInv, ReadInv, CallType
<1>2. k' = k + 1 /\ pc' # "io" /\ (pc' = "done" => k' = Len(Act) + 1)
  BY <1>1 DEF Over
<1>3. \A i \in 1 .. k' - 1 : Act[i].kind \in {"cmd", "until"} => heard'[i] # 0
  BY <1>1, <1>2
<1> QED BY <1>2, <1>3 DEF Punctual

\* No time passes in vain.
LEMMA PunctualKept ==
  ASSUME TextsSaid, NEW talk \in Tales, OrderInv, SaidInv(talk), timely, TimelyInv(talk), [Next]_vars
  PROVE  Punctual'
<1>1. /\ ~failed /\ (pc = "done" => k = Len(Act) + 1)
      /\ \A i \in 1 .. k - 1 : Act[i].kind \in {"cmd", "until"} => heard[i] # 0
      /\ pc = "io" /\ Call.kind \in {"cmd", "until"} => tryNum = 0 /\ timer # "fired"
  BY DEF TimelyInv, Punctual
<1>2. ASSUME NEW i \in 1 .. k, i # k, Act[i].kind \in {"cmd", "until"} PROVE heard[i] # 0
  <2>1. i \in 1 .. k - 1
    BY <1>2, OrderFacts DEF OrderInv
  <2> QED BY <1>1, <1>2, <2>1
<1>3. CASE Expire
  <2>1. UNCHANGED <<caller, tryNum>> /\ Call' = Call
    BY <1>3 DEF Expire, reader, caller, Call
  <2>2. ~(pc = "io" /\ Call.kind \in {"cmd", "until"})
    BY <1>3, NeverLate
  <2> QED BY <1>1, <2>1, <2>2 DEF Punctual, caller
<1>4. CASE TimerHandler \/ ReadHandler \/ ReadAgain
  <2>1. UNCHANGED caller /\ Call' = Call
    BY <1>4 DEF TimerHandler, ReadHandler, ReadAgain, caller, Call
  <2>2. tryNum = 0 /\ timer # "fired" => tryNum' = 0 /\ timer' # "fired"
    BY <1>4 DEF TimerHandler, ReadHandler, ReadAgain, Begin
  <2> QED BY <1>1, <2>1, <2>2 DEF Punctual, caller
<1>5. CASE Timeout
  <2>1. pc = "io" /\ Call.kind \in {"cmd", "until"} /\ tryNum >= Tries
    BY <1>5 DEF Timeout, Returns
  <2> QED BY <1>1, <2>1, CallIs
<1>6. CASE LineEnd \/ Character
  <2>1. UNCHANGED <<k, failed, heard>> /\ pc' = "io" /\ tryNum' = 0 /\ timer' = "armed"
    BY <1>6 DEF LineEnd, Character, Read, Begin
  <2> QED BY <1>1, <2>1 DEF Punctual
<1>7. CASE Found
  <2>1. Over(FALSE) /\ failed' = failed /\ pc = "io" /\ heard' = [heard EXCEPT ![k] = resp.of]
    BY <1>7 DEF Found, Returns
  <2>2. resp.of \in 1 .. k /\ k \in 1 .. Len(Act)
    BY <1>7, ByteSeen DEF Found
  <2>3. ASSUME NEW i \in 1 .. k, Act[i].kind \in {"cmd", "until"} PROVE heard'[i] # 0
    <3>1. i \in DOMAIN Act /\ heard \in [DOMAIN Act -> 0 .. Len(Act)]
      BY <2>2, CallIs DEF OrderInv, ReadInv, HeardType
    <3>2. heard'[i] = IF i = k THEN resp.of ELSE heard[i]
      BY <2>1, <3>1
    <3> QED BY <1>2, <2>2, <2>3, <3>2
  <2> QED BY <2>1, <2>3, PunctualOver DEF TimelyInv
<1>8. CASE SkipLines
  <2>1. UNCHANGED <<failed, heard>> /\ pc = "io" /\ Call.kind = "skip" /\ Call = Act[k]
    BY <1>8 DEF SkipLines, Returns, Call
  <2>2. CASE Over(FALSE)
    <3>1. \A i \in 1 .. k : Act[i].kind \in {"cmd", "until"} => heard'[i] # 0
      BY <1>2, <2>1
    <3> QED BY <2>1, <2>2, <3>1, PunctualOver DEF TimelyInv
  <2>3. CASE Read /\ UNCHANGED k
    BY <1>1, <2>1, <2>3 DEF Punctual, Read, Call
  <2> QED BY <1>8, <2>2, <2>3 DEF SkipLines
<1>9. CASE SendTo
  <2>1. UNCHANGED <<k, failed, heard>> /\ pc' = "io" /\ tryNum' = 0 /\ timer' = "armed"
    BY <1>1, <1>9 DEF SendTo, Read, Begin
  <2> QED BY <1>1, <2>1 DEF Punctual
<1>10. CASE SendCmd
  <2>1. /\ UNCHANGED <<failed, heard>> /\ pc = "call" /\ Call.kind = "send" /\ Call = Act[k]
        /\ Over(FALSE)
    BY <1>10 DEF SendCmd, Call
  <2>2. \A i \in 1 .. k : Act[i].kind \in {"cmd", "until"} => heard'[i] # 0
    BY <1>2, <2>1
  <2> QED BY <2>1, <2>2, PunctualOver DEF TimelyInv
<1>11. CASE Await
  <2>1. UNCHANGED <<k, failed, heard>> /\ pc' = "io" /\ tryNum' = 0 /\ timer' = "armed"
    BY <1>11 DEF Await, Begin
  <2> QED BY <1>1, <2>1 DEF Punctual
<1>12. CASE ByteArrives \/ Answer \/ UNCHANGED vars
  <2>1. UNCHANGED <<caller, tryNum, timer>> /\ Call' = Call
    BY <1>12 DEF ByteArrives, Answer, vars, caller, reader, Call
  <2> QED BY <1>1, <2>1 DEF Punctual, caller
<1> QED
  BY <1>3, <1>4, <1>5, <1>6, <1>7, <1>8, <1>9, <1>10, <1>11, <1>12 DEF Next, Host

\* What is ahead stays ahead where nothing is read.
LEMMA AheadIdle ==
  ASSUME NEW talk, NEW j, NEW c, Ahead(talk, j, c), Idle PROVE Ahead(talk, j, c)'
<1>1. UNCHANGED <<k, pc, str, resp, line, lines, toBoard>> /\ Fresh' = Fresh /\ Call' = Call
  BY DEF Idle, parser, Call
<1>2. Left(talk, j, c)'
  BY <1>1 DEF Ahead, Left
<1>3. pc = "io" /\ Call.kind \in {"cmd", "until"} => TextAhead(talk, j, c)'
  BY <1>1 DEF Ahead, TextAhead
<1>4. pc = "io" /\ Call.kind = "skip" => LinesAhead(talk, j, c)'
  BY <1>1 DEF Ahead, LinesAhead, Seen
<1>5. pc = "call" => c <= To(k - 1, j, talk[j])
  BY DEF Ahead
<1> QED BY <1>1, <1>2, <1>3, <1>4, <1>5 DEF Ahead

\* A byte is read.
LEMMA AheadByte ==
  ASSUME TextsSaid, NEW talk \in Tales, Rightful(talk), OrderInv, SaidInv(talk),
         NEW i \in 1 .. Len(Act), k = i, NEW j \in 1 .. i, Reading(i, j),
         NEW c \in 0 .. Len(talk[j]), Ahead(talk, j, c), ByteArrives
  PROVE  \E d \in 0 .. Len(talk[j]) : Ahead(talk, j, d)'
<1>1. pc = "io" /\ UNCHANGED <<k, pc>> /\ Call' = Call /\ Newest = i
  BY ByteTaken DEF Newest
<1>2. PICK d \in 0 .. Len(talk[j]) :
        /\ Left(talk, j, d)'
        /\ resp'.of = j => d = c + 1 /\ resp'.at = d
        /\ resp'.of # j => d = c
  BY <1>1, LeftByte DEF Ahead
<1>3. c \in Nat /\ d \in Nat
  OBVIOUS
<1>4. Call.kind \in {"cmd", "until"} => TextAhead(talk, j, d)'
  BY <1>1, <1>2, <1>3, TextByte DEF Ahead
<1>5. Call.kind = "skip" => LinesAhead(talk, j, d)'
  BY <1>1, <1>2, <1>3, LinesByte DEF Ahead
<1>6. Ahead(talk, j, d)'
  BY <1>1, <1>2, <1>4, <1>5 DEF Ahead
<1> QED BY <1>6

\* A call goes on.
LEMMA AheadGoes ==
  ASSUME TextsSaid, NEW talk \in Tales, Rightful(talk), OrderInv, SaidInv(talk),
         NEW i \in 1 .. Len(Act), k = i, NEW j \in 1 .. i, Reading(i, j),
         NEW c \in 0 .. Len(talk[j]), Ahead(talk, j, c),
         LineEnd \/ Character \/ (SkipLines /\ lines' < Call.count)
  PROVE  Ahead(talk, j, c)'
<1>1. /\ pc = "io" /\ pc' = "io" /\ k' = k /\ Call' = Call
      /\ UNCHANGED <<line, toBoard, resp>> /\ c \in Nat /\ j \in Nat /\ j >= 1
  <2>1. CASE LineEnd \/ Character
    BY <2>1 DEF LineEnd, Character, Returns, Read, board, Call
  <2>2. CASE SkipLines /\ lines' < Call.count
    <3>1. pc = "io" /\ Read /\ k' = k /\ UNCHANGED board
      BY <2>2 DEF SkipLines, Returns
    <3> QED BY <3>1 DEF Read, board, Call
  <2> QED BY <2>1, <2>2
<1>2. Left(talk, j, c)'
  BY <1>1, LeftKept DEF Ahead
<1>3. CASE LineEnd \/ Character
  <2>1. Call.kind \in {"cmd", "until"}
    BY <1>3 DEF LineEnd, Character, Returns
  <2>2. TextAhead(talk, j, c)'
    BY <1>1, <1>3, <2>1, TextKept DEF Ahead
  <2> QED BY <1>1, <1>2, <2>1, <2>2 DEF Ahead
<1>4. CASE SkipLines /\ lines' < Call.count
  <2>1. Call.kind = "skip"
    BY <1>4 DEF SkipLines, Returns
  <2>2. LinesAhead(talk, j, c)'
    BY <1>1, <1>4, <2>1, LinesKept DEF Ahead
  <2> QED BY <1>1, <1>2, <2>1, <2>2 DEF Ahead
<1> QED BY <1>3, <1>4

\* A call is over that read, and the next one is made.
LEMMA AheadOver ==
  ASSUME TextsSaid, NEW talk \in Tales, Rightful(talk), OrderInv, SaidInv(talk),
         NEW i \in 1 .. Len(Act), k = i, NEW j \in 1 .. i, Reading(i, j),
         NEW c \in 0 .. Len(talk[j]), Ahead(talk, j, c),
         Found \/ (SkipLines /\ ~(lines' < Call.count)), pc' # "done"
  PROVE  k' = i + 1 /\ pc' = "call" /\ Ahead(talk, j, c)'
<1>1. /\ pc = "io" /\ k' = i + 1 /\ pc' = "call" /\ Call.kind \in {"cmd", "until", "skip"}
      /\ UNCHANGED <<line, toBoard, resp>> /\ j \in Nat /\ j >= 1
  BY DEF Found, SkipLines, Returns, Over, board
<1>2. Left(talk, j, c)'
  BY <1>1, LeftKept DEF Ahead
<1>3. c <= To(i, j, talk[j])
  BY <1>1 DEF Ahead, TextAhead, LinesAhead
<1>4. c <= To(k' - 1, j, talk[j])
  <2>1. k' - 1 = i
    BY <1>1
  <2> QED BY <1>3, <2>1
<1> QED BY <1>1, <1>2, <1>4 DEF Ahead

\* A command is sent.
LEMMA AheadSent ==
  ASSUME TextsSaid, NEW talk \in Tales, Rightful(talk), OrderInv,
         NEW j \in 1 .. Len(Act), k = j, ~failed, SendTo \/ SendCmd, pc' # "done"
  PROVE  IsCommand(j) /\ Newest' = j /\ 0 \in 0 .. Len(talk[j]) /\ Ahead(talk, j, 0)'
<1>1. /\ pc = "call" /\ IsCommand(j) /\ Call = Act[j] /\ toBoard' = Append(toBoard, j)
      /\ UNCHANGED <<line, resp>> /\ j \in Nat
  <2>1. j \in Nat /\ Call = Act[j]
    BY CallIs DEF Call
  <2>2. CASE SendTo
    BY <2>1, <2>2 DEF SendTo, IsCommand, Read
  <2>3. CASE SendCmd
    BY <2>1, <2>3 DEF SendCmd, IsCommand, parser
  <2> QED BY <2>1, <2>2, <2>3
<1>2. /\ Left(talk, j, 0)' /\ resp.of \in Nat /\ resp.of < j
      /\ line # <<>> => line[1].of < j
  BY <1>1, LeftSent
<1>3. 0 \in 0 .. Len(talk[j])
  BY <1>2 DEF Left
<1>4. Reading(j, j) /\ j \in 1 .. j /\ talk[j] \in Act[j].talks
  BY <1>1, CallIs DEF Reading, Rightful
<1>5. CASE SendTo
  <2>1. k' = j /\ pc' = "io" /\ str' = <<>> /\ Act[j].kind = "cmd" /\ Call' = Act[j]
    BY <1>1, <1>5 DEF SendTo, Read, Call
  <2>2. TextAhead(talk, j, 0)'
    <3>1. resp'.of # j
      BY <1>1, <1>2
    <3>2. ~(line' # <<>> /\ line'[1].of = j)
      BY <1>1, <1>2
    <3> QED BY <1>4, <2>1, <3>1, <3>2, TextUnread
  <2> QED BY <1>1, <1>2, <1>3, <2>1, <2>2 DEF Ahead, Newest
<1>6. CASE SendCmd
  <2>1. k' = j + 1 /\ pc' = "call" /\ k' - 1 = j
    BY <1>1, <1>6 DEF SendCmd, Over
  <2>2. 0 <= To(j, j, talk[j])
    BY <1>4, ReachIs
  <2>3. Ahead(talk, j, 0)'
    BY <1>2, <2>1, <2>2 DEF Ahead
  <2>4. Newest' = j
    BY <2>1 DEF Newest
  <2> QED BY <1>1, <1>3, <2>3, <2>4
<1> QED BY <1>5, <1>6

\* ParseUntil or SkipLines begins.
LEMMA AheadBegun ==
  ASSUME TextsSaid, NEW talk \in Tales, Rightful(talk), OrderInv,
         NEW i \in 1 .. Len(Act), k = i, NEW j \in 1 .. i, Reading(i, j), i # j,
         NEW c \in 0 .. Len(talk[j]), Ahead(talk, j, c), Await
  PROVE  Ahead(talk, j, c)'
<1>1. /\ pc = "call" /\ pc' = "io" /\ k' = i /\ Call = Act[i] /\ Call' = Act[i]
      /\ UNCHANGED <<line, toBoard>> /\ resp' = NoByte /\ str' = <<>> /\ ~Fresh'
      /\ Act[i].kind \in {"until", "skip"} /\ c \in Nat /\ j \in Nat /\ j >= 1
  BY DEF Await, Begin, Call, board, Fresh
<1>2. Left(talk, j, c)' /\ c <= To(i - 1, j, talk[j])
  BY <1>1, LeftKept DEF Ahead
<1>3. resp'.of # j /\ (line' # <<>> /\ line'[1].of = j => line'[1].at = c + 1)
  <2>1. resp'.of = 0
    BY <1>1 DEF NoByte
  <2>2. line # <<>> /\ line[1].of = j => line[1].at = c + 1
    BY DEF Ahead, Left
  <2> QED BY <1>1, <2>1, <2>2
<1>4. CASE Act[i].kind = "until"
  <2>1. TextAhead(talk, j, c)'
    BY <1>1, <1>2, <1>3, <1>4, TextBegun
  <2> QED BY <1>1, <1>2, <1>4, <2>1 DEF Ahead
<1>5. CASE Act[i].kind = "skip"
  <2>1. LinesAhead(talk, j, c)'
    BY <1>1, <1>2, <1>3, <1>5, LinesBegun
  <2> QED BY <1>1, <1>2, <1>5, <2>1 DEF Ahead
<1> QED BY <1>1, <1>4, <1>5

\* A board that answers in time goes on to.
LEMMA TimelyFixed == [Next]_vars => timely' = timely
BY DEF Next, Host, TimerHandler, ReadHandler, ReadAgain, Timeout, LineEnd, Character, Found, SkipLines,
       SendTo, SendCmd, Await, ByteArrives, Expire, Answer, Returns, vars, board

\* Each step but an answer keeps what is ahead.
LEMMA TimelyKept ==
  ASSUME TextsSaid, NEW talk \in Tales, OrderInv, SaidInv(talk), TimelyInv(talk), [Next]_vars, ~Answer
  PROVE  TimelyInv(talk)'
<1>1. timely' = timely
  BY TimelyFixed
<1> SUFFICES ASSUME timely PROVE TimelyInv(talk)'
  BY <1>1 DEF TimelyInv
<1>2. Rightful(talk) /\ Punctual
  BY DEF TimelyInv
<1>3. Punctual'
  BY PunctualKept
<1> SUFFICES ASSUME pc' # "done", NEW j \in 1 .. Newest', Reading(Newest', j)
             PROVE  \E c \in 0 .. Len(talk[j]) : Ahead(talk, j, c)'
  BY <1>2, <1>3 DEF TimelyInv, Rightful
<1>4. ASSUME pc # "done", NEW n \in 1 .. Newest, Reading(Newest, n)
      PROVE  \E c \in 0 .. Len(talk[n]) : Ahead(talk, n, c)
  BY <1>4 DEF TimelyInv
<1>5. pc # "done" => k \in 1 .. Len(Act)
  BY DEF OrderInv, ReadInv, CallType
<1>6. CASE Idle
  <2>1. pc' = pc /\ Newest' = Newest
    BY <1>6 DEF Idle, Newest
  <2>2. PICK c \in 0 .. Len(talk[j]) : Ahead(talk, j, c)
    BY <1>4, <2>1
  <2> QED BY <1>6, <2>2, AheadIdle
<1>7. CASE ByteArrives
  <2>1. pc = "io" /\ Newest = k /\ Newest' = k
    BY <1>7, ByteTaken DEF Newest
  <2>2. PICK i \in 1 .. Len(Act) : i = k
    BY <1>5, <2>1
  <2>3. j \in 1 .. i /\ Reading(i, j)
    BY <2>1, <2>2
  <2>4. PICK c \in 0 .. Len(talk[j]) : Ahead(talk, j, c)
    BY <1>4, <2>1, <2>2, <2>3
  <2> QED BY <1>2, <1>7, <2>2, <2>3, <2>4, AheadByte
<1>8. CASE Timeout
  <2>1. pc = "io" /\ Call.kind \in {"cmd", "until"} /\ tryNum >= Tries
    BY <1>8 DEF Timeout, Returns
  <2> QED BY <1>2, <2>1, CallIs DEF Punctual
<1>9. CASE LineEnd \/ Character \/ (SkipLines /\ lines' < Call.count)
  <2>1. pc = "io" /\ pc' = "io" /\ k' = k
    <3>1. CASE LineEnd \/ Character
      BY <3>1 DEF LineEnd, Character, Returns, Read
    <3>2. CASE SkipLines /\ lines' < Call.count
      BY <3>2 DEF SkipLines, Returns, Read
    <3> QED BY <1>9, <3>1, <3>2
  <2>2. PICK i \in 1 .. Len(Act) : i = k
    BY <1>5, <2>1
  <2>3. Newest = i /\ j \in 1 .. i /\ Reading(i, j)
    BY <2>1, <2>2 DEF Newest
  <2>4. PICK c \in 0 .. Len(talk[j]) : Ahead(talk, j, c)
    BY <1>4, <2>1, <2>3
  <2> QED BY <1>2, <1>9, <2>2, <2>3, <2>4, AheadGoes
<1>10. CASE Found \/ (SkipLines /\ ~(lines' < Call.count))
  <2>1. pc = "io" /\ pc' = "call" /\ k' = k + 1
    BY <1>10 DEF Found, SkipLines, Returns, Over
  <2>2. PICK i \in 1 .. Len(Act) : i = k
    BY <1>5, <2>1
  <2>3. Newest = i /\ j \in 1 .. i /\ Reading(i, j)
    <3>1. Newest = i /\ Newest' = i
      BY <2>1, <2>2 DEF Newest
    <3> QED BY <3>1
  <2>4. PICK c \in 0 .. Len(talk[j]) : Ahead(talk, j, c)
    BY <1>4, <2>1, <2>3
  <2> QED BY <1>2, <1>10, <2>2, <2>3, <2>4, AheadOver
<1>11. CASE SendTo \/ SendCmd
  <2>1. pc = "call" /\ ~failed
    BY <1>2, <1>11 DEF SendTo, SendCmd, Punctual
  <2>2. PICK i \in 1 .. Len(Act) : i = k
    BY <1>5, <2>1
  <2>3. IsCommand(i) /\ Newest' = i /\ 0 \in 0 .. Len(talk[i]) /\ Ahead(talk, i, 0)'
    BY <1>2, <1>11, <2>1, <2>2, AheadSent
  <2>4. j = i
    BY <2>3, CallIs, ReadingLast
  <2> QED BY <2>3, <2>4
<1>12. CASE Await
  <2>1. pc = "call" /\ pc' = "io" /\ k' = k /\ ~IsCommand(k)
    BY <1>12 DEF Await, IsCommand, Call
  <2>2. PICK i \in 1 .. Len(Act) : i = k
    BY <1>5, <2>1
  <2>3. /\ Newest = i - 1 /\ j \in 1 .. i /\ Reading(i, j) /\ i # j
        /\ j \in 1 .. i - 1 /\ Reading(i - 1, j)
    <3>1. Newest = i - 1 /\ Newest' = i /\ i \in Nat
      BY <2>1, <2>2, CallIs DEF Newest
    <3>2. i # j
      BY <2>1, <2>2, <3>1 DEF Reading
    <3> QED BY <3>1, <3>2, ReadingLast
  <2>4. PICK c \in 0 .. Len(talk[j]) : Ahead(talk, j, c)
    BY <1>4, <2>1, <2>3
  <2> QED BY <1>2, <1>12, <2>2, <2>3, <2>4, AheadBegun
<1> QED BY <1>6, <1>7, <1>8, <1>9, <1>10, <1>11, <1>12, IdleSteps

\* And so does an answer, when it is known what the board says.
LEMMA TimelyAnswer ==
  ASSUME TextsSaid, NEW talk \in Tales, NEW new \in Tales, NEW h \in DOMAIN Act, NEW t \in Act[h].talks,
         OrderInv, SaidInv(talk), TimelyInv(talk), Answer, Answered(h, t),
         new[h] = t, \A i \in DOMAIN Act \ {h} : new[i] = talk[i]
  PROVE  TimelyInv(new)'
<1>1. /\ UNCHANGED <<k, pc, failed, heard, tryNum, timer, str, resp, timely>>
      /\ Call' = Call /\ Newest' = Newest
  BY DEF Answered, reader, parser, Newest
<1> SUFFICES ASSUME timely PROVE TimelyInv(new)'
  BY <1>1 DEF TimelyInv
<1>2. Rightful(new) /\ Punctual'
  <2>1. Rightful(new)
    BY DEF TimelyInv, Rightful
  <2>2. Punctual'
    BY <1>1 DEF TimelyInv, Punctual
  <2> QED BY <2>1, <2>2
<1> SUFFICES ASSUME pc # "done", NEW j \in 1 .. Newest, Reading(Newest, j)
             PROVE  \E c \in 0 .. Len(new[j]) : Ahead(new, j, c)'
  BY <1>1, <1>2 DEF TimelyInv, Rightful
<1>3. PICK i \in 1 .. Len(Act) : i = k
  BY DEF OrderInv, ReadInv, CallType
<1>4. j \in DOMAIN Act /\ j \in Nat /\ i \in Nat
  BY <1>3, CallIs DEF Newest
<1>5. PICK c \in 0 .. Len(talk[j]) : Ahead(talk, j, c)
  BY DEF TimelyInv
<1>6. /\ c = 0 /\ Left(new, j, 0)'
      /\ resp.of \in Nat /\ resp.of < j
      /\ line' # <<>> /\ line'[1].of = j => line'[1].at = 1
  BY <1>4, <1>5, LeftAnswer DEF Ahead
<1>7. 0 \in 0 .. Len(new[j]) /\ Call' = Act[i] /\ k' = i
  BY <1>1, <1>3, <1>6 DEF Left, Call
<1>8. CASE pc = "call"
  <2>1. Newest = i - 1 /\ i - 1 \in 1 .. Len(Act)
    BY <1>3, <1>8, CallIs DEF Newest
  <2>2. new[j] \in Act[j].talks
    BY <1>2, <1>4 DEF Rightful, Reading
  <2>3. 0 <= To(i - 1, j, new[j])
    BY <2>1, <2>2, ReachIs
  <2> QED BY <1>1, <1>6, <1>7, <1>8, <2>3 DEF Ahead
<1>9. CASE pc = "io"
  <2>1. j \in 1 .. i /\ Reading(i, j)
    BY <1>3, <1>9 DEF Newest
  <2>2. str # <<>> => str[1].of # j
    <3>1. str # <<>> => str[1].of <= resp.of /\ str[1].of \in Nat
      <4>1. str # <<>> => 1 \in 1 .. Len(str)
        BY OrderFacts DEF OrderInv
      <4> QED BY <1>9, <4>1, OrderFacts DEF OrderInv, SaidInv, Placed
    <3> QED BY <1>4, <1>6, <3>1
  <2>3. Act[i].kind \in {"cmd", "until"} => TextAhead(new, j, 0)'
    BY <1>1, <1>2, <1>4, <1>6, <1>7, <2>1, <2>2, TextUnread
  <2>4. Act[i].kind = "skip" => LinesAhead(new, j, 0)'
    BY <1>1, <1>2, <1>4, <1>6, <1>7, <2>1, LinesUnread
  <2> QED BY <1>1, <1>6, <1>7, <1>9, <2>3, <2>4 DEF Ahead
<1> QED BY <1>8, <1>9 DEF OrderInv, ReadInv, CallType

\* A board that answers in time is understood, if each text that is awaited is said.
THEOREM TimelyAreHeard == ASSUME LFAfterCR, TextsSaid PROVE Spec => []TimelyIsHeard
<1> DEFINE Inv == OrderInv /\ \E talk \in Tales : SaidInv(talk) /\ TimelyInv(talk)
<1>1. Init => Inv
  <2> SUFFICES ASSUME Init PROVE Inv
    OBVIOUS
  <2>1. OrderInv
    BY InitRead, InitOrder DEF OrderInv
  <2>2. PICK talk \in Tales : Rightful(talk)
    <3> DEFINE w == [i \in DOMAIN Act |-> IF IsCommand(i) THEN CHOOSE t \in Act[i].talks : TRUE ELSE <<>>]
    <3>1. ASSUME NEW i \in DOMAIN Act, IsCommand(i)
          PROVE  (CHOOSE t \in Act[i].talks : TRUE) \in Act[i].talks
      <4>1. Act[i].talks # {}
        BY <3>1, ConsoleAssumption DEF IsCommand
      <4> QED BY <4>1
    <3>2. w \in Tales
      <4>1. ASSUME NEW i \in DOMAIN Act PROVE w[i] \in Seq(Chars)
        BY <3>1, CallIs, EmptySeq
      <4> QED BY <4>1 DEF Tales
    <3> QED BY <3>1, <3>2 DEF Rightful
  <2>3. /\ line = <<>> /\ toBoard = <<>> /\ resp = NoByte /\ pc = "call" /\ k = 1 /\ failed = FALSE
    BY DEF Init
  <2>4. SaidInv(talk)
    BY <2>3, EmptySeq DEF SaidInv, Spoken, Whole, Placed, Asked
  <2>5. TimelyInv(talk)
    <3>1. Newest = 0 /\ 1 .. Newest = {} /\ 1 .. k - 1 = {}
      BY <2>3 DEF Newest
    <3> QED BY <2>2, <2>3, <3>1 DEF TimelyInv, Punctual
  <2> QED BY <2>1, <2>4, <2>5
<1>2. Inv /\ [Next]_vars => Inv'
  <2> SUFFICES ASSUME OrderInv, NEW talk \in Tales, SaidInv(talk), TimelyInv(talk), [Next]_vars PROVE Inv'
    OBVIOUS
  <2>1. OrderInv'
    BY LFAfterCR, NextOrder
  <2>2. CASE Answer
    <3>1. PICK h \in DOMAIN Act : \E t \in Act[h].talks : Answered(h, t)
      BY <2>2, AnswerFacts DEF SaidInv
    <3>2. PICK t \in Act[h].talks : Answered(h, t)
      BY <3>1
    <3>3. PICK new \in Tales : new[h] = t /\ \A i \in DOMAIN Act \ {h} : new[i] = talk[i]
      <4> DEFINE w == [talk EXCEPT ![h] = t]
      <4>1. w \in Tales /\ w[h] = t /\ \A i \in DOMAIN Act \ {h} : w[i] = talk[i]
        BY <3>2 DEF Tales, Answered
      <4> QED BY <4>1
    <3>4. SaidInv(new)' /\ TimelyInv(new)'
      BY <2>2, <3>2, <3>3, TextsSaid, SaidAnswer, TimelyAnswer
    <3> QED BY <2>1, <3>4
  <2>3. CASE ~Answer
    <3>1. SaidInv(talk)' /\ TimelyInv(talk)'
      BY <2>3, TextsSaid, SaidKept, TimelyKept
    <3> QED BY <2>1, <3>1
  <2> QED BY <2>2, <2>3
<1>3. Inv => TimelyIsHeard
  <2> SUFFICES ASSUME NEW talk \in Tales, TimelyInv(talk), timely
               PROVE  ~failed /\ (pc = "done" => \A i \in DOMAIN Act : Act[i].kind \in {"cmd", "until"} => heard[i] # 0)
    BY DEF TimelyIsHeard
  <2> QED BY CallIs DEF TimelyInv, Punctual
<1> QED BY <1>1, <1>2, <1>3, PTL DEF Spec
=============================================================================
