------------------------------- MODULE MCConsole -------------------------------
(***************************************************************************)
(* An instance of Console: two commands, then a kernel is started, as      *)
(* UploadKernelOverUart and UploadKernelEnd do it.                         *)
(***************************************************************************)
EXTENDS Console, SequencesExt

Prompt == <<"p", "q">>

\* An echo and the prompt; a long line before it; the prompt's text in a line.
Replies == {<<"x", "CR", "LF", "p", "q">>,
            <<"x", "x", "x", "x", "x", "CR", "LF", "p", "q">>,
            <<"x", "p", "q", "CR", "LF", "p", "q">>}

\* What a kernel says, with many lines after the awaited one, or with one.
Boots == {<<"x", "CR", "LF", "x", "f", "CR", "LF", "x", "CR", "LF">>,
          <<"x", "CR", "LF", "f", "LF", "CR">>}

MCAct == <<[kind |-> "cmd",   text |-> Prompt,  anywhere |-> FALSE, count |-> 0, talks |-> Replies],
           [kind |-> "cmd",   text |-> Prompt,  anywhere |-> FALSE, count |-> 0, talks |-> Replies],
           [kind |-> "send",  text |-> <<>>,    anywhere |-> FALSE, count |-> 0, talks |-> Boots],
           [kind |-> "skip",  text |-> <<>>,    anywhere |-> FALSE, count |-> 1, talks |-> {}],
           [kind |-> "until", text |-> <<"f">>, anywhere |-> TRUE,  count |-> 0, talks |-> {}],
           [kind |-> "skip",  text |-> <<>>,    anywhere |-> FALSE, count |-> 2, talks |-> {}],
           [kind |-> "cmd",   text |-> Prompt,  anywhere |-> TRUE,  count |-> 0,
            talks |-> {<<"CR", "LF", "x", "p", "q">>}]>>

\* What the theorems of ConsoleProofs assume of the board's answers.
ASSUME MCAnswers == LFAfterCR /\ AnswersDiffer

\* How far the calls read talk t of command j, a witness of TextsSaid.
MCPlaces(j, t) ==
  LET next(place, i) ==
        Append(place, IF ~Reading(i, j) THEN 0
                      ELSE CHOOSE b \in 0 .. Len(t) : Reads(i, t, IF i = j THEN 0 ELSE Last(place), b))
  IN  FoldLeft(next, <<>>, [i \in DOMAIN Act |-> i])

\* The texts that MCAct awaits are said: TextsSaid, with that witness.
ASSUME MCTexts ==
  /\ \A i \in DOMAIN Act : Act[i].kind = "until" => \E j \in 1 .. i : IsCommand(j)
  /\ \A j \in DOMAIN Act : IsCommand(j) => \A t \in Act[j].talks : Reaches(j, t, MCPlaces(j, t))
================================================================================
