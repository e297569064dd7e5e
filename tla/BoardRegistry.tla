--------------------------- MODULE BoardRegistry ---------------------------
(***************************************************************************)
(* What RegisterBoard and SysState of regiloader.cpp promise whoever reads *)
(* the board-<stand>.<batch>.<device>.json files: numbers are given out in *)
(* order, batch by batch, each of them once, whatever happens to the       *)
(* program between two boards.  When a board is given its number, and what *)
(* was done to it before, is left to module Provision.                     *)
(***************************************************************************)
EXTENDS Naturals

CONSTANTS Boards,    \* the boards that pass through the stand
          Capacity   \* numbers of a batch are below this one (256 in the code)

VARIABLES next,      \* the number the next board gets: [batch, device]
          issued     \* the numbers given out, with the board: [board, number]

Number == [batch : Nat, device : 1 .. Capacity - 1]

\* The number after n: device++ and CheckBatchCapacity.
Succ(n) == IF n.device + 1 < Capacity
             THEN [batch |-> n.batch, device |-> n.device + 1]
             ELSE [batch |-> n.batch + 1, device |-> 1]

\* Number m was given out before number n.
Below(m, n) == \/ m.batch < n.batch
               \/ m.batch = n.batch /\ m.device < n.device

Init == next \in Number /\ issued = {}

Register(b) == /\ issued' = issued \cup {[board |-> b, number |-> next]}
               /\ next' = Succ(next)

Next == \E b \in Boards : Register(b)

Spec == Init /\ [][Next]_<<next, issued>>

\* Two boards never get the same number.
NumbersAreUnique ==
  \A r, s \in issued : r.number = s.number => r.board = s.board
=============================================================================
