---------------------------- MODULE FileTransfer ----------------------------
(***************************************************************************)
(* What TFtp::Server::Run (src/src/utils/regiloader/tftp.cpp) promises its *)
(* callers UploadKernelOverEth and DownloadFromTFtp: in each call one      *)
(* client asks for one file, the file's blocks reach it once each and in   *)
(* order, and the call answers "true" only when the client holds the whole *)
(* file.  How blocks are numbered, acknowledged and repeated, and how the  *)
(* event loop of the server works, is left to module TFtp.                 *)
(***************************************************************************)
EXTENDS Naturals, Sequences

CONSTANTS Requests,   \* the names a client may ask for
          Blocks,     \* the number of data blocks of each file
          MaxRounds   \* how many calls of Run a behaviour may hold

VARIABLES round,   \* number of the current call, 0 before the first
          request, \* the file asked for in this call
          client,  \* "off", "waiting", "done" or "failed"
          got,     \* the blocks the client has stored in this call
          result   \* "none" while the call is open, then "true" or "false"

vars == <<round, request, client, got, result>>

Init == /\ round = 0
        /\ request \in Requests
        /\ client = "off"
        /\ got = <<>>
        /\ result = "none"

\* A call of Run begins, once the client of the call before it has ended.
Start == /\ round < MaxRounds
         /\ round = 0 \/ result # "none"
         /\ client # "waiting"
         /\ round' = round + 1
         /\ request' \in Requests
         /\ client' = "waiting"
         /\ got' = <<>>
         /\ result' = "none"

\* The client stores the next block of the file, and is done at the last.
Deliver == /\ client = "waiting"
           /\ Len(got) < Blocks[request]
           /\ got' = Append(got, Len(got) + 1)
           /\ client' = IF Len(got) + 1 = Blocks[request]
                          THEN "done" ELSE "waiting"
           /\ UNCHANGED <<round, request, result>>

\* The client gives up.
Abort == /\ client = "waiting"
         /\ client' = "failed"
         /\ UNCHANGED <<round, request, got, result>>

\* The call answers; only a complete transfer is reported as a success.
Report == /\ round > 0
          /\ result = "none"
          /\ \/ client = "done" /\ result' = "true"
             \/ result' = "false"
          /\ UNCHANGED <<round, request, client, got>>

Next == Start \/ Deliver \/ Abort \/ Report

Spec == Init /\ [][Next]_vars
=============================================================================
