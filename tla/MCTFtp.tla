------------------------------- MODULE MCTFtp -------------------------------
(***************************************************************************)
(* Small instances of TFtp: two files, of three blocks and of one, with    *)
(* block ids that wrap within the longer one; and, for every fault at      *)
(* once, one file of two blocks and a name that is asked for without being *)
(* published.                                                              *)
(***************************************************************************)
EXTENDS TFtp, TLC

MCNames   == {"kernel", "tools"}
MCBlocks2 == ("kernel" :> 3) @@ ("tools" :> 1)

MCKernel  == {"kernel"}
MCWanted  == {"kernel", "absent"}
MCBlocks1 == ("kernel" :> 2) @@ ("absent" :> 1)

NoFaults    == {}
Retransmits == {"retransmit"}
=============================================================================
