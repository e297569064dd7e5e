----------------------------- MODULE UBootConf -----------------------------
(***************************************************************************)
(* uboot_conf (src/src/utils/regisetup/uboot_conf/uboot_conf.cpp): the     *)
(* environment of U-Boot in NOR flash is read to a text, where given       *)
(* values replace the ones it has, and the text is written back.           *)
(*                                                                         *)
(* An environment is the sequence of its rows "key=value"; size says       *)
(* whether a row fits the buffer of TextToBin (kMaxRowLen), is longer, or  *)
(* was cut.  What is written always has a good checksum.                   *)
(***************************************************************************)
EXTENDS Naturals, Sequences

\* ApplyFilter: a row whose key is given gets the given value.  A key that has
\* no row gets none.
ApplyFilter(row, given) ==
  IF row.key \in DOMAIN given
    THEN [row EXCEPT !.value = given[row.key], !.size = "fits"] ELSE row

\* BinToText: all rows up to the two zeros that end them; the checksum before
\* them is skipped, not compared.
BinToText(conf, given) == [i \in DOMAIN conf |-> ApplyFilter(conf[i], given)]

\* TextToBin: getline stops at the first row that is too long, after filling
\* its buffer with it; the rows that follow are dropped.
RowsRead(text) ==
  {i \in DOMAIN text : \A k \in 1 .. i - 1 : text[k].size # "long"}

TextToBin(text) ==
  [i \in RowsRead(text) |->
     [text[i] EXCEPT !.size = IF @ = "long" THEN "cut" ELSE @]]

\* The two calls that RegisterBoard and UploadAndInstallUBoot make: from flash
\* to text with the given values (--do=r), and back (--do=w).
Updated(conf, given) == TextToBin(BinToText(conf, given))
=============================================================================
