-------------------------- MODULE ProvisionProofs --------------------------
(***************************************************************************)
(* Proofs about regiloader's recipes, for every set of recipes, number of  *)
(* boards and restarts, and whatever times out, is refused or interrupted. *)
(*                                                                         *)
(* 1. The state file.  Provision implements BoardRegistry, and no two      *)
(*    boards are counted under one number.  Uniqueness is not inductive:   *)
(*    nothing in it says that the number to come is a new one.  StoreInv   *)
(*    adds why it is: all numbers counted so far are below the file's, and *)
(*    while the program runs, the number it holds is the file's.           *)
(* 2. What uboot_conf writes to a board's flash.                           *)
(* 3. Types: the program stays within its recipe and each act within its   *)
(*    script.  The scripts are concatenations; they are written out first, *)
(*    and Places tells where each step is that matters.                    *)
(* 4. Where a step leads: it stays in its act, ends it or the recipe.      *)
(* 5. A board is registered under the number of its own MAC address.       *)
(* 6. While nothing has timed out, all acts so far were done in full, or   *)
(*    the welcome of this board was missed and the recipe will fail.       *)
(* 7. What is in the flash of a board whose recipe is executed.  With 6,   *)
(*    a recipe that is reported as finished was executed in full.          *)
(* 8. The stage of a board in a recipe whose acts are in order, and where  *)
(*    each step of an act leads it (Within).  ResetInv: a finished recipe  *)
(*    leaves no welcome behind.  FineInv: a board that was never late and  *)
(*    refused nothing is where its recipe expects it, so that what fails   *)
(*    first fails by the board's own doing.                                *)
(***************************************************************************)
EXTENDS Provision, SequenceTheorems, NaturalsInduction, WellFoundedInduction, TLAPS

\* The program's number is the one in the file while it runs.
NumberSaved == mode # "off" => number = file

\* A board is at the stand while the program runs.
BoardPresent == /\ board \in Nat
                /\ mode # "off" => board \in 1 .. MaxBoards

\* The file's number was not given out yet.
CountedBelow == \A r \in counted : r.number \in Registry!Number /\ Registry!Below(r.number, file)

StoreInv ==
  /\ number \in Registry!Number /\ file \in Registry!Number
  /\ NumberSaved /\ BoardPresent /\ CountedBelow /\ NumbersAreUnique

\* CheckBatchCapacity makes a number of a number, a higher one.
LEMMA SuccAbove ==
  ASSUME NEW n \in Registry!Number
  PROVE  Registry!Succ(n) \in Registry!Number /\ Registry!Below(n, Registry!Succ(n))
  BY ProvisionAssumption DEF Registry!Number, Registry!Succ, Registry!Below

\* What is below n is below all that n is below, and nothing is below itself.
LEMMA BelowOrders ==
  ASSUME NEW m \in Registry!Number, NEW n \in Registry!Number, NEW k \in Registry!Number,
         Registry!Below(m, n), Registry!Below(n, k)
  PROVE  Registry!Below(m, k) /\ m # n
  BY DEF Registry!Number, Registry!Below

\* The steps at the board, except the one that counts it, leave the state file
\* and the board at the stand alone.
LEMMA WorkKeepsStore ==
  ASSUME Work, ~Count
  PROVE  mode # "off" /\ UNCHANGED <<number, file, counted, board>>
<1>1. CASE Sdp \/ WelcomeSkipped \/ WelcomeMissed \/ WelcomeHeard \/ UBoot \/ Save \/ Reload
  BY <1>1 DEF Sdp, WelcomeSkipped, WelcomeMissed, WelcomeHeard, UBoot, Save, Reload, On, store
<1>2. CASE Nand \/ Conf \/ LoadY \/ Dhcp \/ Boot
  BY <1>2 DEF Nand, Conf, LoadY, Dhcp, Boot, On, store
<1>3. CASE Shell \/ SetupNet \/ (\E f \in Downloads : Get(f)) \/ Parts \/ Find \/ MkFs
  BY <1>3 DEF Shell, SetupNet, Get, Parts, Find, MkFs, On, store
<1>4. CASE MkVol \/ HwAddr \/ Panel \/ Switch \/ Reboot \/ Login \/ WriteId \/ NewPassword
  BY <1>4 DEF MkVol, HwAddr, Panel, Switch, Reboot, Login, WriteId, NewPassword, On, store
<1>5. CASE WriteJson \/ Validate \/ Test \/ Nothing
  BY <1>5 DEF WriteJson, Validate, Test, Nothing, On, store
<1> QED BY <1>1, <1>2, <1>3, <1>4, <1>5 DEF Work

\* No board is stored at the beginning.
LEMMA InitStore == Init => StoreInv
<1> SUFFICES ASSUME Init PROVE StoreInv
  OBVIOUS
<1>1. file \in Registry!Number /\ number = file
  BY ProvisionAssumption DEF Init, Registry!Number
<1>2. mode = "off" /\ board = 0 /\ counted = {}
  BY DEF Init
<1> QED
  BY <1>1, <1>2 DEF StoreInv, NumberSaved, BoardPresent, CountedBelow, NumbersAreUnique

\* Every act of a recipe keeps what was stored.
LEMMA NextStore == StoreInv /\ [Next]_vars => StoreInv'
<1> SUFFICES ASSUME StoreInv, [Next]_vars PROVE StoreInv'
  OBVIOUS
<1> USE DEF StoreInv
<1>1. CASE Count
  <2>1. /\ mode = "act" /\ number = file /\ board \in 1 .. MaxBoards
    BY <1>1 DEF Count, On, NumberSaved, BoardPresent
  <2>2. /\ counted' = counted \cup {[board |-> board, number |-> number]}
        /\ number' = Registry!Succ(number) /\ file' = number' /\ board' = board
    BY <1>1 DEF Count
  <2>3. number' \in Registry!Number /\ Registry!Below(number, file')
    BY <2>2, SuccAbove
  <2>4. CountedBelow'
    <3> SUFFICES ASSUME NEW r \in counted'
                 PROVE  r.number \in Registry!Number /\ Registry!Below(r.number, file')
      BY DEF CountedBelow
    <3>1. CASE r \in counted
      <4>1. r.number \in Registry!Number /\ Registry!Below(r.number, number)
        BY <3>1, <2>1 DEF CountedBelow
      <4> QED BY <4>1, <2>2, <2>3, BelowOrders
    <3>2. CASE r = [board |-> board, number |-> number]
      BY <3>2, <2>3
    <3> QED BY <3>1, <3>2, <2>2
  <2>5. NumbersAreUnique'
    <3>1. \A r \in counted : r.number # number
      <4> SUFFICES ASSUME NEW r \in counted PROVE r.number # number
        OBVIOUS
      <4>1. r.number \in Registry!Number /\ Registry!Below(r.number, number)
        BY <2>1 DEF CountedBelow
      <4> QED BY <4>1, <2>2, <2>3, BelowOrders
    <3> QED BY <3>1, <2>2 DEF NumbersAreUnique
  <2> QED BY <2>1, <2>2, <2>3, <2>4, <2>5 DEF NumberSaved, BoardPresent
<1>2. CASE Work /\ ~Count
  <2>1. mode # "off" /\ UNCHANGED <<number, file, counted, board>>
    BY <1>2, WorkKeepsStore
  <2> QED BY <2>1 DEF NumberSaved, BoardPresent, CountedBelow, NumbersAreUnique
<1>3. CASE Start
  <2>1. /\ number' = file /\ UNCHANGED <<file, counted>> /\ board' \in 1 .. MaxBoards
    BY <1>3 DEF Start, PutBoard, Candidates
  <2> QED BY <2>1, ProvisionAssumption DEF NumberSaved, BoardPresent, CountedBelow, NumbersAreUnique
<1>4. CASE NextBoard
  <2>1. /\ mode # "off" /\ UNCHANGED <<number, file, counted>> /\ board' \in 1 .. MaxBoards
    BY <1>4 DEF NextBoard, PutBoard, Candidates, store
  <2> QED BY <2>1, ProvisionAssumption DEF NumberSaved, BoardPresent, CountedBelow, NumbersAreUnique
<1>5. CASE PowerCycle \/ Stop \/ UNCHANGED vars
  <2>1. /\ UNCHANGED <<number, file, counted, board>>
        /\ mode' # "off" => mode # "off"
    BY <1>5 DEF PowerCycle, Stop, vars, place, store
  <2> QED BY <2>1 DEF NumberSaved, BoardPresent, CountedBelow, NumbersAreUnique
<1> QED BY <1>1, <1>2, <1>3, <1>4, <1>5 DEF Next

\* The inductive invariant of the state file holds in every run of regiloader.
THEOREM StoreInvariant == Spec => []StoreInv
  BY InitStore, NextStore, PTL DEF Spec

\* SysState and RegisterBoard: two boards are never counted under one number,
\* however often the program is interrupted and started again.
THEOREM UniqueNumbers == Spec => []NumbersAreUnique
<1>1. StoreInv => NumbersAreUnique
  BY DEF StoreInv
<1> QED BY <1>1, StoreInvariant, PTL

\* Each step of regiloader registers one board under the number that is next,
\* or changes nothing that BoardRegistry speaks of.
LEMMA StepOfRegistry ==
  StoreInv /\ [Next]_vars => [Registry!Next]_<<file, counted>>
<1> SUFFICES ASSUME StoreInv, [Next]_vars, ~UNCHANGED <<file, counted>>
             PROVE  Registry!Next
  OBVIOUS
<1>1. Count
  <2>1. ~(Work /\ ~Count)
    BY WorkKeepsStore
  <2>2. ~Start /\ ~NextBoard /\ ~PowerCycle /\ ~Stop /\ ~UNCHANGED vars
    BY DEF Start, NextBoard, PowerCycle, Stop, vars, store
  <2> QED BY <2>1, <2>2 DEF Next
<1>2. /\ number = file /\ board \in 1 .. MaxBoards
  BY <1>1 DEF StoreInv, NumberSaved, BoardPresent, Count, On
<1>3. Registry!Register(board)
  BY <1>1, <1>2 DEF Count, Registry!Register
<1> QED BY <1>2, <1>3 DEF Registry!Next

\* regiloader implements BoardRegistry: numbers are given out in order, each
\* once, by all that RegisterBoard and SysState do to the state file.
THEOREM ImplementsRegistry == Spec => RegistryKept
<1>1. Init => Registry!Init
  BY ProvisionAssumption DEF Init, Registry!Init, Registry!Number
<1> QED
  BY <1>1, StoreInvariant, StepOfRegistry, PTL DEF Spec, RegistryKept, Registry!Spec

-----------------------------------------------------------------------------
(* What a board's flash says after uboot_conf has updated it *)

\* A row of an environment of any keys and values.
IsRow(row) == row = [key |-> row.key, value |-> row.value, size |-> row.size]

\* ApplyFilter replaces what is given, and keeps the key.
LEMMA FilterRow ==
  ASSUME NEW row, NEW given, IsRow(row)
  PROVE  /\ IsRow(ApplyFilter(row, given)) /\ ApplyFilter(row, given).key = row.key
         /\ row.key \in DOMAIN given => ApplyFilter(row, given).value = given[row.key]
         /\ row.key \notin DOMAIN given => ApplyFilter(row, given) = row
  BY DEF ApplyFilter, IsRow

\* TextToBin writes a text without long rows as it is.
LEMMA ShortTextKept ==
  ASSUME NEW text, NEW n \in Nat, text = [i \in 1 .. n |-> text[i]],
         \A i \in 1 .. n : IsRow(text[i]) /\ text[i].size # "long"
  PROVE  TextToBin(text) = text
<1>1. RowsRead(text) = 1 .. n
  BY DEF RowsRead
<1>2. \A i \in 1 .. n : [text[i] EXCEPT !.size = IF @ = "long" THEN "cut" ELSE @] = text[i]
  BY DEF IsRow
<1> QED BY <1>1, <1>2 DEF TextToBin

\* RegisterBoard and UploadAndInstallUBoot: in an environment without long rows
\* each row whose key is given has the given value, and no other row changes.
THEOREM UpdateIsExact ==
  ASSUME NEW conf, NEW given, NEW n \in Nat, conf = [i \in 1 .. n |-> conf[i]],
         \A i \in 1 .. n : IsRow(conf[i]) /\ conf[i].size # "long"
  PROVE  /\ DOMAIN Updated(conf, given) = 1 .. n
         /\ \A i \in 1 .. n :
              LET new == Updated(conf, given)[i]
              IN  /\ new.key = conf[i].key
                  /\ conf[i].key \in DOMAIN given => new.value = given[conf[i].key]
                  /\ conf[i].key \notin DOMAIN given => new = conf[i]
<1> DEFINE text == BinToText(conf, given)
<1>1. text = [i \in 1 .. n |-> ApplyFilter(conf[i], given)]
  BY DEF BinToText
<1>2. \A i \in 1 .. n : IsRow(text[i]) /\ text[i].size # "long"
  <2> SUFFICES ASSUME NEW i \in 1 .. n PROVE IsRow(text[i]) /\ text[i].size # "long"
    OBVIOUS
  <2>1. IsRow(text[i])
    BY <1>1, FilterRow
  <2>2. ApplyFilter(conf[i], given).size # "long"
    BY DEF ApplyFilter, IsRow
  <2> QED BY <2>1, <2>2, <1>1
<1>3. Updated(conf, given) = text
  BY <1>1, <1>2, ShortTextKept DEF Updated
<1>4. \A i \in 1 .. n : Updated(conf, given)[i] = ApplyFilter(conf[i], given)
  BY <1>1, <1>3
<1>5. DOMAIN Updated(conf, given) = 1 .. n
  BY <1>1, <1>3
<1>6. \A i \in 1 .. n :
        /\ ApplyFilter(conf[i], given).key = conf[i].key
        /\ conf[i].key \in DOMAIN given =>
             ApplyFilter(conf[i], given).value = given[conf[i].key]
        /\ conf[i].key \notin DOMAIN given => ApplyFilter(conf[i], given) = conf[i]
  BY FilterRow
<1> HIDE DEF text
<1> QED BY <1>4, <1>5, <1>6

\* TextToBin: whatever follows a row that is too long is lost, although the
\* checksum of what is written is good.
THEOREM RowsAfterLongAreLost ==
  ASSUME NEW text, NEW n \in Nat, DOMAIN text = 1 .. n,
         NEW k \in 1 .. n, text[k].size = "long"
  PROVE  DOMAIN TextToBin(text) \subseteq 1 .. k
  BY DEF TextToBin, RowsRead

-----------------------------------------------------------------------------
(* The scripts of the acts, written out *)

Steps == {"sdp", "welcome", "uboot", "save", "conf", "loady", "dhcp", "boot", "shell",
          "nand", "modules", "rootfs.tar", "tools", "image", "parts", "find",
          "bootloader", "panel", "mkfs", "mkvol", "hwaddr", "root", "packet", "license",
          "switch", "firmware", "reboot", "id", "new", "retype", "json", "count",
          "validate", "test", "nothing"}

\* The steps u are those of s and then those of t.
Fits(s, t, u) ==
  /\ s \in Seq(Steps) /\ t \in Seq(Steps) /\ u \in Seq(Steps)
  /\ Len(u) = Len(s) + Len(t)
  /\ \A i \in 1 .. Len(s) : u[i] = s[i]
  /\ \A i \in 1 .. Len(t) : u[Len(s) + i] = t[i]

\* A concatenation is known by its elements.
LEMMA Joined == ASSUME NEW s, NEW t, NEW u, Fits(s, t, u) PROVE s \o t = u
<1> DEFINE w == s \o t
<1> USE DEF Fits
<1>1. /\ w \in Seq(Steps) /\ Len(w) = Len(s) + Len(t)
      /\ \A i \in 1 .. Len(s) + Len(t) : w[i] = IF i <= Len(s) THEN s[i] ELSE t[i - Len(s)]
  BY ConcatProperties
<1> HIDE DEF w
<1>2. ASSUME NEW i \in 1 .. Len(w) PROVE w[i] = u[i]
  <2>1. CASE i <= Len(s)
    BY <1>1, <2>1
  <2>2. CASE i > Len(s)
    <3>1. i - Len(s) \in 1 .. Len(t) /\ Len(s) + (i - Len(s)) = i
      BY <1>1, <2>2
    <3> QED BY <1>1, <2>2, <3>1, SMTT(30)
  <2> QED BY <1>1, <2>1, <2>2
<1>3. w = u
  BY <1>1, <1>2, SeqEqual
<1> QED BY <1>3 DEF w

\* UploadKernelOverUart and UploadKernelOverEth, and what is built of the latter.
LEMMA KernelScripts ==
  /\ UploadKernelOverUart = <<"welcome", "conf", "loady", "boot", "shell">>
  /\ UploadKernelOverEth = <<"welcome", "conf", "dhcp", "boot", "shell">>
  /\ UploadKernelWithOldSys = <<"welcome", "nand", "welcome", "conf", "dhcp", "boot", "shell">>
  /\ UploadKernelAndDebug = <<"welcome", "uboot", "welcome", "conf", "dhcp", "boot", "shell",
                              "modules", "shell">>
<1>1. UploadKernelOverUart = <<"welcome", "conf", "loady", "boot", "shell">>
  <2>1. Fits(<<"welcome", "conf">>, <<"loady">>, <<"welcome", "conf", "loady">>)
    BY DEF Fits, Steps
  <2>2. Fits(<<"welcome", "conf", "loady">>, <<"boot", "shell">>,
             <<"welcome", "conf", "loady", "boot", "shell">>)
    BY DEF Fits, Steps
  <2> QED BY <2>1, <2>2, Joined DEF UploadKernelOverUart, UploadKernelBegin, UploadKernelEnd
<1>2. UploadKernelOverEth = <<"welcome", "conf", "dhcp", "boot", "shell">>
  <2>1. Fits(<<"welcome", "conf">>, <<"dhcp">>, <<"welcome", "conf", "dhcp">>)
    BY DEF Fits, Steps
  <2>2. Fits(<<"welcome", "conf", "dhcp">>, <<"boot", "shell">>,
             <<"welcome", "conf", "dhcp", "boot", "shell">>)
    BY DEF Fits, Steps
  <2> QED BY <2>1, <2>2, Joined DEF UploadKernelOverEth, UploadKernelBegin, UploadKernelEnd
<1>3. UploadKernelWithOldSys = <<"welcome", "nand", "welcome", "conf", "dhcp", "boot", "shell">>
  <2>1. Fits(<<"welcome", "nand">>, <<"welcome", "conf", "dhcp", "boot", "shell">>,
             <<"welcome", "nand", "welcome", "conf", "dhcp", "boot", "shell">>)
    BY DEF Fits, Steps
  <2> QED BY <2>1, <1>2, Joined DEF UploadKernelWithOldSys
<1>4. UploadKernelAndDebug = <<"welcome", "uboot", "welcome", "conf", "dhcp", "boot", "shell",
                               "modules", "shell">>
  <2>1. Fits(<<"welcome", "uboot">>, <<"welcome", "conf", "dhcp", "boot", "shell">>,
             <<"welcome", "uboot", "welcome", "conf", "dhcp", "boot", "shell">>)
    BY DEF Fits, Steps
  <2>2. Fits(<<"welcome", "uboot", "welcome", "conf", "dhcp", "boot", "shell">>,
             <<"modules", "shell">>,
             <<"welcome", "uboot", "welcome", "conf", "dhcp", "boot", "shell", "modules",
               "shell">>)
    BY DEF Fits, Steps
  <2> QED BY <2>1, <2>2, <1>2, Joined DEF UploadKernelAndDebug, UploadKernelModulesAndInstall
<1> QED BY <1>1, <1>2, <1>3, <1>4

\* The functions that run in Linux.
LEMMA LinuxScripts ==
  /\ UploadAndInstallKernel = <<"image", "parts", "find", "shell", "modules", "shell">>
  /\ UnpackRootFs = <<"parts", "shell", "mkfs", "mkvol", "shell", "mkfs", "mkvol", "shell",
                      "hwaddr">>
  /\ UploadAndInstallRegigraf = <<"shell", "switch", "root", "shell", "packet", "shell",
                                  "shell", "license">>
  /\ UploadAndInstallFirmware = <<"firmware", "shell", "shell">>
  /\ RegisterBoard = <<"root", "id", "new", "retype", "shell", "json", "count">>
<1>1. UploadAndInstallKernel = <<"image", "parts", "find", "shell", "modules", "shell">>
  <2>1. Fits(<<"image", "parts", "find", "shell">>, <<"modules", "shell">>,
             <<"image", "parts", "find", "shell", "modules", "shell">>)
    BY DEF Fits, Steps
  <2> QED BY <2>1, Joined DEF UploadAndInstallKernel, UploadKernelModulesAndInstall
<1>2. UnpackRootFs = <<"parts", "shell", "mkfs", "mkvol", "shell", "mkfs", "mkvol", "shell",
                       "hwaddr">>
  <2>1. Fits(<<"parts", "shell">>, <<"mkfs", "mkvol">>, <<"parts", "shell", "mkfs", "mkvol">>)
    BY DEF Fits, Steps
  <2>2. Fits(<<"parts", "shell", "mkfs", "mkvol">>, <<"shell">>,
             <<"parts", "shell", "mkfs", "mkvol", "shell">>)
    BY DEF Fits, Steps
  <2>3. Fits(<<"parts", "shell", "mkfs", "mkvol", "shell">>, <<"mkfs", "mkvol">>,
             <<"parts", "shell", "mkfs", "mkvol", "shell", "mkfs", "mkvol">>)
    BY DEF Fits, Steps
  <2>4. Fits(<<"parts", "shell", "mkfs", "mkvol", "shell", "mkfs", "mkvol">>,
             <<"shell", "hwaddr">>,
             <<"parts", "shell", "mkfs", "mkvol", "shell", "mkfs", "mkvol", "shell", "hwaddr">>)
    BY DEF Fits, Steps
  <2>5. /\ <<"parts", "shell">> \o <<"mkfs", "mkvol">> \o <<"shell">>
              = <<"parts", "shell", "mkfs", "mkvol", "shell">>
        /\ <<"parts", "shell", "mkfs", "mkvol", "shell">> \o <<"mkfs", "mkvol">>
              \o <<"shell", "hwaddr">>
              = <<"parts", "shell", "mkfs", "mkvol", "shell", "mkfs", "mkvol", "shell",
                  "hwaddr">>
    BY <2>1, <2>2, <2>3, <2>4, Joined
  <2> QED BY <2>5 DEF UnpackRootFs, MkUbiFsPartition
<1>3. UploadAndInstallRegigraf = <<"shell", "switch", "root", "shell", "packet", "shell",
                                   "shell", "license">>
  <2>1. Fits(<<"shell", "switch">>, <<"root">>, <<"shell", "switch", "root">>)
    BY DEF Fits, Steps
  <2>2. Fits(<<"shell", "switch", "root">>, <<"shell">>, <<"shell", "switch", "root", "shell">>)
    BY DEF Fits, Steps
  <2>3. Fits(<<"shell", "switch", "root", "shell">>, <<"packet", "shell">>,
             <<"shell", "switch", "root", "shell", "packet", "shell">>)
    BY DEF Fits, Steps
  <2>4. Fits(<<"shell", "switch", "root", "shell", "packet", "shell">>, <<"shell">>,
             <<"shell", "switch", "root", "shell", "packet", "shell", "shell">>)
    BY DEF Fits, Steps
  <2>5. Fits(<<"shell", "switch", "root", "shell", "packet", "shell", "shell">>, <<"license">>,
             <<"shell", "switch", "root", "shell", "packet", "shell", "shell", "license">>)
    BY DEF Fits, Steps
  <2>6. /\ <<"shell", "switch">> \o <<"root">> \o <<"shell">>
              = <<"shell", "switch", "root", "shell">>
        /\ <<"shell", "switch", "root", "shell">> \o <<"packet", "shell">> \o <<"shell">>
              = <<"shell", "switch", "root", "shell", "packet", "shell", "shell">>
    BY <2>1, <2>2, <2>3, <2>4, Joined, ZenonT(60)
  <2>7. <<"shell", "switch", "root", "shell", "packet", "shell", "shell">> \o <<"license">>
          = <<"shell", "switch", "root", "shell", "packet", "shell", "shell", "license">>
    BY <2>5, Joined
  <2> QED BY <2>6, <2>7
          DEF UploadAndInstallRegigraf, LoginToRegiboard, UploadAndInstallPacket,
              UpdateListOfPackets, SetupRegigrafLicense
<1>4. UploadAndInstallFirmware = <<"firmware", "shell", "shell">>
  <2>1. Fits(<<"firmware", "shell">>, <<"shell">>, <<"firmware", "shell", "shell">>)
    BY DEF Fits, Steps
  <2> QED BY <2>1, Joined DEF UploadAndInstallFirmware, UpdateListOfPackets
<1>5. RegisterBoard = <<"root", "id", "new", "retype", "shell", "json", "count">>
  <2>1. Fits(<<"root">>, <<"id", "new", "retype", "shell", "json", "count">>,
             <<"root", "id", "new", "retype", "shell", "json", "count">>)
    BY DEF Fits, Steps
  <2> QED BY <2>1, Joined DEF RegisterBoard, LoginToRegiboard
<1> QED BY <1>1, <1>2, <1>3, <1>4, <1>5

\* DoAction, act by act: kernels and U-Boot.
LEMMA UBootActs ==
  /\ Script["uboot"] = <<"sdp">>
  /\ Script["enter_uboot"] = <<"welcome">>
  /\ Script["setup_nor"] = <<"welcome", "uboot", "save">>
  /\ Script["kernel_uart"] = <<"welcome", "conf", "loady", "boot", "shell">>
  /\ Script["kernel_eth"] = <<"welcome", "conf", "dhcp", "boot", "shell">>
  /\ Script["kernel_dbg"] = <<"welcome", "uboot", "welcome", "conf", "dhcp", "boot", "shell",
                              "modules", "shell">>
  /\ Script["kernel_old_sys"] = <<"welcome", "nand", "welcome", "conf", "dhcp", "boot",
                                  "shell">>
  BY KernelScripts DEF Script, Acts, SetupNor

\* DoAction, act by act: Linux.
LEMMA LinuxActs ==
  /\ Script["rootfs"] = <<"rootfs.tar">>
  /\ Script["mtd_utils"] = <<"tools", "shell">>
  /\ Script["install_kernel"] = <<"image", "parts", "find", "shell", "modules", "shell">>
  /\ Script["install_uboot"] = <<"bootloader", "parts", "find", "shell", "panel">>
  /\ Script["install_regigraf"] = <<"shell", "switch", "root", "shell", "packet", "shell",
                                    "shell", "license">>
  /\ Script["install_firmware"] = <<"firmware", "shell", "shell">>
  /\ Script["unpack_rootfs"] = <<"parts", "shell", "mkfs", "mkvol", "shell", "mkfs", "mkvol",
                                 "shell", "hwaddr">>
  /\ Script["setup_booting"] = <<"shell", "reboot">>
  /\ Script["register"] = <<"root", "id", "new", "retype", "shell", "json", "count">>
  /\ Script["validate_hw"] = <<"validate">>
  /\ Script["test_hw"] = <<"test">>
  /\ Script["nothing"] = <<"nothing">>
  BY LinuxScripts DEF Script, Acts, UploadRootFsOverEth, UploadAndInstallTools,
                      UploadAndInstallUBoot, SetupBooting

\* What DoAction may execute.
AnyAct == Acts \cup {"nothing"}

\* Where the steps are that something happens at, and which follow them.
Placed(a, i) ==
  /\ Script[a][i] = "nothing" <=> a = "nothing"
  /\ Script[a][i] = "sdp" => a = "uboot"
  /\ Script[a][i] = "save" => a = "setup_nor" /\ i = 3
  /\ Script[a][i] = "hwaddr" => a = "unpack_rootfs" /\ i = 9
  /\ Script[a][i] = "panel" => a = "install_uboot" /\ i = 5
  /\ Script[a][i] = "id" => a = "register" /\ i = 2
  /\ Script[a][i] = "json" => a = "register" /\ i = 6
  /\ Script[a][i] = "count" => a = "register" /\ i = 7
  /\ Script[a][i] = "mkfs" => a = "unpack_rootfs" /\ i \in {3, 6}
  /\ Script[a][i] = "mkvol" => a = "unpack_rootfs" /\ i \in {4, 7}
  /\ Script[a][i] = "packet" => a = "install_regigraf" /\ i = 5
  /\ Script[a][i] = "root" => (a = "install_regigraf" /\ i = 3) \/ (a = "register" /\ i = 1)
  /\ Script[a][i] = "nand" => a = "kernel_old_sys" /\ i = 2
  /\ Script[a][i] = "uboot" => i = 2 /\ a \in {"setup_nor", "kernel_dbg"}
  /\ Script[a][i] = "welcome" => a \in {"enter_uboot", "setup_nor"} \cup Kernels
  /\ Script[a][i] \in {"conf", "loady", "dhcp", "boot"} => a \in Kernels
  /\ Script[a][i] = "dhcp" => i > 2

\* Each script, step by step.
LEMMA Places == \A a \in AnyAct : \A i \in 1 .. Len(Script[a]) : Placed(a, i)
<1> SUFFICES ASSUME NEW a \in AnyAct, NEW i \in 1 .. Len(Script[a]) PROVE Placed(a, i)
  OBVIOUS
<1>1. CASE a \in Kernels
  BY <1>1, UBootActs, SMTT(30) DEF Placed, Kernels
<1>2. CASE a \in {"uboot", "enter_uboot", "setup_nor"}
  BY <1>2, UBootActs DEF Placed, Kernels
<1>3. CASE a \in {"rootfs", "mtd_utils", "install_kernel", "install_uboot", "validate_hw"}
  BY <1>3, LinuxActs, SMTT(30) DEF Placed, Kernels
<1>4. CASE a \in {"install_firmware", "test_hw", "nothing", "setup_booting"}
  BY <1>4, LinuxActs, SMTT(30) DEF Placed, Kernels
<1>5. CASE a = "install_regigraf"
  <2>1. Script[a] = <<"shell", "switch", "root", "shell", "packet", "shell", "shell", "license">>
    BY <1>5, LinuxActs
  <2>2. i \in {1, 2} => Placed(a, i)
    BY <1>5, <2>1 DEF Placed, Kernels
  <2>3. i \in {3, 4} => Placed(a, i)
    BY <1>5, <2>1 DEF Placed, Kernels
  <2>4. i \in 5 .. 8 => Placed(a, i)
    BY <1>5, <2>1 DEF Placed, Kernels
  <2>5. i \in 1 .. 8
    BY <2>1
  <2> QED BY <2>2, <2>3, <2>4, <2>5
<1>6. CASE a = "unpack_rootfs"
  <2>1. Script[a] = <<"parts", "shell", "mkfs", "mkvol", "shell", "mkfs", "mkvol", "shell",
                      "hwaddr">>
    BY <1>6, LinuxActs
  <2>2. i \in 1 .. 9
    BY <2>1
  <2> QED BY <1>6, <2>1, <2>2 DEF Placed, Kernels
<1>7. CASE a = "register"
  <2>1. Script[a] = <<"root", "id", "new", "retype", "shell", "json", "count">>
    BY <1>7, LinuxActs
  <2>2. i \in 1 .. 7
    BY <2>1
  <2> QED BY <1>7, <2>1, <2>2 DEF Placed, Kernels
<1> QED BY <1>1, <1>2, <1>3, <1>4, <1>5, <1>6, <1>7 DEF AnyAct, Acts, Kernels

-----------------------------------------------------------------------------
(* Types *)

\* The program is at a step of an act of its recipe; the power cycle is setup_nor's.
PlaceType ==
  /\ job \in Jobs /\ at \in DOMAIN job.acts /\ step \in 1 .. Len(Script[Act])
  /\ mode \in {"off", "act", "enter", "reload", "asked"}
  /\ mode \in {"enter", "reload"} => Act = "setup_nor" /\ step = 3

\* How the act and the recipes went so far.
EndType == whole \in BOOLEAN /\ result \in {"none", "done", "failed"} /\ spoiled \in BOOLEAN

\* What went wrong so far.
FaultType == /\ late \in 0 .. MaxLate /\ refused \in 0 .. MaxRefused
             /\ complaints \in 0 .. MaxComplaints /\ faulty \in BOOLEAN

\* What is stored.
StoreType ==
  /\ board \in 0 .. MaxBoards /\ number \in Registry!Number /\ file \in Registry!Number
  /\ registered \subseteq [board : 0 .. MaxBoards, number : Registry!Number, hw : Numbers]
  /\ counted \subseteq [board : 0 .. MaxBoards, number : Registry!Number]
  /\ starts \in 0 .. MaxStarts

\* A set of some of the six cases has a first one.
LEMMA LeastOfSix == ASSUME NEW S, S \subseteq 1 .. 6, S # {} PROVE Min(S) \in S
<1>1. \E x \in S : \A y \in S : x <= y
  <2>1. CASE 1 \in S
    BY <2>1
  <2>2. CASE 1 \notin S /\ 2 \in S
    BY <2>2
  <2>3. CASE 1 \notin S /\ 2 \notin S /\ 3 \in S
    BY <2>3
  <2>4. CASE 1 \notin S /\ 2 \notin S /\ 3 \notin S
    <3>1. CASE 4 \in S
      BY <2>4, <3>1
    <3>2. CASE 4 \notin S /\ 5 \in S
      BY <2>4, <3>2
    <3>3. CASE 4 \notin S /\ 5 \notin S
      <4>1. \A y \in 1 .. 6 : y = 1 \/ y = 2 \/ y = 3 \/ y = 4 \/ y = 5 \/ y = 6
        OBVIOUS
      <4>2. \A y \in S : y = 6
        BY <2>4, <3>3, <4>1
      <4>3. PICK z : z \in S
        OBVIOUS
      <4>4. z = 6 /\ \A y \in S : z <= y
        BY <4>2, <4>3
      <4> QED BY <4>3, <4>4
    <3> QED BY <3>1, <3>2, <3>3
  <2> QED BY <2>1, <2>2, <2>3, <2>4
<1> QED BY <1>1 DEF Min

\* DoAction finds a function for every act, or "nothing".
LEMMA ActIs == \A j \in Jobs : \A i \in DOMAIN j.acts : Plan[j][i] \in AnyAct
<1> SUFFICES ASSUME NEW j \in Jobs, NEW i \in DOMAIN j.acts PROVE Executed(j.acts[i], j.given) \in AnyAct
  BY DEF Plan
<1> DEFINE b == j.acts[i]
           ready == {m \in DOMAIN CasesInOrder :
                       /\ \E k \in 1 .. m : CasesInOrder[k] = b
                       /\ Needs(CasesInOrder[m]) \subseteq j.given}
<1>1. b \in Acts
  BY ProvisionAssumption
<1>2. DOMAIN CasesInOrder = 1 .. 6 /\ \A m \in 1 .. 6 : CasesInOrder[m] \in Acts
  BY DEF CasesInOrder, Acts
<1>3. ready \subseteq 1 .. 6
  BY <1>2
<1> HIDE DEF ready
<1>4. ready # {} => Min(ready) \in 1 .. 6
  BY <1>3, LeastOfSix
<1>5. ready # {} => CasesInOrder[Min(ready)] \in Acts
  BY <1>2, <1>4
<1> QED BY <1>1, <1>5 DEF Executed, AnyAct, ready

\* The step that comes next is in its place.
LEMMA OnPlace ==
  ASSUME PlaceType
  PROVE  Act \in AnyAct /\ Placed(Act, step)
<1>1. Act \in AnyAct
  BY ActIs DEF PlaceType, Act
<1> QED BY <1>1, Places DEF PlaceType

\* Every act has a first step.
LEMMA ScriptStarts == \A a \in AnyAct : Len(Script[a]) \in Nat /\ 1 \in 1 .. Len(Script[a])
<1> SUFFICES ASSUME NEW a \in AnyAct
             PROVE  Len(Script[a]) \in Nat /\ 1 \in 1 .. Len(Script[a])
  OBVIOUS
<1>1. CASE a \in {"uboot", "enter_uboot", "setup_nor"} \cup Kernels
  BY <1>1, UBootActs DEF Kernels
<1>2. CASE a \in {"rootfs", "mtd_utils", "install_kernel", "install_uboot", "validate_hw"}
  BY <1>2, LinuxActs
<1>3. CASE a \in {"install_regigraf", "install_firmware", "test_hw", "nothing"}
  BY <1>3, LinuxActs, SMTT(30)
<1>4. CASE a \in {"unpack_rootfs", "setup_booting", "register"}
  BY <1>4, LinuxActs
<1> QED BY <1>1, <1>2, <1>3, <1>4 DEF AnyAct, Acts, Kernels

\* ExecuteRecipe stays within the recipe and within the act.
LEMMA StepPlace ==
  ASSUME PlaceType, EndType, NEW b, NEW did \in BOOLEAN, NEW go \in BOOLEAN, NEW n,
         Step(b, did, go, n),
         go => n \in Nat \ {0} /\ (mode = "act" \/ n > Len(Script[Act]))
  PROVE  PlaceType' /\ EndType'
<1>1. Act \in AnyAct
  BY OnPlace
<1>2. CASE go /\ n <= Len(Script[Act])
  <2>1. step' = n /\ whole' = (whole /\ did) /\ UNCHANGED <<job, spoiled, mode, at, result>>
    BY <1>2 DEF Step
  <2>2. mode = "act" /\ n \in 1 .. Len(Script[Act])
    BY <1>1, <1>2, ScriptStarts
  <2>3. Act' = Act
    BY <2>1 DEF Act
  <2> QED BY <2>1, <2>2, <2>3 DEF PlaceType, EndType
<1>3. CASE ~(go /\ n <= Len(Script[Act]))
  <2>1. step' = 1 /\ whole' = TRUE /\ UNCHANGED <<job, spoiled>> /\ EndAct(go)
    BY <1>3 DEF Step, EndAct
  <2>2. /\ mode' \in {"act", "asked"} /\ result' \in {"none", "done", "failed"}
        /\ at' \in DOMAIN job.acts
    <3>1. at' = at \/ (at < Len(job.acts) /\ at' = at + 1)
      BY <2>1 DEF EndAct
    <3>2. mode' \in {"act", "asked"} /\ (result' = result \/ result' \in {"done", "failed"})
      BY <2>1 DEF EndAct
    <3>3. job.acts \in Seq(Acts)
      BY ProvisionAssumption DEF PlaceType
    <3> QED BY <3>1, <3>2, <3>3 DEF PlaceType, EndType
  <2>3. Act' \in AnyAct
    BY <2>1, <2>2, ActIs DEF PlaceType, Act
  <2> QED BY <2>1, <2>2, <2>3, ScriptStarts DEF PlaceType, EndType
<1> QED BY <1>2, <1>3

\* The least-number principle, from the library's well-founded order of Nat.
LEMMA Least == ASSUME NEW T, T \subseteq Nat, T # {} PROVE \E x \in T : \A y \in T : x <= y
<1>1. \E x \in T : \A y \in T : ~(<<y, x>> \in OpToRel(<, Nat))
  BY WFMin, NatLessThanWellFounded, Zenon
<1>2. PICK x \in T : \A y \in T : ~(<<y, x>> \in OpToRel(<, Nat))
  BY <1>1
<1>3. ASSUME NEW y \in T, y < x PROVE FALSE
  <2>1. <<y, x>> \in Nat \X Nat /\ <<y, x>>[1] < <<y, x>>[2]
    BY <1>3
  <2>2. <<y, x>> \in OpToRel(<, Nat)
    BY <2>1 DEF OpToRel
  <2> QED BY <1>2, <2>2
<1> QED BY <1>3

\* uboot_conf writes an environment, if it has read one.
LEMMA UpdatedRows ==
  ASSUME NEW conf \in Seq(Row), NEW given,
         \A k \in DOMAIN given : given[k] \in Numbers \cup {StandPanel}
  PROVE  Updated(conf, given) \in Seq(Row)
<1> DEFINE text == BinToText(conf, given)
           n == Len(conf)
           long == {i \in 1 .. n : text[i].size = "long"}
<1>1. n \in Nat /\ DOMAIN text = 1 .. n /\ \A i \in 1 .. n : text[i] = ApplyFilter(conf[i], given)
  BY DEF BinToText
<1>2. \A i \in 1 .. n : text[i] \in Row
  <2> SUFFICES ASSUME NEW i \in 1 .. n PROVE ApplyFilter(conf[i], given) \in Row
    BY <1>1
  <2>1. conf[i] \in Row
    OBVIOUS
  <2> QED BY <2>1 DEF ApplyFilter, Row
<1> HIDE DEF text
<1>3. \E m \in Nat : RowsRead(text) = 1 .. m /\ m <= n
  <2>1. CASE long = {}
    <3>1. RowsRead(text) = 1 .. n
      BY <1>1, <2>1 DEF RowsRead
    <3> QED BY <1>1, <3>1
  <2>2. CASE long # {}
    <3>1. PICK k \in long : \A i \in long : k <= i
      <4>1. long \subseteq Nat
        BY <1>1
      <4> HIDE DEF long
      <4> QED BY <2>2, <4>1, Least
    <3>2. RowsRead(text) = 1 .. k
      BY <1>1, <3>1 DEF RowsRead
    <3> QED BY <1>1, <3>1, <3>2
  <2> QED BY <2>1, <2>2
<1>4. PICK m \in Nat : RowsRead(text) = 1 .. m /\ m <= n
  BY <1>3
<1>5. \A i \in 1 .. m : [text[i] EXCEPT !.size = IF @ = "long" THEN "cut" ELSE @] \in Row
  BY <1>1, <1>2, <1>4 DEF Row
<1>6. Updated(conf, given) = [i \in 1 .. m |-> [text[i] EXCEPT !.size = IF @ = "long" THEN "cut" ELSE @]]
  BY <1>4 DEF Updated, TextToBin, text
<1> QED BY <1>4, <1>5, <1>6

\* All of it but what is stored.
Types == PlaceType /\ EndType /\ FaultType /\ mem \in Memories /\ brd \in Boards

\* What U-Boot saves is an environment.
LEMMA DefaultRows == Default \in Seq(Row) /\ Erased \in Seq(Row)
<1> DEFINE Saying == [key : {"panel", "board_id"}, size : {"fits", "long"}]
<1>1. DefaultEnv \in Seq(Saying)
  BY ProvisionAssumption
<1>2. NoNumber \in Numbers
  BY DEF Numbers
<1>3. \A i \in DOMAIN DefaultEnv : Default[i] \in Row
  <2> SUFFICES ASSUME NEW i \in DOMAIN DefaultEnv PROVE Default[i] \in Row
    OBVIOUS
  <2>1. DefaultEnv[i] \in Saying
    <3> HIDE DEF Saying
    <3>1. i \in 1 .. Len(DefaultEnv)
      BY <1>1
    <3> QED BY <1>1, <3>1, ElementOfSeq
  <2>2. Default[i] = [key |-> DefaultEnv[i].key, value |-> NoNumber, size |-> DefaultEnv[i].size]
    BY DEF Default
  <2> QED BY <1>2, <2>1, <2>2 DEF Row
<1>4. Default = [i \in 1 .. Len(DefaultEnv) |-> Default[i]] /\ Len(DefaultEnv) \in Nat
  BY <1>1 DEF Default
<1>5. [key |-> "erased", value |-> NoNumber, size |-> "long"] \in Row
  BY <1>2 DEF Row
<1>6. Default \in Seq(Row)
  <2> DEFINE n == Len(DefaultEnv)
  <2>1. DOMAIN DefaultEnv = 1 .. n
    BY <1>1
  <2> HIDE DEF n
  <2> QED BY <1>3, <1>4, <2>1 DEF n
<1> QED BY <1>5, <1>6 DEF Erased

\* Boards stay boards, whatever is typed.
LEMMA BoardOps ==
  /\ NewBoard \in Boards
  /\ \A b \in Boards :
       /\ Typed(b) \in Boards /\ Saved(b) \in Boards /\ Booted(b) \in Boards
       /\ \A s \in Systems : [b EXCEPT !.sys = s] \in Boards
       /\ \A x \in BOOLEAN : [b EXCEPT !.net = x] \in Boards
       /\ \A n \in Numbers : [b EXCEPT !.hw = n] \in Boards
       /\ \A c \in Seq(Row) : [b EXCEPT !.conf = c] \in Boards
<1>1. NewBoard \in Boards
  <2>1. NoNumber \in Numbers /\ "rom" \in Systems
    BY DEF Numbers, Systems
  <2> QED BY <2>1, DefaultRows DEF NewBoard, Boards
<1> SUFFICES ASSUME NEW b \in Boards
    PROVE  /\ Typed(b) \in Boards /\ Saved(b) \in Boards /\ Booted(b) \in Boards
           /\ \A s \in Systems : [b EXCEPT !.sys = s] \in Boards
           /\ \A x \in BOOLEAN : [b EXCEPT !.net = x] \in Boards
           /\ \A n \in Numbers : [b EXCEPT !.hw = n] \in Boards
           /\ \A c \in Seq(Row) : [b EXCEPT !.conf = c] \in Boards
  BY <1>1
<1>2. /\ \A s \in Systems : [b EXCEPT !.sys = s] \in Boards
      /\ \A x \in BOOLEAN : [b EXCEPT !.net = x] \in Boards
  BY DEF Boards
<1>3. /\ \A n \in Numbers : [b EXCEPT !.hw = n] \in Boards
      /\ \A c \in Seq(Row) : [b EXCEPT !.conf = c] \in Boards
  BY DEF Boards
<1>4. Typed(b) \in Boards /\ Booted(b) \in Boards
  BY <1>2 DEF Typed, Booted, Systems
<1>5. Saved(b) \in Boards
  BY <1>3, DefaultRows DEF Saved
<1> QED BY <1>2, <1>3, <1>4, <1>5

\* ParseUntil counts what is late, up to the bound.
LEMMA HearType ==
  ASSUME FaultType, NEW said, NEW heard, Hear(said, heard)
  PROVE  FaultType'
<1>1. faulty' \in BOOLEAN
  BY DEF FaultType, Hear
<1>2. late' = late \/ (late < MaxLate /\ late' = late + 1)
  BY DEF Hear
<1>3. late' \in 0 .. MaxLate
  BY <1>2, ProvisionAssumption DEF FaultType
<1> QED BY <1>1, <1>3 DEF FaultType, Hear

\* The TFTP server waits in vain, up to the bound.
LEMMA RefuseType ==
  ASSUME FaultType, mem \in Memories, NEW f, Refuse(f)
  PROVE  FaultType'
<1>1. faulty' \in BOOLEAN
  BY DEF FaultType, Refuse, Memories
<1>2. refused' \in 0 .. MaxRefused
  BY ProvisionAssumption DEF FaultType, Refuse
<1> QED BY <1>1, <1>2 DEF FaultType, Refuse

\* The board after a step of an act.
LEMMA StepTypes ==
  ASSUME Types, NEW b \in Boards, NEW did \in BOOLEAN, NEW go \in BOOLEAN, NEW n,
         Step(b, did, go, n), mem' \in Memories, FaultType',
         go => /\ Act # "nothing" /\ n \in Nat \ {0}
               /\ mode = "act" \/ n > Len(Script[Act])
  PROVE  Types'
<1>1. PlaceType' /\ EndType'
  BY StepPlace DEF Types
<1>2. go => Act \in Acts
  BY OnPlace DEF Types, AnyAct
<1>3. brd' \in Boards
  <2>1. brd' = b \/ brd' = [b EXCEPT !.done = @] \/ (go /\ brd' = [b EXCEPT !.done = @ \cup {Act}])
    BY DEF Step
  <2>2. b.done \subseteq Acts
    BY DEF Boards
  <2> QED BY <1>2, <2>1, <2>2 DEF Boards
<1> QED BY <1>1, <1>3 DEF Types

\* SendToUBoot and SendToShell.
LEMMA SendToTypes ==
  ASSUME Types, mode = "act", Act # "nothing", NEW prompt, NEW b \in Boards, SendTo(prompt, b)
  PROVE  Types'
<1>1. step + 1 \in Nat \ {0}
  BY OnPlace, ScriptStarts DEF Types, PlaceType
<1>2. CASE mem.tmo
  <2>1. mem' \in Memories /\ FaultType' /\ Step(brd, FALSE, TRUE, step + 1)
    BY <1>2 DEF SendTo, Types, faults, FaultType
  <2> QED BY <1>1, <2>1, StepTypes DEF Types
<1>3. CASE ~mem.tmo
  <2>1. PICK heard \in BOOLEAN : /\ Hear(b.sys = prompt, heard)
                                 /\ mem' = [mem EXCEPT !.tmo = ~heard]
                                 /\ Step(b, heard, TRUE, step + 1)
    BY <1>3 DEF SendTo
  <2>2. FaultType'
    BY <2>1, HearType DEF Types
  <2>3. mem' \in Memories
    BY <2>1 DEF Types, Memories
  <2> QED BY <1>1, <2>1, <2>2, <2>3, StepTypes
<1> QED BY <1>2, <1>3

\* A wait that ends the act.
LEMMA AwaitTypes ==
  ASSUME Types, mode = "act", Act # "nothing", NEW said, NEW b \in Boards, Await(said, mem, b)
  PROVE  Types'
<1>1. step + 1 \in Nat \ {0}
  BY OnPlace, ScriptStarts DEF Types, PlaceType
<1>2. PICK heard \in BOOLEAN : /\ Hear(said, heard)
                               /\ mem' = IF heard THEN mem ELSE [mem EXCEPT !.tmo = TRUE]
                               /\ Step(b, heard, heard, step + 1)
  BY DEF Await
<1>3. FaultType'
  BY <1>2, HearType DEF Types
<1>4. mem' \in Memories
  BY <1>2 DEF Types, Memories
<1> QED BY <1>1, <1>2, <1>3, <1>4, StepTypes

\* A step of an act, and not of "nothing", is at its place.
LEMMA OnAct ==
  ASSUME Types, NEW s, On(s)
  PROVE  /\ mode = "act" /\ Act \in AnyAct /\ Placed(Act, step) /\ Script[Act][step] = s
         /\ s # "nothing" => Act # "nothing"
         /\ step \in Nat \ {0} /\ step + 1 \in Nat \ {0} /\ step \in 1 .. Len(Script[Act])
<1>1. Act \in AnyAct /\ Placed(Act, step) /\ step \in 1 .. Len(Script[Act])
  BY OnPlace DEF Types, PlaceType
<1> QED BY <1>1, ScriptStarts DEF On, Placed

\* A step that the next one follows, if any does.
LEMMA OnwardTypes ==
  ASSUME Types, NEW s, On(s), s # "nothing",
         NEW b \in Boards, NEW did \in BOOLEAN, NEW go \in BOOLEAN,
         Step(b, did, go, step + 1), mem' \in Memories, FaultType'
  PROVE  Types'
<1>1. mode = "act" /\ Act # "nothing" /\ step + 1 \in Nat \ {0}
  BY OnAct
<1> QED BY <1>1, StepTypes

\* The steps at U-Boot.
LEMMA UBootTypes ==
  ASSUME Types, Sdp \/ WelcomeSkipped \/ WelcomeMissed \/ WelcomeHeard \/ UBoot \/ Nand \/ Conf
  PROVE  Types'
<1>1. CASE Sdp
  <2>1. PICK heard \in BOOLEAN :
          /\ Hear(brd.sys = "rom", heard)
          /\ Step(IF heard THEN [brd EXCEPT !.sys = "autoboot"] ELSE brd, heard, heard, step + 1)
    BY <1>1 DEF Sdp
  <2>2. (IF heard THEN [brd EXCEPT !.sys = "autoboot"] ELSE brd) \in Boards
    BY BoardOps DEF Types, Systems
  <2>3. FaultType' /\ mem' \in Memories /\ On("sdp")
    BY <1>1, <2>1, HearType DEF Sdp, Types
  <2> QED BY <2>1, <2>2, <2>3, OnwardTypes
<1>2. CASE WelcomeSkipped
  <2>1. /\ Step(brd, brd.sys = "uboot", TRUE, step + 1)
        /\ FaultType' /\ mem' \in Memories /\ On("welcome")
    BY <1>2 DEF WelcomeSkipped, Types, faults, FaultType
  <2> QED BY <2>1, OnwardTypes DEF Types
<1>3. CASE WelcomeMissed
  <2>1. Step(brd, FALSE, FALSE, step) /\ FaultType' /\ mem' = [mem EXCEPT !.tmo = TRUE]
    BY <1>3, HearType DEF WelcomeMissed, Types
  <2>2. mem' \in Memories
    BY <2>1 DEF Types, Memories
  <2> QED BY <2>1, <2>2, StepTypes DEF Types
<1>4. CASE WelcomeHeard
  <2>1. PICK asked \in BOOLEAN, heard \in BOOLEAN :
          /\ Hear(TRUE, asked /\ heard)
          /\ mem' = [mem EXCEPT !.been = TRUE, !.tmo = @ \/ ~heard]
          /\ Step([brd EXCEPT !.sys = IF asked THEN "uboot" ELSE "password"],
                  heard, asked, step + 1)
    BY <1>4 DEF WelcomeHeard
  <2>2. [brd EXCEPT !.sys = IF asked THEN "uboot" ELSE "password"] \in Boards
    BY BoardOps DEF Types, Systems
  <2>3. FaultType' /\ On("welcome")
    BY <1>4, <2>1, HearType DEF WelcomeHeard, Types
  <2>4. mem' \in Memories
    BY <2>1 DEF Types, Memories
  <2> QED BY <2>1, <2>2, <2>3, <2>4, OnwardTypes
<1>5. CASE UBoot
  <2>1. On("uboot") /\ SendTo("uboot", Typed(brd)) /\ Typed(brd) \in Boards
    BY <1>5, BoardOps DEF UBoot, Types
  <2>2. mode = "act" /\ Act # "nothing"
    BY <2>1, OnAct
  <2> QED BY <2>1, <2>2, SendToTypes
<1>6. CASE Nand
  <2>1. Step(brd, TRUE, TRUE, step + 1) /\ mem' = [mem EXCEPT !.nand = TRUE] /\ On("nand")
    BY <1>6 DEF Nand
  <2>2. mem' \in Memories
    BY <2>1 DEF Types, Memories
  <2>3. FaultType'
    BY <1>6 DEF Nand, Types, faults, FaultType
  <2> QED BY <2>1, <2>2, <2>3, OnwardTypes DEF Types
<1>7. CASE Conf
  <2>1. On("conf") /\ Typed(brd) \in Boards
    BY <1>7, BoardOps DEF Conf, Types
  <2>2. CASE mem.tmo
    <3>1. /\ Step(brd, FALSE, TRUE, step + 1) /\ mem' = [mem EXCEPT !.known = FALSE]
          /\ UNCHANGED faults
      BY <1>7, <2>2 DEF Conf
    <3>2. mem' \in Memories
      BY <3>1 DEF Types, Memories
    <3>3. FaultType'
      BY <3>1 DEF Types, faults, FaultType
    <3> QED BY <2>1, <3>1, <3>2, <3>3, OnwardTypes DEF Types
  <2>3. CASE ~mem.tmo
    <3>1. PICK heard \in BOOLEAN : /\ Hear(Typed(brd).sys = "uboot", heard)
                                   /\ mem' = [mem EXCEPT !.known = FALSE, !.tmo = ~heard]
                                   /\ Step(Typed(brd), heard, TRUE, step + 1)
      BY <1>7, <2>3 DEF Conf
    <3>2. mem' \in Memories
      BY <3>1 DEF Types, Memories
    <3>3. FaultType'
      BY <3>1, HearType DEF Types
    <3> QED BY <2>1, <3>1, <3>2, <3>3, OnwardTypes
  <2> QED BY <2>2, <2>3
<1> QED BY <1>1, <1>2, <1>3, <1>4, <1>5, <1>6, <1>7

\* The power cycle of setup_nor.
LEMMA ReloadTypes ==
  ASSUME Types, Save \/ PowerCycle \/ Reload
  PROVE  Types'
<1>1. CASE Save
  <2>1. On("save") /\ Saved(Typed(brd)) \in Boards
    BY <1>1, BoardOps DEF Save, Types
  <2>2. CASE SendTo("uboot", Saved(Typed(brd)))
    <3>1. mode = "act" /\ Act # "nothing"
      BY <2>1, OnAct
    <3> QED BY <2>1, <2>2, <3>1, SendToTypes
  <2>3. CASE ~SendTo("uboot", Saved(Typed(brd)))
    <3>1. PICK heard \in BOOLEAN :
            /\ Hear(brd.sys = "uboot" /\ ~mem.tmo, heard)
            /\ mem' = [FillInSysInfo(mem, "power cycle") EXCEPT !.tmo = @ \/ ~heard]
            /\ mode' = "enter"
            /\ brd' = IF mem.tmo THEN brd ELSE Saved(Typed(brd))
            /\ UNCHANGED <<job, at, step, whole, result, spoiled>>
      BY <1>1, <2>3 DEF Save
    <3>2. FaultType' /\ brd' \in Boards
      BY <2>1, <3>1, HearType DEF Types
    <3>3. mem' \in Memories
      BY <3>1 DEF Types, Memories, FillInSysInfo
    <3>4. Act' = Act /\ Act = "setup_nor" /\ step = 3
      BY <2>1, <3>1, OnAct DEF Act, Placed
    <3>5. PlaceType' /\ EndType'
      BY <3>1, <3>4 DEF Types, PlaceType, EndType
    <3> QED BY <3>2, <3>3, <3>5 DEF Types
  <2> QED BY <2>2, <2>3
<1>2. CASE PowerCycle
  <2>1. /\ mode = "enter" /\ mode' = "reload"
        /\ UNCHANGED <<job, at, step, whole, result, spoiled, mem, late, refused, complaints, faulty>>
    BY <1>2 DEF PowerCycle, faults
  <2>2. brd' \in Boards
    <3>1. [brd EXCEPT !.sys = "rom"] \in Boards
      BY BoardOps DEF Types, Systems
    <3>2. brd' = [[brd EXCEPT !.sys = "rom"] EXCEPT !.net = FALSE]
      BY <1>2 DEF PowerCycle, Types, Boards
    <3> QED BY <3>1, <3>2, BoardOps
  <2>3. Act' = Act
    BY <2>1 DEF Act
  <2>4. PlaceType' /\ EndType' /\ FaultType'
    BY <2>1, <2>3 DEF Types, PlaceType, EndType, FaultType
  <2> QED BY <2>1, <2>2, <2>4 DEF Types
<1>3. CASE Reload
  <2>1. PICK heard \in BOOLEAN :
          /\ Hear(TRUE, heard)
          /\ IF heard THEN Step([brd EXCEPT !.sys = "autoboot"], TRUE, TRUE, step + 1)
                      ELSE UNCHANGED <<place, brd>>
    BY <1>3 DEF Reload
  <2>2. FaultType' /\ mem' \in Memories /\ UNCHANGED mem /\ mode = "reload"
    BY <1>3, <2>1, HearType DEF Reload, Types
  <2>3. CASE heard
    <3>1. [brd EXCEPT !.sys = "autoboot"] \in Boards
      BY BoardOps DEF Types, Systems
    <3>2. Act = "setup_nor" /\ step = 3
      BY <2>2 DEF Types, PlaceType
    <3>3. Len(Script["setup_nor"]) = 3
      BY UBootActs
    <3>4. Act # "nothing" /\ step + 1 \in Nat \ {0} /\ step + 1 > Len(Script[Act])
      BY <3>2, <3>3
    <3> QED BY <2>1, <2>2, <2>3, <3>1, <3>4, StepTypes
  <2>4. CASE ~heard
    <3>1. UNCHANGED <<place, brd>> /\ Act' = Act
      BY <2>1, <2>4 DEF place, Act
    <3> QED BY <2>2, <3>1 DEF Types, PlaceType, EndType, place
  <2> QED BY <2>3, <2>4
<1> QED BY <1>1, <1>2, <1>3

\* The steps that start a kernel.
LEMMA BootTypes ==
  ASSUME Types, LoadY \/ Dhcp \/ Boot
  PROVE  Types'
<1>1. CASE LoadY
  <2> DEFINE b == Typed(brd)
             c == IF b.sys = "uboot" THEN Booted(b) ELSE b
  <2>1. On("loady") /\ UNCHANGED <<mem, faults>> /\ Step(c, TRUE, TRUE, step + 1)
    BY <1>1 DEF LoadY
  <2>2. c \in Boards
    BY BoardOps DEF Types
  <2>3. mem' \in Memories /\ FaultType'
    BY <2>1 DEF Types, faults, FaultType
  <2> HIDE DEF c
  <2> QED BY <2>1, <2>2, <2>3, OnwardTypes
<1>2. CASE Dhcp
  <2>1. On("dhcp") /\ UNCHANGED mem /\ mem' \in Memories /\ Typed(brd) \in Boards
        /\ Booted(Typed(brd)) \in Boards
    BY <1>2, BoardOps DEF Dhcp, Types
  <2>2. CASE Step(Booted(Typed(brd)), TRUE, TRUE, step + 1) /\ UNCHANGED faults
    <3>1. FaultType'
      BY <2>2 DEF Types, faults, FaultType
    <3> QED BY <2>1, <2>2, <3>1, OnwardTypes
  <2>3. CASE /\ IF Typed(brd).sys = "uboot" THEN Refuse("kernel") ELSE UNCHANGED faults
             /\ Step(Typed(brd), TRUE, TRUE, step - 2)
    <3>1. FaultType'
      BY <2>3, RefuseType DEF Types, faults, FaultType
    <3>2. mode = "act" /\ Act # "nothing" /\ step \in Nat \ {0} /\ Placed(Act, step)
          /\ Script[Act][step] = "dhcp"
      BY <2>1, OnAct
    <3>3. step - 2 \in Nat \ {0}
      BY <3>2 DEF Placed
    <3> QED BY <2>1, <2>3, <3>1, <3>2, <3>3, StepTypes
  <2> QED BY <1>2, <2>2, <2>3 DEF Dhcp
<1>3. CASE Boot
  <2>1. PICK heard \in BOOLEAN :
          /\ Hear(brd.sys \in {"initramfs", "login"}, heard)
          /\ mem' = [FillInSysInfo(mem, IF heard THEN "partitions" ELSE "nothing")
                       EXCEPT !.eth = FALSE, !.been = FALSE, !.parts = FALSE,
                              !.prompt = "initramfs", !.tmo = @ \/ ~heard]
          /\ Step([brd EXCEPT !.net = FALSE], heard, heard, step + 1)
    BY <1>3 DEF Boot
  <2>2. On("boot") /\ [brd EXCEPT !.net = FALSE] \in Boards
    BY <1>3, BoardOps DEF Boot, Types
  <2>3. FaultType'
    BY <2>1, HearType DEF Types
  <2>4. mem' \in Memories
    BY <2>1, ZenonT(60) DEF Types, Memories, FillInSysInfo, Shells
  <2> QED BY <2>1, <2>2, <2>3, <2>4, OnwardTypes
<1> QED BY <1>1, <1>2, <1>3

\* DownloadFromTFtp.
LEMMA GetTypes ==
  ASSUME Types, SetupNet \/ (\E f \in Downloads : Get(f))
  PROVE  Types'
<1>1. CASE SetupNet
  <2>1. UNCHANGED place /\ FaultType' /\ mem' \in Memories /\ brd' \in Boards
    <3>1. CASE mem.tmo
      <4>1. UNCHANGED <<place, faults, brd>> /\ mem' = [mem EXCEPT !.eth = TRUE]
        BY <1>1, <3>1 DEF SetupNet
      <4>2. mem' \in Memories
        BY <4>1 DEF Types, Memories
      <4> QED BY <4>1, <4>2 DEF Types, faults, FaultType
    <3>2. CASE ~mem.tmo
      <4>1. PICK heard \in BOOLEAN : /\ Hear(brd.sys = mem.prompt, heard)
                                     /\ mem' = [mem EXCEPT !.eth = TRUE, !.tmo = ~heard]
                                     /\ brd' = [brd EXCEPT !.net = heard]
        BY <1>1, <3>2 DEF SetupNet
      <4>2. FaultType' /\ brd' \in Boards
        BY <4>1, HearType, BoardOps DEF Types
      <4>3. mem' \in Memories
        BY <4>1 DEF Types, Memories
      <4> QED BY <1>1, <4>2, <4>3 DEF SetupNet
    <3> QED BY <3>1, <3>2
  <2>2. PlaceType' /\ EndType'
    <3>1. Act' = Act
      BY <2>1 DEF place, Act
    <3> QED BY <2>1, <3>1 DEF Types, PlaceType, EndType, place
  <2> QED BY <2>1, <2>2 DEF Types
<1>2. ASSUME NEW f \in Downloads, Get(f) PROVE Types'
  <2>1. On(f) /\ f # "nothing"
    BY <1>2 DEF Get, Downloads
  <2>2. CASE \E heard \in BOOLEAN :
               /\ Hear(brd.sys = mem.prompt, heard)
               /\ mem' = [mem EXCEPT !.tmo = @ \/ ~heard]
               /\ Step(brd, heard, heard \/ f = "packet", step + 1)
    <3>1. PICK heard \in BOOLEAN :
               /\ Hear(brd.sys = mem.prompt, heard)
               /\ mem' = [mem EXCEPT !.tmo = @ \/ ~heard]
               /\ Step(brd, heard, heard \/ f = "packet", step + 1)
      BY <2>2
    <3>2. FaultType' /\ brd \in Boards /\ (heard \/ f = "packet") \in BOOLEAN
      BY <3>1, HearType DEF Types
    <3>3. mem' \in Memories
      BY <3>1 DEF Types, Memories
    <3> QED BY <2>1, <3>1, <3>2, <3>3, OnwardTypes
  <2>3. CASE /\ IF brd.sys \in Shells /\ (brd.sys = "regigraf" \/ brd.net)
                  THEN Refuse(f) ELSE UNCHANGED faults
             /\ UNCHANGED mem
             /\ Step(brd, FALSE, f = "packet", step + 2)
    <3>1. FaultType' /\ mem' \in Memories /\ brd \in Boards
      BY <2>3, RefuseType DEF Types, faults, FaultType
    <3>2. mode = "act" /\ Act # "nothing" /\ step \in Nat
      BY <2>1, OnAct
    <3>3. step + 2 \in Nat \ {0} /\ (f = "packet") \in BOOLEAN
      BY <3>2
    <3> QED BY <2>3, <3>1, <3>2, <3>3, StepTypes
  <2> QED BY <1>2, <2>2, <2>3 DEF Get
<1> QED BY <1>1, <1>2

\* The commands whose answers nobody looks at.
LEMMA ShellTypes ==
  ASSUME Types, number \in Registry!Number, Shell \/ MkVol \/ HwAddr \/ Panel \/ WriteId
  PROVE  Types'
<1>0. brd \in Boards /\ number \in Numbers /\ brd.conf \in Seq(Row)
  BY DEF Types, Numbers, Boards
<1>1. CASE Shell
  <2>1. On("shell") /\ SendTo(mem.prompt, brd)
    BY <1>1 DEF Shell
  <2>2. mode = "act" /\ Act # "nothing"
    BY <2>1, OnAct
  <2> QED BY <1>0, <2>1, <2>2, SendToTypes
<1>2. CASE MkVol
  <2>1. mode = "act" /\ Act # "nothing"
    BY <1>2, OnAct DEF MkVol
  <2>2. CASE SendTo(mem.prompt, brd)
    BY <1>0, <2>1, <2>2, SendToTypes
  <2>3. CASE /\ complaints < MaxComplaints /\ complaints' = complaints + 1
             /\ UNCHANGED <<place, mem, brd, late, refused, faulty>>
    <3>1. Act' = Act
      BY <2>3 DEF place, Act
    <3>2. FaultType'
      BY <2>3, ProvisionAssumption DEF Types, FaultType
    <3>3. PlaceType' /\ EndType'
      BY <2>3, <3>1 DEF Types, PlaceType, EndType, place
    <3> QED BY <2>3, <3>2, <3>3 DEF Types
  <2> QED BY <1>2, <2>2, <2>3 DEF MkVol
<1>3. CASE HwAddr
  <2>1. On("hwaddr") /\ SendTo(mem.prompt, [brd EXCEPT !.hw = number])
    BY <1>3 DEF HwAddr
  <2>2. mode = "act" /\ Act # "nothing" /\ [brd EXCEPT !.hw = number] \in Boards
    BY <1>0, <2>1, OnAct, BoardOps
  <2> QED BY <2>1, <2>2, SendToTypes
<1>4. CASE Panel
  <2> DEFINE c == Updated(brd.conf, [panel |-> StandPanel])
  <2>1. c \in Seq(Row)
    <3>1. \A k \in DOMAIN [panel |-> StandPanel] :
            [panel |-> StandPanel][k] \in Numbers \cup {StandPanel}
      OBVIOUS
    <3> QED BY <1>0, <3>1, UpdatedRows
  <2>2. On("panel") /\ SendTo(mem.prompt, [brd EXCEPT !.conf = c])
    BY <1>4 DEF Panel
  <2> HIDE DEF c
  <2>3. mode = "act" /\ Act # "nothing" /\ [brd EXCEPT !.conf = c] \in Boards
    BY <1>0, <2>1, <2>2, OnAct, BoardOps
  <2> QED BY <2>2, <2>3, SendToTypes
<1>5. CASE WriteId
  <2> DEFINE c == Updated(brd.conf, [board_id |-> number])
  <2>1. c \in Seq(Row)
    <3>1. \A k \in DOMAIN [board_id |-> number] :
            [board_id |-> number][k] \in Numbers \cup {StandPanel}
      BY <1>0
    <3> QED BY <1>0, <3>1, UpdatedRows
  <2>2. On("id") /\ SendTo(mem.prompt, [brd EXCEPT !.conf = c])
    BY <1>5 DEF WriteId
  <2> HIDE DEF c
  <2>3. mode = "act" /\ Act # "nothing" /\ [brd EXCEPT !.conf = c] \in Boards
    BY <1>0, <2>1, <2>2, OnAct, BoardOps
  <2> QED BY <2>2, <2>3, SendToTypes
<1> QED BY <1>1, <1>2, <1>3, <1>4, <1>5

\* Partitions.
LEMMA PartsTypes ==
  ASSUME Types, Parts \/ Find \/ MkFs
  PROVE  Types'
<1>0. brd \in Boards /\ mem \in Memories /\ mem.known \in BOOLEAN /\ mem.tmo \in BOOLEAN
  BY DEF Types, Memories
<1>1. CASE Parts
  <2>1. CASE mem.tmo \/ mem.parts
    <3>1. /\ mem' = [mem EXCEPT !.parts = TRUE] /\ UNCHANGED faults
          /\ Step(brd, ~mem.tmo, TRUE, step + 1) /\ On("parts")
      BY <1>1, <2>1 DEF Parts
    <3>2. mem' \in Memories /\ FaultType'
      BY <3>1 DEF Types, Memories, faults, FaultType
    <3> QED BY <1>0, <3>1, <3>2, OnwardTypes
  <2>2. CASE ~(mem.tmo \/ mem.parts)
    <3>1. PICK heard \in BOOLEAN : /\ Hear(brd.sys = mem.prompt, heard)
                                   /\ mem' = [mem EXCEPT !.parts = TRUE, !.tmo = ~heard]
                                   /\ Step(brd, heard, TRUE, step + 1)
      BY <1>1, <2>2 DEF Parts
    <3>2. FaultType' /\ On("parts")
      BY <1>1, <3>1, HearType DEF Parts, Types
    <3>3. mem' \in Memories
      BY <3>1 DEF Types, Memories
    <3> QED BY <1>0, <3>1, <3>2, <3>3, OnwardTypes
  <2> QED BY <2>1, <2>2
<1>2. CASE Find
  <2>1. UNCHANGED <<mem, faults>> /\ Step(brd, mem.known, mem.known, step + 1) /\ On("find")
    BY <1>2 DEF Find
  <2>2. mem' \in Memories /\ FaultType'
    BY <2>1 DEF Types, faults, FaultType
  <2> QED BY <1>0, <2>1, <2>2, OnwardTypes
<1>3. CASE MkFs
  <2>1. mode = "act" /\ Act # "nothing" /\ step \in Nat
    BY <1>3, OnAct DEF MkFs
  <2>2. CASE mem.known
    <3>1. SendTo(mem.prompt, brd)
      BY <1>3, <2>2 DEF MkFs
    <3> QED BY <1>0, <2>1, <3>1, SendToTypes
  <2>3. CASE ~mem.known
    <3>1. UNCHANGED <<mem, faults>> /\ Step(brd, FALSE, TRUE, step + 2)
      BY <1>3, <2>3 DEF MkFs
    <3>2. mem' \in Memories /\ FaultType' /\ step + 2 \in Nat \ {0}
      BY <2>1, <3>1 DEF Types, faults, FaultType
    <3> QED BY <1>0, <2>1, <3>1, <3>2, StepTypes
  <2> QED BY <2>2, <2>3
<1> QED BY <1>1, <1>2, <1>3

\* The steps that wait for another system or for the installed one.
LEMMA SystemTypes ==
  ASSUME Types, Switch \/ Reboot \/ Login \/ NewPassword
  PROVE  Types'
<1>0. brd \in Boards
  BY DEF Types
<1>1. CASE Switch
  <2> DEFINE b == IF brd.sys = "initramfs" THEN [brd EXCEPT !.sys = "login"] ELSE brd
  <2>1. mode = "act" /\ Act # "nothing" /\ Await(brd.sys = "initramfs", mem, b)
    BY <1>1, OnAct DEF Switch
  <2>2. b \in Boards
    BY <1>0, BoardOps DEF Systems
  <2> HIDE DEF b
  <2> QED BY <2>1, <2>2, AwaitTypes
<1>2. CASE Reboot
  <2> DEFINE b == IF brd.sys \in Shells THEN [brd EXCEPT !.sys = "login"] ELSE brd
  <2>1. mode = "act" /\ Act # "nothing" /\ Await(brd.sys \in Shells, mem, b)
    BY <1>2, OnAct DEF Reboot
  <2>2. b \in Boards
    BY <1>0, BoardOps DEF Systems
  <2> HIDE DEF b
  <2> QED BY <2>1, <2>2, AwaitTypes
<1>3. CASE Login
  <2>0. On("root")
    BY <1>3 DEF Login
  <2>1. CASE mem.tmo
    <3>1. /\ mem' = [mem EXCEPT !.prompt = "regigraf"] /\ UNCHANGED faults
          /\ Step(brd, FALSE, TRUE, step + 1)
      BY <1>3, <2>1 DEF Login
    <3>2. mem' \in Memories
      BY <3>1 DEF Types, Memories, Shells
    <3>3. FaultType'
      BY <3>1 DEF Types, faults, FaultType
    <3> QED BY <1>0, <2>0, <3>1, <3>2, <3>3, OnwardTypes
  <2>2. CASE ~mem.tmo
    <3> DEFINE b == [brd EXCEPT !.sys = IF @ = "login" THEN "regigraf" ELSE @]
    <3>1. PICK heard \in BOOLEAN : /\ Hear(brd.sys \in {"login", "regigraf"}, heard)
                                   /\ mem' = [mem EXCEPT !.prompt = "regigraf", !.tmo = ~heard]
                                   /\ Step(b, heard, TRUE, step + 1)
      BY <1>3, <2>2 DEF Login
    <3>2. b \in Boards
      BY <1>0 DEF Boards, Systems
    <3>3. mem' \in Memories
      BY <3>1 DEF Types, Memories, Shells
    <3>4. FaultType'
      BY <3>1, HearType DEF Types
    <3> HIDE DEF b
    <3> QED BY <2>0, <3>1, <3>2, <3>3, <3>4, OnwardTypes
  <2> QED BY <2>1, <2>2
<1>4. CASE NewPassword
  <2>1. mode = "act" /\ Act # "nothing" /\ Await(brd.sys = "regigraf", mem, brd)
    BY <1>4, OnAct DEF NewPassword
  <2> QED BY <1>0, <2>1, AwaitTypes
<1> QED BY <1>1, <1>2, <1>3, <1>4

\* The steps that type nothing.
LEMMA RecordTypes ==
  ASSUME Types, WriteJson \/ Count \/ Validate \/ Test \/ Nothing
  PROVE  Types'
<1>0. brd \in Boards /\ mem \in Memories /\ mem.known \in BOOLEAN
  BY DEF Types, Memories
<1>1. CASE WriteJson \/ Count \/ Test
  <2>1. PICK s \in {"json", "count", "test"} :
          On(s) /\ UNCHANGED <<mem, faults>> /\ Step(brd, TRUE, TRUE, step + 1)
    BY <1>1 DEF WriteJson, Count, Test
  <2>2. mem' \in Memories /\ FaultType'
    BY <2>1 DEF Types, faults, FaultType
  <2> QED BY <1>0, <2>1, <2>2, OnwardTypes
<1>2. CASE Validate
  <2>1. PICK good \in BOOLEAN :
          /\ UNCHANGED mem /\ Step(brd, good /\ mem.known, good /\ mem.known, step + 1)
          /\ faulty' = (faulty \/ ~good) /\ On("validate") /\ UNCHANGED <<late, refused, complaints>>
    BY <1>2 DEF Validate
  <2>2. mem' \in Memories /\ FaultType' /\ (good /\ mem.known) \in BOOLEAN
    BY <1>0, <2>1 DEF Types, FaultType
  <2> QED BY <1>0, <2>1, <2>2, OnwardTypes
<1>3. CASE Nothing
  <2>1. UNCHANGED <<mem, faults>> /\ Step(brd, FALSE, FALSE, step)
    BY <1>3 DEF Nothing
  <2>2. mem' \in Memories /\ FaultType'
    BY <2>1 DEF Types, faults, FaultType
  <2> QED BY <1>0, <2>1, <2>2, StepTypes
<1> QED BY <1>1, <1>2, <1>3

\* The steps at the board, except the two that register it, leave the registry,
\* the board at the stand and the count of starts alone.
LEMMA WorkKeepsRest ==
  ASSUME Work, ~Count, ~WriteJson
  PROVE  UNCHANGED <<store, board, starts>>
<1>1. CASE Sdp \/ WelcomeSkipped \/ WelcomeMissed \/ WelcomeHeard \/ UBoot \/ Save \/ Reload
  BY <1>1 DEF Sdp, WelcomeSkipped, WelcomeMissed, WelcomeHeard, UBoot, Save, Reload
<1>2. CASE Nand \/ Conf \/ LoadY \/ Dhcp \/ Boot
  BY <1>2 DEF Nand, Conf, LoadY, Dhcp, Boot
<1>3. CASE Shell \/ SetupNet \/ (\E f \in Downloads : Get(f)) \/ Parts \/ Find \/ MkFs
  BY <1>3 DEF Shell, SetupNet, Get, Parts, Find, MkFs
<1>4. CASE MkVol \/ HwAddr \/ Panel \/ Switch \/ Reboot \/ Login \/ WriteId \/ NewPassword
  BY <1>4 DEF MkVol, HwAddr, Panel, Switch, Reboot, Login, WriteId, NewPassword
<1>5. CASE Validate \/ Test \/ Nothing
  BY <1>5 DEF Validate, Test, Nothing
<1> QED BY <1>1, <1>2, <1>3, <1>4, <1>5 DEF Work

\* The registry, the board at the stand and the count of starts.
LEMMA StoreTypes ==
  ASSUME StoreType, StoreInv, StoreInv', brd \in Boards, [Next]_vars
  PROVE  StoreType'
<1>1. number' \in Registry!Number /\ file' \in Registry!Number
  BY DEF StoreInv
<1>2. CASE Count
  <2>1. /\ counted' = counted \cup {[board |-> board, number |-> number]}
        /\ UNCHANGED <<registered, board, starts>>
    BY <1>2 DEF Count
  <2>2. [board |-> board, number |-> number] \in [board : 0 .. MaxBoards, number : Registry!Number]
    BY DEF StoreType
  <2> QED BY <1>1, <2>1, <2>2 DEF StoreType
<1>3. CASE WriteJson
  <2>1. /\ registered' = registered \cup {[board |-> board, number |-> number, hw |-> brd.hw]}
        /\ UNCHANGED <<counted, board, starts>>
    BY <1>3 DEF WriteJson
  <2>2. brd.hw \in Numbers
    BY DEF Boards
  <2>3. [board |-> board, number |-> number, hw |-> brd.hw]
          \in [board : 0 .. MaxBoards, number : Registry!Number, hw : Numbers]
    BY <2>2 DEF StoreType
  <2> QED BY <1>1, <2>1, <2>3 DEF StoreType
<1>4. CASE Work /\ ~Count /\ ~WriteJson
  <2>1. UNCHANGED <<store, board, starts>>
    BY <1>4, WorkKeepsRest
  <2> QED BY <1>1, <2>1 DEF StoreType, store
<1>5. CASE Start \/ NextBoard
  <2>1. /\ UNCHANGED <<registered, counted>> /\ board' \in 1 .. MaxBoards
        /\ starts' = starts \/ (starts < MaxStarts /\ starts' = starts + 1)
    BY <1>5 DEF Start, NextBoard, PutBoard, Candidates, store
  <2>2. starts' \in 0 .. MaxStarts /\ board' \in 0 .. MaxBoards
    BY <2>1, ProvisionAssumption DEF StoreType
  <2> QED BY <1>1, <2>1, <2>2 DEF StoreType
<1>6. CASE PowerCycle \/ Stop \/ UNCHANGED vars
  <2>1. UNCHANGED <<registered, counted, board, starts>>
    BY <1>6 DEF PowerCycle, Stop, vars, store
  <2> QED BY <1>1, <2>1 DEF StoreType
<1> QED BY <1>2, <1>3, <1>4, <1>5, <1>6 DEF Next

\* A board comes to the stand: the recipe begins.
LEMMA PutTypes ==
  ASSUME Types, NEW b, PutBoard(b), job' = job, spoiled' \in BOOLEAN, mem' \in Memories,
         UNCHANGED <<late, refused, complaints>>
  PROVE  Types'
<1>1. brd' \in Boards
  <2>1. CASE b = board
    <3>1. brd' = [[[brd EXCEPT !.sys = "rom"] EXCEPT !.net = FALSE] EXCEPT !.done = {}]
      BY <2>1 DEF PutBoard, Types, Boards
    <3> QED BY <3>1 DEF Types, Boards, Systems
  <2>2. CASE b # board
    BY <2>2, BoardOps DEF PutBoard
  <2> QED BY <2>1, <2>2
<1>2. /\ mode' = "act" /\ at' = 1 /\ step' = 1 /\ whole' = TRUE
      /\ result' = "none" /\ faulty' = FALSE
  BY DEF PutBoard
<1>3. at' \in DOMAIN job.acts
  <2>1. job.acts \in Seq(Acts) /\ job.acts # <<>>
    BY ProvisionAssumption DEF Types, PlaceType
  <2> QED BY <1>2, <2>1
<1>4. Act' \in AnyAct
  BY <1>3, ActIs DEF Types, PlaceType, Act
<1>5. PlaceType' /\ EndType'
  BY <1>2, <1>3, <1>4, ScriptStarts DEF Types, PlaceType, EndType
<1>6. FaultType'
  BY <1>2 DEF Types, FaultType
<1> QED BY <1>1, <1>5, <1>6 DEF Types

\* The program starts within its recipe.
LEMMA InitTypes == Init => Types /\ StoreType
<1> SUFFICES ASSUME Init PROVE Types /\ StoreType
  OBVIOUS
<1> USE DEF Init
<1>1. job \in Jobs /\ at \in DOMAIN job.acts
  <2>1. job.acts \in Seq(Acts) /\ job.acts # <<>>
    BY ProvisionAssumption
  <2> QED BY <2>1
<1>2. Act \in AnyAct
  BY <1>1, ActIs DEF Act
<1>3. PlaceType /\ EndType
  BY <1>1, <1>2, ScriptStarts DEF PlaceType, EndType
<1>4. FaultType
  <2>1. 0 \in 0 .. MaxLate /\ 0 \in 0 .. MaxRefused /\ 0 \in 0 .. MaxComplaints
    BY ProvisionAssumption
  <2>2. late = 0 /\ refused = 0 /\ complaints = 0 /\ faulty = FALSE
    OBVIOUS
  <2> QED BY <2>1, <2>2 DEF FaultType
<1>5. mem \in Memories
  BY DEF Fresh, Memories, Shells
<1>6. brd \in Boards
  BY BoardOps
<1>7. StoreType
  BY InitStore, ProvisionAssumption DEF StoreType, StoreInv
<1> QED BY <1>3, <1>4, <1>5, <1>6, <1>7 DEF Types

\* Every action keeps the types of what the program and the board are at.
LEMMA NextTypes ==
  ASSUME Types, number \in Registry!Number, [Next]_vars
  PROVE  Types'
<1>1. CASE Work
  <2>1. CASE Sdp \/ WelcomeSkipped \/ WelcomeMissed \/ WelcomeHeard \/ UBoot \/ Nand \/ Conf
    BY <2>1, UBootTypes
  <2>2. CASE Save \/ Reload
    BY <2>2, ReloadTypes
  <2>3. CASE LoadY \/ Dhcp \/ Boot
    BY <2>3, BootTypes
  <2>4. CASE SetupNet \/ (\E f \in Downloads : Get(f))
    BY <2>4, GetTypes
  <2>5. CASE Shell \/ MkVol \/ HwAddr \/ Panel \/ WriteId
    BY <2>5, ShellTypes
  <2>6. CASE Parts \/ Find \/ MkFs
    BY <2>6, PartsTypes
  <2>7. CASE Switch \/ Reboot \/ Login \/ NewPassword
    BY <2>7, SystemTypes
  <2>8. CASE WriteJson \/ Count \/ Validate \/ Test \/ Nothing
    BY <2>8, RecordTypes
  <2> QED BY <1>1, <2>1, <2>2, <2>3, <2>4, <2>5, <2>6, <2>7, <2>8 DEF Work
<1>2. CASE PowerCycle
  BY <1>2, ReloadTypes
<1>3. CASE Start
  <2>1. PICK b \in Candidates : PutBoard(b)
    BY <1>3 DEF Start
  <2>2. /\ job' = job /\ spoiled' \in BOOLEAN /\ mem' \in Memories
        /\ UNCHANGED <<late, refused, complaints>>
    BY <1>3 DEF Start, Fresh, Memories, Shells
  <2> QED BY <2>1, <2>2, PutTypes
<1>4. CASE NextBoard
  <2>1. PICK b \in Candidates : PutBoard(b)
    BY <1>4 DEF NextBoard
  <2>2. job' = job /\ spoiled' \in BOOLEAN /\ UNCHANGED <<late, refused, complaints>>
    BY <1>4 DEF NextBoard, Types, EndType
  <2>3. mem' \in Memories
    BY <1>4 DEF NextBoard, Types, Memories
  <2> QED BY <2>1, <2>2, <2>3, PutTypes
<1>5. CASE Stop \/ UNCHANGED vars
  <2>1. UNCHANGED <<job, at, step, whole, result, spoiled, mem, brd, faults>>
        /\ mode' \in {mode, "off"}
    BY <1>5 DEF Stop, vars, place
  <2>2. Act' = Act
    BY <2>1 DEF Act
  <2>3. PlaceType'
    BY <2>1, <2>2 DEF Types, PlaceType
  <2>4. FaultType' /\ EndType'
    BY <2>1 DEF Types, FaultType, EndType, faults
  <2> QED BY <2>1, <2>3, <2>4 DEF Types
<1> QED BY <1>1, <1>2, <1>3, <1>4, <1>5 DEF Next

\* The inductive invariant of the types: besides them, the step that comes next
\* is one of the act, and the power cycle is awaited in setup_nor only.
THEOREM TypesInvariant == Spec => [](Types /\ StoreType)
<1>1. StoreInv /\ StoreInv' /\ Types /\ StoreType /\ [Next]_vars => (Types /\ StoreType)'
  <2> SUFFICES ASSUME StoreInv, StoreInv', Types, StoreType, [Next]_vars
               PROVE  Types' /\ StoreType'
    OBVIOUS
  <2>1. number \in Registry!Number /\ brd \in Boards
    BY DEF StoreType, Types
  <2> QED BY <2>1, NextTypes, StoreTypes
<1> QED BY <1>1, InitTypes, StoreInvariant, PTL DEF Spec

\* TypeOK: whatever recipe is executed and however its commands are answered,
\* the program stays within the recipe and the bounds.
THEOREM TypeCorrect == Spec => []TypeOK
<1>1. Types /\ StoreType => TypeOK
  <2> SUFFICES ASSUME Types, StoreType PROVE TypeOK
    OBVIOUS
  <2>1. step \in Nat
    <3>1. Len(Script[Act]) \in Nat
      BY OnPlace, ScriptStarts DEF Types
    <3> QED BY <3>1 DEF Types, PlaceType
  <2>2. mode \in {"off", "act", "enter", "reload", "asked"} /\ job \in Jobs
        /\ at \in DOMAIN job.acts
    BY DEF Types, PlaceType
  <2>3. whole \in BOOLEAN /\ result \in {"none", "done", "failed"} /\ spoiled \in BOOLEAN
    BY DEF Types, EndType
  <2>4. /\ late \in 0 .. MaxLate /\ refused \in 0 .. MaxRefused
        /\ complaints \in 0 .. MaxComplaints /\ faulty \in BOOLEAN
    BY DEF Types, FaultType
  <2> QED BY <2>1, <2>2, <2>3, <2>4 DEF TypeOK, Types, StoreType
<1> QED BY <1>1, TypesInvariant, PTL

-----------------------------------------------------------------------------
(* Where a step leads *)

\* A recipe is executed.
Running == mode \in {"act", "enter", "reload"}

\* Board b has address, acts and flash of board c.
Alike(b, c) == b.hw = c.hw /\ b.done = c.done /\ b.conf = c.conf

\* The board has its address and acts, and its flash but for the three steps
\* that write it.
Same(b) == /\ b.hw = brd.hw /\ b.done = brd.done
           /\ b.conf = brd.conf \/ Save \/ Panel \/ WriteId

\* The kernel is asked for again, or what cannot be done is left out.
Leaps(n) == \/ Script[Act][step] = "dhcp" /\ n = step - 2
            \/ Script[Act][step] \in {"mkfs", "packet"} /\ n = step + 2

\* A step leaves the recipe where it is, or ends as Step does: at the last step
\* of the act, if the act goes on to the next one.
Goes ==
  \/ /\ UNCHANGED <<job, at>> /\ Running' /\ Same(brd')
     /\ UNCHANGED <<step, mode>> \/ Save
  \/ \E b \in Boards, did, go \in BOOLEAN, n \in Nat :
       /\ Same(b) /\ Step(b, did, go, n)
       /\ go => n = step + 1 \/ (n <= Len(Script[Act]) /\ Act # "register" /\ Leaps(n))

\* Boards that differ in what they run and in their network are alike.
LEMMA SameAddress ==
  \A b \in Boards :
    /\ Alike(Typed(b), b) /\ Alike(Booted(b), b)
    /\ \A s : Alike([b EXCEPT !.sys = s], b)
    /\ \A x : Alike([b EXCEPT !.net = x], b)
    /\ \A c : [b EXCEPT !.conf = c].hw = b.hw /\ [b EXCEPT !.conf = c].done = b.done
    /\ Saved(b).hw = b.hw /\ Saved(b).done = b.done
    /\ Alike(Booted(Typed(b)), b)
    /\ Saved(Typed(b)).hw = b.hw /\ Saved(Typed(b)).done = b.done
<1> SUFFICES ASSUME NEW b \in Boards
             PROVE  /\ Alike(Typed(b), b) /\ Alike(Booted(b), b)
                    /\ \A s : Alike([b EXCEPT !.sys = s], b)
                    /\ \A x : Alike([b EXCEPT !.net = x], b)
                    /\ \A c : /\ [b EXCEPT !.conf = c].hw = b.hw
                              /\ [b EXCEPT !.conf = c].done = b.done
                    /\ Saved(b).hw = b.hw /\ Saved(b).done = b.done
                    /\ Alike(Booted(Typed(b)), b)
                    /\ Saved(Typed(b)).hw = b.hw /\ Saved(Typed(b)).done = b.done
  OBVIOUS
<1>1. ASSUME NEW c \in Boards
      PROVE  /\ \A s : Alike([c EXCEPT !.sys = s], c)
             /\ \A x : Alike([c EXCEPT !.net = x], c)
  BY DEF Boards, Alike
<1>2. ASSUME NEW c \in Boards
      PROVE  \A x : [c EXCEPT !.conf = x].hw = c.hw /\ [c EXCEPT !.conf = x].done = c.done
  BY DEF Boards
<1>3. ASSUME NEW c \in Boards
      PROVE  /\ Alike(Typed(c), c) /\ Alike(Booted(c), c)
             /\ Saved(c).hw = c.hw /\ Saved(c).done = c.done
  BY <1>1, <1>2 DEF Typed, Booted, Saved, Alike
<1>4. Typed(b) \in Boards
  BY BoardOps
<1>5. Alike(Booted(Typed(b)), b) /\ Saved(Typed(b)).hw = b.hw /\ Saved(Typed(b)).done = b.done
  BY <1>3, <1>4 DEF Alike
<1> QED BY <1>1, <1>2, <1>3, <1>5

\* Nothing is the same as the board itself, or as one alike.
LEMMA AlikeSame == Same(brd) /\ \A b : Alike(b, brd) => Same(b)
  BY DEF Same, Alike

\* A step that leaves the recipe and the board where they are.
LEMMA GoesNowhere ==
  ASSUME UNCHANGED <<job, at>>, Running', NEW b, brd' = b, Same(b),
         UNCHANGED <<step, mode>> \/ Save
  PROVE  Goes
<1>1. Same(brd')
  BY DEF Same
<1> QED BY <1>1 DEF Goes

\* The last clause of Goes, for the next step.
LEMMA GoesOn ==
  ASSUME Types, NEW s, On(s), NEW b \in Boards, Same(b),
         NEW did \in BOOLEAN, NEW go \in BOOLEAN, Step(b, did, go, step + 1)
  PROVE  Goes
<1>1. step + 1 \in Nat
  BY OnAct
<1> QED BY <1>1 DEF Goes

\* SendTo makes one step.
LEMMA SendToGoes ==
  ASSUME Types, NEW s, On(s), NEW b \in Boards, Same(b), NEW prompt, SendTo(prompt, b)
  PROVE  Goes
<1>1. CASE mem.tmo
  <2>1. Step(brd, FALSE, TRUE, step + 1)
    BY <1>1 DEF SendTo
  <2> QED BY <2>1, GoesOn, AlikeSame DEF Types
<1>2. CASE ~mem.tmo
  <2>1. PICK heard \in BOOLEAN : Step(b, heard, TRUE, step + 1)
    BY <1>2 DEF SendTo
  <2> QED BY <2>1, GoesOn
<1> QED BY <1>1, <1>2

\* Await makes one step.
LEMMA AwaitGoes ==
  ASSUME Types, NEW s, On(s), NEW b \in Boards, Same(b), NEW said, NEW x,
         Await(said, x, b)
  PROVE  Goes
<1>1. PICK heard \in BOOLEAN : Step(b, heard, heard, step + 1)
  BY DEF Await
<1> QED BY <1>1, GoesOn

\* The steps at U-Boot, up to the start of a kernel.
LEMMA UBootGoes ==
  ASSUME Types, Sdp \/ WelcomeSkipped \/ WelcomeMissed \/ WelcomeHeard \/ UBoot \/ Nand \/ Conf
  PROVE  Goes
<1>0. brd \in Boards /\ Same(brd)
  BY AlikeSame DEF Types
<1>1. CASE Sdp
  <2>1. PICK heard \in BOOLEAN :
          Step(IF heard THEN [brd EXCEPT !.sys = "autoboot"] ELSE brd, heard, heard, step + 1)
    BY <1>1 DEF Sdp
  <2>2. (IF heard THEN [brd EXCEPT !.sys = "autoboot"] ELSE brd) \in Boards
        /\ Same(IF heard THEN [brd EXCEPT !.sys = "autoboot"] ELSE brd)
    BY <1>0, BoardOps, SameAddress, AlikeSame DEF Systems
  <2> QED BY <1>1, <2>1, <2>2, GoesOn DEF Sdp
<1>2. CASE WelcomeSkipped
  BY <1>0, <1>2, GoesOn DEF WelcomeSkipped
<1>3. CASE WelcomeMissed
  <2>1. Step(brd, FALSE, FALSE, step) /\ step \in Nat
    BY <1>3, OnAct DEF WelcomeMissed
  <2> QED BY <1>0, <2>1 DEF Goes
<1>4. CASE WelcomeHeard
  <2>1. PICK asked \in BOOLEAN, heard \in BOOLEAN :
          Step([brd EXCEPT !.sys = IF asked THEN "uboot" ELSE "password"], heard, asked, step + 1)
    BY <1>4 DEF WelcomeHeard
  <2> DEFINE b == [brd EXCEPT !.sys = IF asked THEN "uboot" ELSE "password"]
  <2>2. b \in Boards /\ Same(b)
    BY <1>0, BoardOps, SameAddress, AlikeSame DEF Systems
  <2> HIDE DEF b
  <2>3. On("welcome")
    BY <1>4 DEF WelcomeHeard
  <2> QED BY <2>1, <2>2, <2>3, GoesOn DEF b
<1>5. CASE UBoot
  <2>1. On("uboot") /\ SendTo("uboot", Typed(brd)) /\ Typed(brd) \in Boards
        /\ Same(Typed(brd))
    BY <1>0, <1>5, BoardOps, SameAddress, AlikeSame DEF UBoot
  <2> QED BY <2>1, SendToGoes
<1>6. CASE Nand
  BY <1>0, <1>6, GoesOn DEF Nand
<1>7. CASE Conf
  <2>1. On("conf") /\ Typed(brd) \in Boards /\ Same(Typed(brd))
    BY <1>0, <1>7, BoardOps, SameAddress, AlikeSame DEF Conf
  <2>2. Step(brd, FALSE, TRUE, step + 1) \/ \E heard \in BOOLEAN : Step(Typed(brd), heard, TRUE, step + 1)
    BY <1>7 DEF Conf
  <2> QED BY <1>0, <2>1, <2>2, GoesOn
<1> QED BY <1>1, <1>2, <1>3, <1>4, <1>5, <1>6, <1>7

\* setup_nor's power cycle, and the start of a kernel.
LEMMA BootGoes ==
  ASSUME Types, Save \/ Reload \/ LoadY \/ Dhcp \/ Boot
  PROVE  Goes
<1>0. brd \in Boards /\ Same(brd)
  BY AlikeSame DEF Types
<1>1. CASE Save
  <2> DEFINE b == Saved(Typed(brd))
  <2>1. On("save") /\ b \in Boards /\ Same(b)
    BY <1>0, <1>1, BoardOps, SameAddress DEF Save, Same
  <2>2. CASE SendTo("uboot", b)
    BY <2>1, <2>2, SendToGoes
  <2>3. CASE ~SendTo("uboot", b)
    <3>1. UNCHANGED <<job, at>> /\ mode' = "enter" /\ brd' = IF mem.tmo THEN brd ELSE b
      BY <1>1, <2>3 DEF Save
    <3> HIDE DEF b
    <3>2. (IF mem.tmo THEN brd ELSE b) \in Boards /\ Same(IF mem.tmo THEN brd ELSE b) /\ Running'
      BY <1>0, <2>1, <3>1 DEF Running
    <3> QED BY <1>1, <3>1, <3>2, GoesNowhere
  <2> QED BY <2>2, <2>3
<1>2. CASE Reload
  <2>1. mode = "reload" /\ \/ Step([brd EXCEPT !.sys = "autoboot"], TRUE, TRUE, step + 1)
                           \/ UNCHANGED <<place, brd>>
    BY <1>2 DEF Reload
  <2>2. [brd EXCEPT !.sys = "autoboot"] \in Boards /\ Same([brd EXCEPT !.sys = "autoboot"])
    BY <1>0, BoardOps, SameAddress, AlikeSame DEF Systems
  <2>3. CASE UNCHANGED <<place, brd>>
    BY <1>0, <2>1, <2>3, GoesNowhere DEF Running, place
  <2>4. step + 1 \in Nat
    BY <2>1 DEF Types, PlaceType
  <2> QED BY <2>1, <2>2, <2>3, <2>4 DEF Goes
<1>3. CASE LoadY
  <2> DEFINE b == IF Typed(brd).sys = "uboot" THEN Booted(Typed(brd)) ELSE Typed(brd)
  <2>1. On("loady") /\ Step(b, TRUE, TRUE, step + 1)
    BY <1>3 DEF LoadY
  <2>2. b \in Boards /\ Same(b)
    BY <1>0, BoardOps, SameAddress, AlikeSame
  <2> HIDE DEF b
  <2> QED BY <2>1, <2>2, GoesOn
<1>4. CASE Dhcp
  <2>1. On("dhcp") /\ Typed(brd) \in Boards /\ Booted(Typed(brd)) \in Boards
        /\ Same(Typed(brd)) /\ Same(Booted(Typed(brd)))
    BY <1>0, <1>4, BoardOps, SameAddress, AlikeSame DEF Dhcp
  <2>2. CASE Step(Booted(Typed(brd)), TRUE, TRUE, step + 1)
    BY <2>1, <2>2, GoesOn
  <2>3. CASE Step(Typed(brd), TRUE, TRUE, step - 2)
    <3>1. step \in 1 .. Len(Script[Act]) /\ Placed(Act, step) /\ Script[Act][step] = "dhcp"
          /\ Act \in AnyAct
      BY <2>1, OnAct
    <3>2. step - 2 \in Nat /\ step - 2 <= Len(Script[Act])
      BY <3>1, ScriptStarts DEF Placed
    <3>3. Act # "register" /\ Leaps(step - 2)
      BY <3>1 DEF Placed, Kernels, Leaps
    <3> QED BY <2>1, <2>3, <3>2, <3>3 DEF Goes
  <2> QED BY <1>4, <2>2, <2>3 DEF Dhcp
<1>5. CASE Boot
  <2>1. PICK heard \in BOOLEAN : Step([brd EXCEPT !.net = FALSE], heard, heard, step + 1)
    BY <1>5 DEF Boot
  <2>2. On("boot") /\ [brd EXCEPT !.net = FALSE] \in Boards /\ Same([brd EXCEPT !.net = FALSE])
    BY <1>0, <1>5, BoardOps, SameAddress, AlikeSame DEF Boot
  <2> QED BY <2>1, <2>2, GoesOn
<1> QED BY <1>1, <1>2, <1>3, <1>4, <1>5

\* Downloads and partitions.
LEMMA PartsGoes ==
  ASSUME Types, SetupNet \/ (\E f \in Downloads : Get(f)) \/ Parts \/ Find \/ MkFs \/ MkVol
  PROVE  Goes
<1>0. brd \in Boards /\ Same(brd) /\ mem.known \in BOOLEAN
  BY AlikeSame DEF Types, Memories
<1>1. CASE SetupNet
  <2>1. PICK f \in Downloads : On(f)
    BY <1>1 DEF SetupNet
  <2>2. UNCHANGED place /\ mode = "act"
    BY <1>1, <2>1 DEF SetupNet, On
  <2>3. UNCHANGED <<job, at, step, mode>> /\ Running'
    BY <2>2 DEF place, Running
  <2>4. CASE brd' = brd
    BY <1>0, <2>3, <2>4, GoesNowhere
  <2>5. ASSUME NEW x \in BOOLEAN, brd' = [brd EXCEPT !.net = x] PROVE Goes
    <3>1. Same([brd EXCEPT !.net = x])
      BY <1>0, SameAddress, AlikeSame
    <3> QED BY <2>3, <2>5, <3>1, GoesNowhere
  <2> QED BY <1>1, <2>4, <2>5 DEF SetupNet
<1>2. ASSUME NEW f \in Downloads, Get(f) PROVE Goes
  <2>1. On(f) /\ step \in 1 .. Len(Script[Act]) /\ Act \in AnyAct
        /\ Placed(Act, step) /\ Script[Act][step] = f
    BY <1>2, OnAct DEF Get
  <2>2. CASE \E heard \in BOOLEAN : Step(brd, heard, heard \/ f = "packet", step + 1)
    BY <1>0, <2>1, <2>2, GoesOn
  <2>3. CASE Step(brd, FALSE, f = "packet", step + 2)
    <3>1. step + 2 \in Nat /\ (f = "packet") \in BOOLEAN
      BY <2>1
    <3>2. ASSUME f = "packet" PROVE step + 2 <= Len(Script[Act]) /\ Act # "register"
      <4>1. Act = "install_regigraf" /\ step = 5
        BY <2>1, <3>2 DEF Placed
      <4>2. Len(Script["install_regigraf"]) = 8
        BY LinuxActs
      <4> QED BY <4>1, <4>2
    <3>3. f = "packet" => Leaps(step + 2)
      BY <2>1 DEF Leaps
    <3> QED BY <1>0, <2>3, <3>1, <3>2, <3>3 DEF Goes
  <2> QED BY <1>2, <2>2, <2>3 DEF Get
<1>3. CASE Parts
  <2>1. On("parts") /\ \E heard \in BOOLEAN : Step(brd, heard, TRUE, step + 1)
    <3>1. (~mem.tmo) \in BOOLEAN
      OBVIOUS
    <3> QED BY <1>3, <3>1 DEF Parts
  <2> QED BY <1>0, <2>1, GoesOn
<1>4. CASE Find
  BY <1>0, <1>4, GoesOn DEF Find
<1>5. CASE MkFs
  <2>1. On("mkfs")
    BY <1>5 DEF MkFs
  <2>2. CASE SendTo(mem.prompt, brd)
    BY <1>0, <2>1, <2>2, SendToGoes
  <2>3. CASE Step(brd, FALSE, TRUE, step + 2)
    <3>1. Act = "unpack_rootfs" /\ step \in {3, 6}
      <4>1. Placed(Act, step) /\ Script[Act][step] = "mkfs"
        BY <2>1, OnAct
      <4> QED BY <4>1 DEF Placed
    <3>2. Len(Script["unpack_rootfs"]) = 9
      BY LinuxActs
    <3>3. step + 2 \in Nat /\ step + 2 <= Len(Script[Act]) /\ Act # "register" /\ Leaps(step + 2)
      BY <2>1, <3>1, <3>2 DEF Leaps, On
    <3> QED BY <1>0, <2>3, <3>3 DEF Goes
  <2> QED BY <1>5, <2>2, <2>3 DEF MkFs
<1>6. CASE MkVol
  <2>1. On("mkvol")
    BY <1>6 DEF MkVol
  <2>2. CASE SendTo(mem.prompt, brd)
    BY <1>0, <2>1, <2>2, SendToGoes
  <2>3. CASE UNCHANGED <<place, brd>>
    BY <1>0, <2>1, <2>3, GoesNowhere DEF Running, place, On
  <2> QED BY <1>6, <2>2, <2>3 DEF MkVol
<1> QED BY <1>1, <1>2, <1>3, <1>4, <1>5, <1>6

\* The other steps in Linux.
LEMMA LinuxGoes ==
  ASSUME Types, number \in Registry!Number, Shell \/ Panel \/ WriteId \/ Switch \/ Reboot \/ Login \/ NewPassword
  PROVE  Goes
<1>0. brd \in Boards /\ Same(brd)
  BY AlikeSame DEF Types
<1>1. CASE Shell
  BY <1>0, <1>1, SendToGoes DEF Shell
<1>2. CASE Panel
  <2> DEFINE b == [brd EXCEPT !.conf = Updated(@, [panel |-> StandPanel])]
  <2>1. b \in Boards /\ Same(b)
    <3>1. \A k \in DOMAIN [panel |-> StandPanel] :
            [panel |-> StandPanel][k] \in Numbers \cup {StandPanel}
      OBVIOUS
    <3>2. brd.conf \in Seq(Row)
      BY <1>0 DEF Boards
    <3>3. Updated(brd.conf, [panel |-> StandPanel]) \in Seq(Row)
      BY <3>1, <3>2, UpdatedRows
    <3> QED BY <1>0, <1>2, <3>3, BoardOps, SameAddress DEF Same
  <2>2. On("panel") /\ SendTo(mem.prompt, b)
    BY <1>2 DEF Panel
  <2> HIDE DEF b
  <2> QED BY <2>1, <2>2, SendToGoes
<1>3. CASE WriteId
  <2> DEFINE b == [brd EXCEPT !.conf = Updated(@, [board_id |-> number])]
  <2>1. b \in Boards /\ Same(b)
    <3>1. \A k \in DOMAIN [board_id |-> number] :
            [board_id |-> number][k] \in Numbers \cup {StandPanel}
      BY DEF Numbers
    <3>2. brd.conf \in Seq(Row)
      BY <1>0 DEF Boards
    <3>3. Updated(brd.conf, [board_id |-> number]) \in Seq(Row)
      BY <3>1, <3>2, UpdatedRows
    <3> QED BY <1>0, <1>3, <3>3, BoardOps, SameAddress DEF Same
  <2>2. On("id") /\ SendTo(mem.prompt, b)
    BY <1>3 DEF WriteId
  <2> HIDE DEF b
  <2> QED BY <2>1, <2>2, SendToGoes
<1>4. CASE Switch
  <2> DEFINE b == IF brd.sys = "initramfs" THEN [brd EXCEPT !.sys = "login"] ELSE brd
  <2>1. On("switch") /\ Await(brd.sys = "initramfs", mem, b)
    BY <1>4 DEF Switch
  <2>2. b \in Boards /\ Same(b)
    BY <1>0, BoardOps, SameAddress, AlikeSame DEF Systems
  <2> HIDE DEF b
  <2> QED BY <2>1, <2>2, AwaitGoes
<1>5. CASE Reboot
  <2> DEFINE b == IF brd.sys \in Shells THEN [brd EXCEPT !.sys = "login"] ELSE brd
  <2>1. On("reboot") /\ Await(brd.sys \in Shells, mem, b)
    BY <1>5 DEF Reboot
  <2>2. b \in Boards /\ Same(b)
    BY <1>0, BoardOps, SameAddress, AlikeSame DEF Systems
  <2> HIDE DEF b
  <2> QED BY <2>1, <2>2, AwaitGoes
<1>6. CASE Login
  <2> DEFINE b == [brd EXCEPT !.sys = IF @ = "login" THEN "regigraf" ELSE @]
  <2>1. On("root") /\ (Step(brd, FALSE, TRUE, step + 1) \/ \E heard \in BOOLEAN : Step(b, heard, TRUE, step + 1))
    BY <1>6 DEF Login
  <2>2. b \in Boards /\ Same(b)
    <3>1. (IF brd.sys = "login" THEN "regigraf" ELSE brd.sys) \in Systems
      BY <1>0 DEF Boards, Systems
    <3> QED BY <1>0, <3>1, BoardOps, SameAddress, AlikeSame
  <2> HIDE DEF b
  <2> QED BY <1>0, <2>1, <2>2, GoesOn
<1>7. CASE NewPassword
  BY <1>0, <1>7, AwaitGoes DEF NewPassword
<1> QED BY <1>1, <1>2, <1>3, <1>4, <1>5, <1>6, <1>7

\* The steps that type nothing.
LEMMA RecordGoes ==
  ASSUME Types, WriteJson \/ Count \/ Validate \/ Test \/ Nothing
  PROVE  Goes
<1>0. brd \in Boards /\ Same(brd) /\ mem.known \in BOOLEAN
  BY AlikeSame DEF Types, Memories
<1>1. CASE WriteJson \/ Count \/ Test
  BY <1>0, <1>1, GoesOn DEF WriteJson, Count, Test
<1>2. CASE Validate
  <2>1. PICK good \in BOOLEAN : Step(brd, good /\ mem.known, good /\ mem.known, step + 1)
    BY <1>2 DEF Validate
  <2>2. On("validate") /\ (good /\ mem.known) \in BOOLEAN
    BY <1>0, <1>2 DEF Validate
  <2> QED BY <1>0, <2>1, <2>2, GoesOn
<1>3. CASE Nothing
  <2>1. Step(brd, FALSE, FALSE, step) /\ step \in Nat
    BY <1>3, OnAct DEF Nothing
  <2> QED BY <1>0, <2>1 DEF Goes
<1> QED BY <1>1, <1>2, <1>3

\* All steps but the one that makes the address.
LEMMA WorkGoes == ASSUME Types, number \in Registry!Number, Work, ~HwAddr PROVE Goes
<1>1. CASE Sdp \/ WelcomeSkipped \/ WelcomeMissed \/ WelcomeHeard \/ UBoot \/ Nand \/ Conf
  BY <1>1, UBootGoes
<1>2. CASE Save \/ Reload \/ LoadY \/ Dhcp \/ Boot
  BY <1>2, BootGoes
<1>3. CASE SetupNet \/ (\E f \in Downloads : Get(f)) \/ Parts \/ Find \/ MkFs \/ MkVol
  BY <1>3, PartsGoes
<1>4. CASE Shell \/ Panel \/ WriteId \/ Switch \/ Reboot \/ Login \/ NewPassword
  BY <1>4, LinuxGoes
<1>5. CASE WriteJson \/ Count \/ Validate \/ Test \/ Nothing
  BY <1>5, RecordGoes
<1> QED BY <1>1, <1>2, <1>3, <1>4, <1>5 DEF Work

\* Step: what a step has made of the recipe, if it goes on with the next act.
LEMMA Passed ==
  ASSUME Types, NEW b \in Boards, NEW did \in BOOLEAN, NEW go \in BOOLEAN, NEW n \in Nat,
         Step(b, did, go, n), go => n = step + 1 \/ n <= Len(Script[Act])
  PROVE  /\ job' = job /\ brd'.hw = b.hw /\ brd'.conf = b.conf /\ brd'.sys = b.sys
         /\ \/ at' = at
            \/ mode' = "asked"
            \/ /\ mode' = "act" /\ at' = at + 1 /\ step = Len(Script[Act]) /\ ~mem'.tmo
<1>1. brd'.hw = b.hw /\ brd'.conf = b.conf /\ brd'.sys = b.sys
  <2>1. brd' = b \/ \E x : brd' = [b EXCEPT !.done = x]
    BY DEF Step
  <2> QED BY <2>1 DEF Boards
<1>2. CASE go /\ n <= Len(Script[Act])
  BY <1>1, <1>2 DEF Step
<1>3. CASE ~(go /\ n <= Len(Script[Act]))
  <2>1. job' = job /\ EndAct(go)
    BY <1>3 DEF Step
  <2>2. CASE go /\ ~mem'.tmo
    <3>1. step = Len(Script[Act])
      <4>1. Len(Script[Act]) \in Nat /\ step \in 1 .. Len(Script[Act])
        BY OnPlace, ScriptStarts DEF Types, PlaceType
      <4>2. step + 1 > Len(Script[Act])
        BY <1>3, <2>2, <4>1
      <4> QED BY <4>1, <4>2
    <3> QED BY <1>1, <2>1, <2>2, <3>1 DEF EndAct
  <2>3. CASE ~(go /\ ~mem'.tmo)
    BY <1>1, <2>1, <2>3 DEF EndAct
  <2> QED BY <2>2, <2>3
<1> QED BY <1>2, <1>3

-----------------------------------------------------------------------------
(* Addresses *)

\* While a recipe is executed, a board whose root file system was unpacked, and
\* that was not registered since, has the program's number in its address.
AddressMade ==
  Running => \A k \in 1 .. at - 1 :
    Plan[job][k] = "unpack_rootfs" /\ (\A m \in k + 1 .. at - 1 : Plan[job][m] # "register")
      => brd.hw = number

\* The inductive invariant.
AddressInv == AddressMade /\ RegisteredHasAddress

\* Stays or passes: what the step makes of AddressMade.
LEMMA PassedAddress ==
  ASSUME AddressMade, Running, Types, job' = job,
         \/ at' = at /\ brd'.hw = brd.hw /\ number' = number
         \/ mode' = "asked"
         \/ /\ at' = at + 1 /\ brd'.hw = brd.hw /\ Act # "unpack_rootfs"
            /\ number' = number \/ Act = "register"
         \/ at' = at + 1 /\ brd'.hw = number /\ number' = number
  PROVE  AddressMade'
<1>0. at \in Nat /\ job.acts \in Seq(Acts)
  <2>1. job.acts \in Seq(Acts)
    BY ProvisionAssumption DEF Types, PlaceType
  <2> QED BY <2>1 DEF Types, PlaceType
<1>1. CASE mode' = "asked"
  BY <1>1 DEF AddressMade, Running
<1>2. CASE at' = at /\ brd'.hw = brd.hw /\ number' = number
  BY <1>2 DEF AddressMade
<1>3. CASE at' = at + 1 /\ brd'.hw = number /\ number' = number
  BY <1>3 DEF AddressMade
<1>4. CASE /\ at' = at + 1 /\ brd'.hw = brd.hw /\ Act # "unpack_rootfs"
           /\ number' = number \/ Act = "register"
  <2> SUFFICES ASSUME NEW k \in 1 .. at' - 1, Plan[job][k] = "unpack_rootfs",
                      \A m \in k + 1 .. at' - 1 : Plan[job][m] # "register"
               PROVE  brd'.hw = number'
    BY DEF AddressMade
  <2>1. k # at
    BY <1>4 DEF Act
  <2>2. k \in 1 .. at - 1 /\ at \in k + 1 .. at' - 1
    BY <1>0, <1>4, <2>1
  <2>3. Act # "register"
    BY <2>2 DEF Act
  <2>4. \A m \in k + 1 .. at - 1 : Plan[job][m] # "register"
    BY <1>0, <1>4
  <2> QED BY <1>4, <2>2, <2>3, <2>4 DEF AddressMade
<1> QED BY <1>1, <1>2, <1>3, <1>4

\* Every step but Reload is one of a script, and only HwAddr is "hwaddr".
LEMMA WorkIsOn ==
  ASSUME Work, ~HwAddr
  PROVE  \/ mode = "reload"
         \/ mode = "act" /\ Script[Act][step] # "hwaddr"
<1>1. CASE Sdp \/ WelcomeSkipped \/ WelcomeMissed \/ WelcomeHeard \/ UBoot \/ Save \/ Reload
  BY <1>1 DEF Sdp, WelcomeSkipped, WelcomeMissed, WelcomeHeard, UBoot, Save, Reload, On
<1>2. CASE Nand \/ Conf \/ LoadY \/ Dhcp \/ Boot
  BY <1>2 DEF Nand, Conf, LoadY, Dhcp, Boot, On
<1>3. CASE Shell \/ SetupNet \/ (\E f \in Downloads : Get(f)) \/ Parts \/ Find \/ MkFs
  <2>1. \A f \in Downloads : f # "hwaddr"
    BY DEF Downloads
  <2> QED BY <1>3, <2>1 DEF Shell, SetupNet, Get, Parts, Find, MkFs, On
<1>4. CASE MkVol \/ Panel \/ Switch \/ Reboot \/ Login \/ WriteId \/ NewPassword
  BY <1>4 DEF MkVol, Panel, Switch, Reboot, Login, WriteId, NewPassword, On
<1>5. CASE WriteJson \/ Count \/ Validate \/ Test \/ Nothing
  BY <1>5 DEF WriteJson, Count, Validate, Test, Nothing, On
<1> QED BY <1>1, <1>2, <1>3, <1>4, <1>5 DEF Work

\* Whatever the program does at a board keeps its address the program's number.
LEMMA WorkAddress ==
  ASSUME AddressMade, Types, number \in Registry!Number, Work
  PROVE  AddressMade'
<1>0. Running /\ brd \in Boards
  <2>1. Running
    <3>1. CASE HwAddr
      BY <3>1 DEF HwAddr, On, Running
    <3>2. CASE ~HwAddr
      BY <3>2, WorkIsOn DEF On, Running
    <3> QED BY <3>1, <3>2
  <2> QED BY <2>1 DEF Types
<1>1. CASE HwAddr
  <2>1. SendTo(mem.prompt, [brd EXCEPT !.hw = number]) /\ number' = number /\ On("hwaddr")
    BY <1>1 DEF HwAddr, store
  <2>2. step + 1 \in Nat
    BY <2>1, OnAct
  <2>3. CASE mem.tmo
    <3>1. Step(brd, FALSE, TRUE, step + 1) /\ mem' = mem
      BY <2>1, <2>3 DEF SendTo
    <3>2. job' = job /\ brd'.hw = brd.hw /\ (at' = at \/ mode' = "asked")
      BY <1>0, <2>2, <2>3, <3>1, Passed
    <3> QED BY <1>0, <2>1, <3>2, PassedAddress
  <2>4. CASE ~mem.tmo
    <3> DEFINE b == [brd EXCEPT !.hw = number]
    <3>1. PICK heard \in BOOLEAN : Step(b, heard, TRUE, step + 1)
      BY <2>1, <2>4 DEF SendTo
    <3>2. b \in Boards /\ b.hw = number
      BY <1>0 DEF Boards, Numbers
    <3> HIDE DEF b
    <3>3. /\ job' = job /\ brd'.hw = number
          /\ \/ at' = at
             \/ mode' = "asked"
             \/ at' = at + 1
      BY <2>2, <3>1, <3>2, Passed
    <3>4. at' # at \/ mode' = "asked"
      <4>1. step = 9 /\ Act = "unpack_rootfs"
        <5>1. Placed(Act, step) /\ Script[Act][step] = "hwaddr"
          BY <2>1, OnAct
        <5> QED BY <5>1 DEF Placed
      <4>2. Len(Script["unpack_rootfs"]) = 9
        BY LinuxActs
      <4>3. ~(step + 1 <= Len(Script[Act]))
        BY <4>1, <4>2
      <4>4. EndAct(TRUE)
        BY <3>1, <4>3 DEF Step, EndAct
      <4>5. at \in Nat
        BY ProvisionAssumption DEF Types, PlaceType
      <4> QED BY <4>4, <4>5 DEF EndAct
    <3> QED BY <1>0, <2>1, <3>3, <3>4, PassedAddress
  <2> QED BY <2>3, <2>4
<1>2. CASE ~HwAddr
  <2>1. Goes
    BY <1>2, WorkGoes
  <2>2. /\ job' = job /\ brd'.hw = brd.hw
        /\ \/ at' = at
           \/ mode' = "asked"
           \/ /\ mode' = "act" /\ at' = at + 1 /\ step = Len(Script[Act]) /\ ~mem'.tmo
    <3>1. CASE UNCHANGED <<job, at>> /\ Running' /\ Same(brd')
      BY <3>1 DEF Same
    <3>2. CASE \E b \in Boards, did, go \in BOOLEAN, n \in Nat :
                 /\ Same(b) /\ Step(b, did, go, n)
                 /\ go => n = step + 1 \/ n <= Len(Script[Act])
      <4>1. PICK b \in Boards, did \in BOOLEAN, go \in BOOLEAN, n \in Nat :
                 /\ Same(b) /\ Step(b, did, go, n)
                 /\ go => n = step + 1 \/ n <= Len(Script[Act])
        BY <3>2
      <4> QED BY <4>1, Passed DEF Same
    <3> QED BY <2>1, <3>1, <3>2 DEF Goes
  <2>3. number' = number \/ (Count /\ Act = "register" /\ at' # at) \/ mode' = "asked"
    <3>1. CASE ~Count
      BY <3>1, WorkKeepsStore
    <3>2. CASE Count
      <4>1. On("count") /\ Step(brd, TRUE, TRUE, step + 1)
        BY <3>2 DEF Count
      <4>2. step = 7 /\ Act = "register"
        <5>1. Placed(Act, step) /\ Script[Act][step] = "count"
          BY <4>1, OnAct
        <5> QED BY <5>1 DEF Placed
      <4>3. Len(Script["register"]) = 7
        BY LinuxActs
      <4>4. ~(step + 1 <= Len(Script[Act]))
        BY <4>2, <4>3
      <4>5. EndAct(TRUE)
        BY <4>1, <4>4 DEF Step, EndAct
      <4>6. at \in Nat
        BY ProvisionAssumption DEF Types, PlaceType
      <4> QED BY <3>2, <4>2, <4>5, <4>6 DEF EndAct
    <3> QED BY <3>1, <3>2
  <2>4. at' = at + 1 => Act # "unpack_rootfs" \/ mode' = "asked"
    <3> SUFFICES ASSUME Act = "unpack_rootfs", at' = at + 1, mode' # "asked" PROVE FALSE
      OBVIOUS
    <3>0. at' # at
      BY ProvisionAssumption DEF Types, PlaceType
    <3>1. step = Len(Script[Act])
      BY <2>2, <3>0
    <3>2. Script["unpack_rootfs"][9] = "hwaddr" /\ Len(Script["unpack_rootfs"]) = 9
      BY LinuxActs
    <3>3. Script[Act][step] = "hwaddr"
      BY <3>1, <3>2
    <3>4. mode = "reload"
      BY <1>2, <3>3, WorkIsOn DEF On
    <3> QED BY <3>4 DEF Types, PlaceType
  <2> QED BY <1>0, <2>2, <2>3, <2>4, PassedAddress
<1> QED BY <1>1, <1>2

\* AddressInv is kept by every action.
LEMMA NextAddress ==
  ASSUME AddressFirst, AddressInv, Types, number \in Registry!Number, [Next]_vars
  PROVE  AddressInv'
<1>1. AddressMade'
  <2>1. CASE Work
    BY <2>1, WorkAddress DEF AddressInv
  <2>2. CASE Start \/ NextBoard
    <3>1. at' = 1
      BY <2>2 DEF Start, NextBoard, PutBoard
    <3> QED BY <3>1 DEF AddressMade
  <2>3. CASE PowerCycle
    <3>1. UNCHANGED <<job, at, number>> /\ brd'.hw = brd.hw
      BY <2>3 DEF PowerCycle, store, Types, Boards
    <3>2. Running
      BY <2>3 DEF PowerCycle, Running
    <3> QED BY <3>1, <3>2 DEF AddressInv, AddressMade
  <2>4. CASE Stop
    BY <2>4 DEF Stop, AddressMade, Running
  <2>5. CASE UNCHANGED vars
    BY <2>5 DEF AddressInv, AddressMade, Running, vars, place, store
  <2> QED BY <2>1, <2>2, <2>3, <2>4, <2>5 DEF Next
<1>2. RegisteredHasAddress'
  <2>1. CASE WriteJson
    <3>1. On("json") /\ registered' = registered \cup
             {[board |-> board, number |-> number, hw |-> brd.hw]}
      BY <2>1 DEF WriteJson
    <3>2. Act = "register" /\ Running
      <4>1. Placed(Act, step) /\ Script[Act][step] = "json" /\ mode = "act"
        BY <3>1, OnAct
      <4> QED BY <4>1 DEF Placed, Running
    <3>3. brd.hw = number
      <4>1. job \in Jobs /\ at \in DOMAIN job.acts /\ Plan[job][at] = "register"
        BY <3>2 DEF Types, PlaceType, Act
      <4>2. PICK i \in 1 .. at - 1 : /\ Plan[job][i] = "unpack_rootfs"
                                     /\ \A m \in i + 1 .. at - 1 : Plan[job][m] # "register"
        BY <4>1 DEF AddressFirst
      <4> QED BY <3>2, <4>2 DEF AddressInv, AddressMade
    <3> QED BY <3>1, <3>3 DEF AddressInv, RegisteredHasAddress
  <2>2. CASE ~WriteJson
    <3>1. registered' = registered
      <4>1. CASE Work /\ ~Count
        BY <2>2, <4>1, WorkKeepsRest DEF store
      <4>2. CASE Count
        BY <4>2 DEF Count
      <4>3. CASE Start \/ NextBoard \/ PowerCycle \/ Stop \/ UNCHANGED vars
        BY <4>3 DEF Start, NextBoard, PowerCycle, Stop, vars, store
      <4> QED BY <4>1, <4>2, <4>3 DEF Next
    <3> QED BY <3>1 DEF AddressInv, RegisteredHasAddress
  <2> QED BY <2>1, <2>2
<1> QED BY <1>1, <1>2 DEF AddressInv

\* RegisterBoard: a board gets a number only after its own MAC address was made
\* of it, for every recipe that makes the address first, and whatever times out,
\* is refused or is interrupted.
THEOREM AddressOfRegistered ==
  ASSUME AddressFirst
  PROVE  Spec => []RegisteredHasAddress
<1>1. Init => AddressInv
  BY DEF Init, AddressInv, AddressMade, Running, RegisteredHasAddress
<1>2. AddressInv /\ Types /\ StoreType /\ [Next]_vars => AddressInv'
  BY NextAddress DEF StoreType
<1>3. AddressInv => RegisteredHasAddress
  BY DEF AddressInv
<1> QED BY <1>1, <1>2, <1>3, TypesInvariant, PTL DEF Spec

-----------------------------------------------------------------------------
(* A recipe is executed in full *)

\* The steps that end in U-Boot's prompt, and the acts that have them.
Welcoming == UBootUsers \cup {"enter_uboot"}
Calling   == {"welcome", "nand", "uboot", "conf"}

AtUBoot == {"rom", "autoboot", "uboot"}
Linux   == {"initramfs", "login", "regigraf"}

\* Which steps follow each other.
Follows(a, i) ==
  /\ Script[a][i] \in {"dhcp", "loady"} => Script[a][i + 1] = "boot" /\ i + 1 <= Len(Script[a])
  /\ Script[a][i] = "dhcp" => Script[a][i - 2] = "welcome"
  /\ Script[a][i] \in {"conf", "boot"} => i + 1 <= Len(Script[a])
  /\ i + 1 <= Len(Script[a]) /\ Script[a][i + 1] \in {"dhcp", "loady"} => Script[a][i] = "conf"
  /\ i + 1 <= Len(Script[a]) /\ Script[a][i + 1] = "boot" => Script[a][i] \in {"dhcp", "loady"}
  /\ Script[a][i] = "switch" => a = "install_regigraf" /\ i = 2
  /\ Script[a][i] = "reboot" => a = "setup_booting"
  /\ a = "unpack_rootfs" /\ i = 2 => Script[a][i] = "shell"
  /\ a = "install_regigraf" /\ i = 3 => Script[a][i] = "root"
  /\ a \in Welcoming /\ Script[a][i] \in {"welcome", "nand"} /\ i + 1 <= Len(Script[a])
       => Script[a][i + 1] \in Calling
  /\ a \in UBootUsers /\ Script[a][i] \in {"welcome", "nand"} => i + 1 <= Len(Script[a])
  /\ i = 1 => Script[a][i] \notin {"dhcp", "loady", "boot"}
  /\ i = 1 /\ a \in Welcoming => Script[a][i] \in Calling

\* They do, in every script.
LEMMA Order == \A a \in AnyAct : \A i \in 1 .. Len(Script[a]) : Follows(a, i)
<1> SUFFICES ASSUME NEW a \in AnyAct, NEW i \in 1 .. Len(Script[a]) PROVE Follows(a, i)
  OBVIOUS
<1> USE DEF Follows, Welcoming, UBootUsers, Kernels, Calling
<1>1. CASE a = "kernel_uart"
  BY <1>1, UBootActs
<1>2. CASE a = "kernel_eth"
  BY <1>2, UBootActs
<1>3. CASE a = "kernel_dbg"
  <2>1. Script[a] = <<"welcome", "uboot", "welcome", "conf", "dhcp", "boot", "shell",
                      "modules", "shell">>
    BY <1>3, UBootActs
  <2>2. i \in 1 .. 9
    BY <2>1
  <2>3. i = 1 \/ i = 2 \/ i = 3 \/ i = 4 \/ i = 5 \/ i = 6 \/ i = 7 \/ i = 8 \/ i = 9
    BY <2>2
  <2>4. i \in {1, 2, 3} => Follows(a, i)
    BY <1>3, <2>1
  <2>5. i \in {4, 5, 6} => Follows(a, i)
    BY <1>3, <2>1
  <2>6. i \in {7, 8, 9} => Follows(a, i)
    BY <1>3, <2>1
  <2> QED BY <2>3, <2>4, <2>5, <2>6
<1>4. CASE a = "kernel_old_sys"
  <2>1. Script[a] = <<"welcome", "nand", "welcome", "conf", "dhcp", "boot", "shell">>
    BY <1>4, UBootActs
  <2>2. i \in 1 .. 7
    BY <2>1
  <2> QED BY <1>4, <2>1, <2>2
<1>5. CASE a \in {"uboot", "enter_uboot", "setup_nor"}
  <2>1. a \in {"uboot", "enter_uboot"} => Follows(a, i)
    BY UBootActs
  <2>2. ASSUME a = "setup_nor" PROVE Follows(a, i)
    <3>1. Script[a] = <<"welcome", "uboot", "save">>
      BY <2>2, UBootActs
    <3>2. i \in 1 .. 3
      BY <3>1
    <3> QED BY <2>2, <3>1, <3>2
  <2> QED BY <1>5, <2>1, <2>2
<1>6. CASE a \in {"rootfs", "mtd_utils", "validate_hw", "install_firmware"}
  BY <1>6, LinuxActs, SMTT(30)
<1>11. CASE a \in {"test_hw", "nothing", "setup_booting"}
  BY <1>11, LinuxActs, SMTT(30)
<1>7. CASE a \in {"install_kernel", "install_uboot"}
  <2>1. ASSUME a = "install_kernel" PROVE Follows(a, i)
    <3>1. Script[a] = <<"image", "parts", "find", "shell", "modules", "shell">>
      BY <2>1, LinuxActs
    <3>2. i \in 1 .. 6
      BY <3>1
    <3> QED BY <2>1, <3>1, <3>2
  <2>2. ASSUME a = "install_uboot" PROVE Follows(a, i)
    <3>1. Script[a] = <<"bootloader", "parts", "find", "shell", "panel">>
      BY <2>2, LinuxActs
    <3>2. i \in 1 .. 5
      BY <3>1
    <3> QED BY <2>2, <3>1, <3>2
  <2> QED BY <1>7, <2>1, <2>2
<1>8. CASE a = "install_regigraf"
  <2>1. Script[a] = <<"shell", "switch", "root", "shell", "packet", "shell", "shell", "license">>
    BY <1>8, LinuxActs
  <2>2. i \in 1 .. 8
    BY <2>1
  <2>3. i \in {1, 2, 3, 4} => Follows(a, i)
    BY <1>8, <2>1
  <2>4. i \in {5, 6, 7, 8} => Follows(a, i)
    BY <1>8, <2>1
  <2> QED BY <2>2, <2>3, <2>4
<1>9. CASE a = "unpack_rootfs"
  <2>1. Script[a] = <<"parts", "shell", "mkfs", "mkvol", "shell", "mkfs", "mkvol", "shell",
                      "hwaddr">>
    BY <1>9, LinuxActs
  <2>2. i \in 1 .. 9
    BY <2>1
  <2> QED BY <1>9, <2>1, <2>2
<1>10. CASE a = "register"
  <2>1. Script[a] = <<"root", "id", "new", "retype", "shell", "json", "count">>
    BY <1>10, LinuxActs
  <2>2. i \in 1 .. 7
    BY <2>1
  <2> QED BY <1>10, <2>1, <2>2
<1> QED BY <1>1, <1>2, <1>3, <1>4, <1>5, <1>6, <1>7, <1>8, <1>9, <1>10, <1>11 DEF AnyAct, Acts

\* A board that is not in Linux yet, or that is there since a boot the program has
\* read to its end, which resets g_already_has_been and names the partitions.
Settled(sys, m) == sys \in AtUBoot \/ (sys \in Linux /\ ~m.been /\ m.known)

\* The system that a board runs when step i of act a is next.
Right(sys, m, a, i) ==
  /\ Script[a][i] = "boot" \/ Settled(sys, m)
  /\ Script[a][i] \in {"dhcp", "loady"} => sys = "uboot"
  /\ a = "unpack_rootfs" /\ i > 2 => sys \in Shells
  /\ a = "install_regigraf" /\ i > 3 => sys = "regigraf"

\* All acts before this one were done in full, and this one so far.
Complete ==
  /\ whole /\ brd.done = {Plan[job][k] : k \in 1 .. at - 1}
  /\ \A k \in 1 .. at - 1 : Plan[job][k] # "nothing"
  /\ Right(brd.sys, mem, Act, step)

\* The welcome was skipped that another board has said: a command for U-Boot, now
\* or in a later act, will not be answered.
Missed ==
  /\ mode = "act" /\ mem.been /\ ~mem.wait /\ brd.sys \in {"rom", "autoboot"}
  /\ Act \in Welcoming => Script[Act][step] \in Calling
  /\ Act \in UBootUsers \/ \E m \in DOMAIN job.acts : m > at /\ Plan[job][m] \in UBootUsers

\* While nothing has timed out, one or the other is the case.
Progress == Running /\ ~mem.tmo => Complete \/ Missed

\* A recipe that is done was done in full.
Finished ==
  mode = "asked" /\ result = "done" =>
    /\ brd.done = {Plan[job][k] : k \in DOMAIN job.acts}
    /\ \A k \in DOMAIN job.acts : Plan[job][k] # "nothing"

ProgressInv == Progress /\ Finished

-----------------------------------------------------------------------------
\* A step that times out, or that leaves the recipe where it is, ends no recipe
\* as done.
LEMMA LateEnds ==
  ASSUME Running, Goes, mem'.tmo
  PROVE  ProgressInv'
<1>1. Running' \/ (mode' = "asked" /\ result' = "failed")
  <2>1. CASE Running'
    BY <2>1
  <2>2. ASSUME NEW b, NEW did, NEW go, NEW n, Step(b, did, go, n), ~Running'
        PROVE  mode' = "asked" /\ result' = "failed"
    <3>1. CASE go /\ n <= Len(Script[Act])
      BY <2>2, <3>1 DEF Step, Running
    <3>2. CASE ~(go /\ n <= Len(Script[Act]))
      BY <2>2, <3>2 DEF Step, EndAct
    <3> QED BY <3>1, <3>2
  <2> QED BY <2>1, <2>2 DEF Goes
<1> QED BY <1>1 DEF ProgressInv, Progress, Finished, Running

\* What a step has to make of a board whose acts were done so far.
Turn(b, did, go, n) ==
  go /\ ~mem'.tmo => /\ Act # "nothing" /\ did
                     /\ IF n <= Len(Script[Act]) THEN Right(b.sys, mem', Act, n)
                                                 ELSE Settled(b.sys, mem')

\* What a step has to make of a board whose welcome was missed.
Slide(b, did, go, n) ==
  go /\ ~mem'.tmo =>
    /\ Act # "nothing" /\ b.sys \in {"rom", "autoboot"} /\ mem'.been /\ ~mem'.wait
    /\ Act \in Welcoming => Script[Act][step] \in {"welcome", "nand"} /\ n = step + 1

\* ExecuteRecipe: the recipe fails if an act has answered false or something has
\* timed out.
LEMMA FailedStep ==
  ASSUME Running, NEW b, NEW did, NEW go, NEW n, Step(b, did, go, n), ~go \/ mem'.tmo
  PROVE  ProgressInv'
<1>1. (Running' /\ mem'.tmo) \/ (mode' = "asked" /\ result' = "failed")
  <2>1. CASE go /\ n <= Len(Script[Act])
    BY <2>1 DEF Step, Running
  <2>2. CASE ~(go /\ n <= Len(Script[Act]))
    BY <2>2 DEF Step, EndAct
  <2> QED BY <2>1, <2>2
<1> QED BY <1>1 DEF ProgressInv, Progress, Finished, Running

\* The recipe and its acts have the types that the next lemmas need.
LEMMA RecipeType ==
  ASSUME PlaceType
  PROVE  /\ at \in Nat \ {0} /\ Len(job.acts) \in Nat /\ DOMAIN job.acts = 1 .. Len(job.acts)
         /\ at <= Len(job.acts) /\ Len(Script[Act]) \in Nat /\ Act = Plan[job][at]
<1>1. job.acts \in Seq(Acts)
  BY ProvisionAssumption DEF PlaceType
<1>2. Len(Script[Act]) \in Nat
  BY OnPlace, ScriptStarts
<1> QED BY <1>1, <1>2 DEF PlaceType, Act

\* From a board whose acts were done.
LEMMA TurnEnds ==
  ASSUME Types, Complete, Running, NEW b \in Boards, NEW did \in BOOLEAN, NEW go \in BOOLEAN,
         NEW n \in Nat, Step(b, did, go, n), b.done = brd.done, Turn(b, did, go, n),
         mode = "act" \/ n > Len(Script[Act])
  PROVE  ProgressInv'
<1>1. CASE ~go \/ mem'.tmo
  BY <1>1, FailedStep
<1>2. CASE go /\ ~mem'.tmo /\ n <= Len(Script[Act])
  <2>0. Len(Script[Act]) \in Nat
    BY RecipeType DEF Types
  <2>1. /\ step' = n /\ whole' /\ brd' = b /\ UNCHANGED <<job, at, mode, result>>
        /\ Right(b.sys, mem', Act, n) /\ mode = "act"
    BY <1>2, <2>0 DEF Step, Turn, Complete
  <2>2. Act' = Act
    BY <2>1 DEF Act
  <2>3. Right(brd'.sys, mem', Act', step')
    BY <2>1, <2>2
  <2>4. Complete'
    BY <2>1, <2>3 DEF Complete
  <2> QED BY <2>1, <2>4 DEF ProgressInv, Progress, Finished
<1>3. CASE go /\ ~mem'.tmo /\ n > Len(Script[Act])
  <2>0. ~(n <= Len(Script[Act])) /\ whole
    BY <1>3, RecipeType DEF Types, Complete
  <2>1. /\ step' = 1 /\ whole' = TRUE /\ job' = job /\ Settled(b.sys, mem')
        /\ Act # "nothing" /\ did
    BY <1>3, <2>0 DEF Step, Turn, EndAct
  <2>2. brd' = [b EXCEPT !.done = @ \cup {Act}] /\ EndAct(TRUE)
    BY <1>3, <2>0, <2>1 DEF Step, EndAct
  <2>3. brd'.sys = b.sys /\ brd'.done = {Plan[job][k] : k \in 1 .. at}
    <3>1. brd'.sys = b.sys /\ brd'.done = brd.done \cup {Act}
      BY <2>2 DEF Boards
    <3>2. 1 .. at = (1 .. at - 1) \cup {at} /\ Act = Plan[job][at]
      BY RecipeType DEF Types
    <3>3. {Plan[job][k] : k \in 1 .. at} = {Plan[job][k] : k \in 1 .. at - 1} \cup {Act}
      BY <3>2
    <3> QED BY <3>1, <3>3 DEF Complete
  <2>4. \A k \in 1 .. at : Plan[job][k] # "nothing"
    <3>1. \A k \in 1 .. at : k \in 1 .. at - 1 \/ k = at
      BY RecipeType DEF Types
    <3> QED BY <2>1, <3>1 DEF Complete, Act
  <2>5. CASE at < Len(job.acts)
    <3>1. mode' = "act" /\ at' = at + 1
      BY <1>3, <2>2, <2>5 DEF EndAct
    <3>2. at' \in DOMAIN job'.acts /\ at' - 1 = at
      BY <2>1, <2>5, <3>1, RecipeType DEF Types
    <3>3. Act' \in AnyAct
      BY <2>1, <3>2, ActIs DEF Act, Types, PlaceType
    <3>4. Right(brd'.sys, mem', Act', 1)
      <4>1. 1 \in 1 .. Len(Script[Act'])
        BY <3>3, ScriptStarts
      <4>2. Follows(Act', 1)
        BY <3>3, <4>1, Order
      <4> QED BY <2>1, <2>3, <4>2 DEF Follows, Right
    <3>5. Complete'
      BY <2>1, <2>3, <2>4, <3>2, <3>4 DEF Complete
    <3> QED BY <3>1, <3>5 DEF ProgressInv, Progress, Finished
  <2>6. CASE ~(at < Len(job.acts))
    <3>1. mode' = "asked"
      BY <1>3, <2>2, <2>6 DEF EndAct
    <3>2. DOMAIN job'.acts = 1 .. at
      BY <2>1, <2>6, RecipeType DEF Types
    <3>3. Finished'
      BY <2>1, <2>3, <2>4, <3>2 DEF Finished
    <3> QED BY <3>1, <3>3 DEF ProgressInv, Progress, Running
  <2> QED BY <2>5, <2>6
<1> QED BY <1>1, <1>2, <1>3, RecipeType DEF Types

\* From a board whose welcome was missed.
LEMMA SlideEnds ==
  ASSUME Types, Missed, NEW b \in Boards, NEW did \in BOOLEAN, NEW go \in BOOLEAN,
         NEW n \in Nat, Step(b, did, go, n), Slide(b, did, go, n)
  PROVE  ProgressInv'
<1>0. Running
  BY DEF Missed, Running
<1>1. CASE ~go \/ mem'.tmo
  BY <1>0, <1>1, FailedStep
<1>2. CASE go /\ ~mem'.tmo /\ n <= Len(Script[Act])
  <2>1. step' = n /\ brd' = b /\ UNCHANGED <<job, at, mode, result>>
    BY <1>2 DEF Step
  <2>2. Act' = Act
    BY <2>1 DEF Act
  <2>3. Act \in Welcoming => Script[Act][n] \in Calling
    <3> SUFFICES ASSUME Act \in Welcoming PROVE Script[Act][n] \in Calling
      OBVIOUS
    <3>1. Script[Act][step] \in {"welcome", "nand"} /\ n = step + 1
      BY <1>2 DEF Slide
    <3>2. Follows(Act, step)
      BY OnPlace, Order DEF Types, PlaceType
    <3> QED BY <1>2, <3>1, <3>2 DEF Follows
  <2>4. mode' = "act" /\ mem'.been /\ ~mem'.wait /\ brd'.sys \in {"rom", "autoboot"}
    BY <1>2, <2>1 DEF Slide, Missed
  <2>5. Act' \in UBootUsers \/ \E m \in DOMAIN job'.acts : m > at' /\ Plan[job'][m] \in UBootUsers
    BY <2>1, <2>2 DEF Missed
  <2>6. Missed'
    BY <2>1, <2>2, <2>3, <2>4, <2>5 DEF Missed
  <2> QED BY <2>4, <2>6 DEF ProgressInv, Progress, Finished
<1>3. CASE go /\ ~mem'.tmo /\ n > Len(Script[Act])
  <2>0. ~(n <= Len(Script[Act])) /\ step \in 1 .. Len(Script[Act])
    BY <1>3, RecipeType DEF Types, PlaceType
  <2>1. step' = 1 /\ job' = job /\ EndAct(TRUE)
    BY <1>3, <2>0 DEF Step, EndAct
  <2>2. brd'.sys \in {"rom", "autoboot"} /\ mem'.been /\ ~mem'.wait
    <3>1. brd' = b \/ \E x : brd' = [b EXCEPT !.done = x]
      BY DEF Step
    <3>2. brd'.sys = b.sys
      BY <3>1 DEF Boards
    <3> QED BY <1>3, <3>2 DEF Slide
  <2>3. Act \notin UBootUsers
    <3> SUFFICES ASSUME Act \in UBootUsers PROVE FALSE
      OBVIOUS
    <3>1. Script[Act][step] \in {"welcome", "nand"} /\ n = step + 1
      BY <1>3 DEF Slide, Welcoming
    <3>2. Follows(Act, step)
      BY OnPlace, Order DEF Types, PlaceType
    <3> QED BY <2>0, <3>1, <3>2 DEF Follows
  <2>4. PICK m \in DOMAIN job.acts : m > at /\ Plan[job][m] \in UBootUsers
    BY <2>3 DEF Missed
  <2>5. at < Len(job.acts)
    BY <2>4, RecipeType DEF Types
  <2>6. mode' = "act" /\ at' = at + 1
    BY <1>3, <2>1, <2>5 DEF EndAct
  <2>7. at' \in DOMAIN job'.acts /\ (m = at' \/ m > at')
    BY <2>1, <2>4, <2>5, <2>6, RecipeType DEF Types
  <2>8. Act' \in AnyAct
    BY <2>1, <2>7, ActIs DEF Act, Types, PlaceType
  <2>9. Act' \in Welcoming => Script[Act'][1] \in Calling
    <3>1. 1 \in 1 .. Len(Script[Act'])
      BY <2>8, ScriptStarts
    <3>2. Follows(Act', 1)
      BY <2>8, <3>1, Order
    <3> QED BY <3>2 DEF Follows
  <2>10. Act' \in UBootUsers \/ \E k \in DOMAIN job'.acts : k > at' /\ Plan[job'][k] \in UBootUsers
    <3>1. CASE m = at'
      BY <2>1, <2>4, <3>1 DEF Act
    <3>2. CASE m > at'
      BY <2>1, <2>4, <3>2
    <3> QED BY <2>7, <3>1, <3>2
  <2>11. Missed'
    BY <2>1, <2>2, <2>6, <2>9, <2>10 DEF Missed
  <2> QED BY <2>6, <2>11 DEF ProgressInv, Progress, Finished
<1> QED BY <1>1, <1>2, <1>3, RecipeType DEF Types

\* A step of a script that is not the start of a kernel.
LEMMA TurnOn ==
  ASSUME NEW s, NEW b \in Boards, NEW did \in BOOLEAN, NEW go \in BOOLEAN,
         Types, Complete, On(s), s \notin {"conf", "dhcp", "loady"},
         Step(b, did, go, step + 1), b.done = brd.done,
         go /\ ~mem'.tmo =>
           /\ s # "nothing" /\ did /\ Settled(b.sys, mem')
           /\ Act = "unpack_rootfs" /\ step > 1 => b.sys \in Shells
           /\ Act = "install_regigraf" /\ step > 2 => b.sys = "regigraf"
  PROVE  ProgressInv'
<1>1. /\ mode = "act" /\ Act \in AnyAct /\ Script[Act][step] = s /\ step + 1 \in Nat /\ step \in Nat
      /\ step \in 1 .. Len(Script[Act]) /\ (s # "nothing" => Act # "nothing")
  BY OnAct
<1>2. Follows(Act, step)
  BY <1>1, Order
<1>3. step + 1 <= Len(Script[Act]) => Script[Act][step + 1] \notin {"boot", "dhcp", "loady"}
  BY <1>1, <1>2 DEF Follows
<1>4. step + 1 > 2 => step > 1
  BY <1>1
<1>5. step + 1 > 3 => step > 2
  BY <1>1
<1>6. Turn(b, did, go, step + 1)
  BY <1>1, <1>3, <1>4, <1>5 DEF Turn, Right
<1> QED BY <1>1, <1>6, TurnEnds DEF Running

\* What Complete says of a board at a step.
LEMMA CompleteOn ==
  ASSUME NEW s, Types, Complete, On(s)
  PROVE  /\ s # "boot" => Settled(brd.sys, mem)
         /\ s \in {"dhcp", "loady"} => brd.sys = "uboot"
         /\ Act = "unpack_rootfs" /\ step > 1 /\ s # "shell" => brd.sys \in Shells
         /\ Act = "install_regigraf" /\ step > 2 /\ s # "root" => brd.sys = "regigraf"
<1>1. /\ Act \in AnyAct /\ Script[Act][step] = s /\ step \in Nat /\ step \in 1 .. Len(Script[Act])
  BY OnAct
<1>2. Follows(Act, step)
  BY <1>1, Order
<1>3. Act = "unpack_rootfs" /\ step > 1 /\ s # "shell" => step > 2
  BY <1>1, <1>2 DEF Follows
<1>4. Act = "install_regigraf" /\ step > 2 /\ s # "root" => step > 3
  BY <1>1, <1>2 DEF Follows
<1> QED BY <1>1, <1>3, <1>4 DEF Complete, Right

\* A step after which the board runs what it ran.
LEMMA StillOn ==
  ASSUME NEW s, NEW b \in Boards, NEW did \in BOOLEAN, NEW go \in BOOLEAN,
         Types, Complete, On(s), s \notin {"conf", "dhcp", "loady", "boot", "root", "shell"},
         Step(b, did, go, step + 1), b.done = brd.done, b.sys = brd.sys,
         go /\ ~mem'.tmo => /\ s # "nothing" /\ did
                            /\ mem'.been = mem.been /\ mem'.known = mem.known
  PROVE  ProgressInv'
<1>1. /\ go /\ ~mem'.tmo => Settled(b.sys, mem')
      /\ Act = "unpack_rootfs" /\ step > 1 => b.sys \in Shells
      /\ Act = "install_regigraf" /\ step > 2 => b.sys = "regigraf"
  BY CompleteOn DEF Settled
<1> QED BY <1>1, TurnOn

\* A command that its prompt answers.
LEMMA SendToOn ==
  ASSUME NEW s, NEW b \in Boards, NEW prompt, Types, Complete, ~mem.tmo, On(s),
         s \notin {"conf", "dhcp", "loady", "boot", "root", "nothing"},
         b.done = brd.done, SendTo(prompt, b),
         \/ prompt = "uboot" /\ Act \notin {"unpack_rootfs", "install_regigraf"}
         \/ prompt \in Shells /\ b.sys = brd.sys
  PROVE  ProgressInv'
<1>1. PICK heard \in BOOLEAN :
        /\ Hear(b.sys = prompt, heard) /\ mem' = [mem EXCEPT !.tmo = ~heard]
        /\ Step(b, heard, TRUE, step + 1)
  BY DEF SendTo
<1>2. heard => b.sys = prompt
  BY <1>1 DEF Hear
<1>3. mem'.tmo = ~heard /\ mem'.been = mem.been /\ mem'.known = mem.known
  BY <1>1 DEF Types, Memories
<1>4. heard => Settled(b.sys, mem')
  BY <1>2, <1>3, CompleteOn DEF Settled, AtUBoot
<1>5. /\ heard /\ Act = "unpack_rootfs" => b.sys \in Shells
      /\ heard /\ Act = "install_regigraf" /\ step > 2 => b.sys = "regigraf"
  BY <1>2, CompleteOn DEF Shells
<1> QED BY <1>1, <1>3, <1>4, <1>5, TurnOn

\* A step that leaves the recipe where it is.
LEMMA StayOn ==
  ASSUME Complete, Running, UNCHANGED <<job, at, step, whole>>, Running',
         brd'.done = brd.done,
         mem'.tmo \/ Right(brd'.sys, mem', Act, step)
  PROVE  ProgressInv'
<1>1. Act' = Act
  BY DEF Act
<1>2. mem'.tmo \/ Complete'
  BY <1>1 DEF Complete
<1> QED BY <1>2 DEF ProgressInv, Progress, Finished, Running

\* Typing during the countdown ends at the prompt for a password.
LEMMA TypedSys ==
  ASSUME Types, Password
  PROVE  /\ Typed(brd).sys = IF brd.sys = "autoboot" THEN "password" ELSE brd.sys
         /\ Typed(brd) \in Boards /\ Typed(brd).done = brd.done
  BY DEF Typed, Types, Boards, Systems

\* From a board whose acts were done, at U-Boot.
LEMMA CompleteUBoot ==
  ASSUME Password, Types, Complete, ~mem.tmo,
         Sdp \/ WelcomeMissed \/ WelcomeHeard \/ UBoot \/ Nand \/ Conf
         \/ (WelcomeSkipped /\ brd.sys = "uboot")
  PROVE  ProgressInv'
<1>0. brd \in Boards /\ mem \in Memories
  BY DEF Types
<1>1. CASE Sdp
  <2>1. PICK heard \in BOOLEAN :
          Step(IF heard THEN [brd EXCEPT !.sys = "autoboot"] ELSE brd, heard, heard, step + 1)
    BY <1>1 DEF Sdp
  <2> DEFINE b == IF heard THEN [brd EXCEPT !.sys = "autoboot"] ELSE brd
  <2>2. b \in Boards /\ b.done = brd.done /\ (heard => b.sys = "autoboot")
    BY <1>0 DEF Boards, Systems
  <2> HIDE DEF b
  <2>3. On("sdp") /\ mem' = mem /\ Step(b, heard, heard, step + 1)
    BY <1>1, <2>1 DEF Sdp, b
  <2>4. Act = "uboot"
    BY <2>3, OnAct DEF Placed
  <2>5. heard => Settled(b.sys, mem')
    BY <2>2 DEF Settled, AtUBoot
  <2> QED BY <2>2, <2>3, <2>4, <2>5, TurnOn
<1>2. CASE WelcomeSkipped /\ brd.sys = "uboot"
  <2>1. On("welcome") /\ mem' = mem /\ Step(brd, brd.sys = "uboot", TRUE, step + 1)
    BY <1>2 DEF WelcomeSkipped
  <2>2. PICK did \in BOOLEAN : did /\ Step(brd, did, TRUE, step + 1)
    BY <1>2, <2>1
  <2>3. mem'.been = mem.been /\ mem'.known = mem.known
    BY <2>1
  <2> QED BY <1>0, <2>1, <2>2, <2>3, StillOn
<1>3. CASE WelcomeMissed
  <2>1. Step(brd, FALSE, FALSE, step) /\ Running
    BY <1>3 DEF WelcomeMissed, On, Running
  <2> QED BY <2>1, FailedStep
<1>4. CASE WelcomeHeard
  <2>1. PICK asked \in BOOLEAN, heard \in BOOLEAN :
          /\ mem' = [mem EXCEPT !.been = TRUE, !.tmo = @ \/ ~heard]
          /\ Step([brd EXCEPT !.sys = IF asked THEN "uboot" ELSE "password"], heard, asked, step + 1)
    BY <1>4 DEF WelcomeHeard
  <2> DEFINE b == [brd EXCEPT !.sys = IF asked THEN "uboot" ELSE "password"]
  <2>2. b \in Boards /\ b.done = brd.done /\ (asked => b.sys = "uboot")
    BY <1>0 DEF Boards, Systems
  <2> HIDE DEF b
  <2>3. On("welcome") /\ Step(b, heard, asked, step + 1)
    BY <1>4, <2>1 DEF WelcomeHeard, b
  <2>4. mem'.tmo = ~heard
    BY <1>0, <2>1 DEF Memories
  <2>5. Act \in {"enter_uboot", "setup_nor"} \cup Kernels
    BY <2>3, OnAct DEF Placed
  <2>6. Act \notin {"unpack_rootfs", "install_regigraf"}
    BY <2>5 DEF Kernels
  <2>7. asked => Settled(b.sys, mem')
    BY <2>2 DEF Settled, AtUBoot
  <2> QED BY <2>2, <2>3, <2>4, <2>6, <2>7, TurnOn
<1>5. CASE UBoot
  <2>1. On("uboot") /\ SendTo("uboot", Typed(brd))
    BY <1>5 DEF UBoot
  <2>2. Act \in {"setup_nor", "kernel_dbg"}
    BY <2>1, OnAct DEF Placed
  <2>3. Act \notin {"unpack_rootfs", "install_regigraf"}
    BY <2>2
  <2> QED BY <2>1, <2>3, TypedSys, SendToOn
<1>6. CASE Nand
  <2>1. On("nand") /\ Step(brd, TRUE, TRUE, step + 1) /\ mem' = [mem EXCEPT !.nand = TRUE]
    BY <1>6 DEF Nand
  <2>2. mem'.been = mem.been /\ mem'.known = mem.known
    BY <1>0, <2>1 DEF Memories
  <2>3. On("nand") /\ \E did \in BOOLEAN : did /\ Step(brd, did, TRUE, step + 1)
    BY <2>1
  <2> QED BY <1>0, <2>2, <2>3, StillOn
<1>7. CASE Conf
  <2>1. PICK heard \in BOOLEAN :
          /\ Hear(Typed(brd).sys = "uboot", heard)
          /\ mem' = [mem EXCEPT !.known = FALSE, !.tmo = ~heard]
          /\ Step(Typed(brd), heard, TRUE, step + 1)
    BY <1>7 DEF Conf
  <2>2. heard => Typed(brd).sys = "uboot"
    BY <2>1 DEF Hear
  <2>3. mem'.tmo = ~heard
    BY <1>0, <2>1 DEF Memories
  <2>a. On("conf")
    BY <1>7 DEF Conf
  <2>4. mode = "act" /\ Act \in Kernels /\ Act # "nothing" /\ step + 1 \in Nat
        /\ Act \in AnyAct /\ step \in 1 .. Len(Script[Act]) /\ Script[Act][step] = "conf"
    BY <2>a, OnAct DEF Placed
  <2>5. Follows(Act, step)
    BY <2>4, Order
  <2>6. Act \notin {"unpack_rootfs", "install_regigraf"}
    BY <2>4 DEF Kernels
  <2>7. Turn(Typed(brd), heard, TRUE, step + 1)
    BY <2>2, <2>3, <2>4, <2>6 DEF Turn, Right, Settled, AtUBoot
  <2> QED BY <2>1, <2>4, <2>7, TypedSys, TurnEnds DEF Running
<1> QED BY <1>1, <1>2, <1>3, <1>4, <1>5, <1>6, <1>7

\* The start of a kernel.
LEMMA CompleteBoot ==
  ASSUME Password, Types, Complete, ~mem.tmo, LoadY \/ Dhcp \/ Boot
  PROVE  ProgressInv'
<1>0. brd \in Boards /\ mem \in Memories
  BY DEF Types
<1>a. \A b \in Boards : Booted(b) \in Boards /\ Booted(b).done = b.done
                        /\ Booted(b).sys \in Linux
  BY DEF Booted, Boards, Systems, Linux
<1>1. ASSUME NEW s \in {"loady", "dhcp"}, On(s), mem' = mem,
             Step(Booted(Typed(brd)), TRUE, TRUE, step + 1)
      PROVE  ProgressInv'
  <2>1. /\ mode = "act" /\ Act \in AnyAct /\ Script[Act][step] = s /\ step + 1 \in Nat
        /\ step \in 1 .. Len(Script[Act]) /\ Act # "nothing" /\ Act \in Kernels
    BY <1>1, OnAct DEF Placed
  <2>2. Follows(Act, step)
    BY <2>1, Order
  <2>3. Script[Act][step + 1] = "boot" /\ step + 1 <= Len(Script[Act])
    BY <2>1, <2>2 DEF Follows
  <2>4. Act \notin {"unpack_rootfs", "install_regigraf"}
    BY <2>1 DEF Kernels
  <2>5. Turn(Booted(Typed(brd)), TRUE, TRUE, step + 1)
    BY <2>1, <2>3, <2>4 DEF Turn, Right
  <2>6. Booted(Typed(brd)) \in Boards /\ Booted(Typed(brd)).done = brd.done
    BY <1>a, TypedSys
  <2> QED BY <1>1, <2>1, <2>5, <2>6, TurnEnds DEF Running
<1>2. CASE LoadY
  <2>1. On("loady") /\ mem' = mem /\ brd.sys = "uboot"
    BY <1>2, CompleteOn DEF LoadY
  <2>2. Typed(brd).sys = "uboot"
    BY <2>1, TypedSys
  <2>3. Step(Booted(Typed(brd)), TRUE, TRUE, step + 1)
    BY <1>2, <2>2 DEF LoadY
  <2> QED BY <1>1, <2>1, <2>3
<1>3. CASE Dhcp
  <2>1. On("dhcp") /\ mem' = mem /\ brd.sys = "uboot"
    BY <1>3, CompleteOn DEF Dhcp
  <2>2. CASE Step(Booted(Typed(brd)), TRUE, TRUE, step + 1)
    BY <1>1, <2>1, <2>2
  <2>3. CASE Step(Typed(brd), TRUE, TRUE, step - 2)
    <3>1. /\ mode = "act" /\ Act \in AnyAct /\ Script[Act][step] = "dhcp" /\ step - 2 \in Nat
          /\ step \in 1 .. Len(Script[Act]) /\ Act # "nothing" /\ Act \in Kernels
      BY <2>1, OnAct DEF Placed
    <3>2. Follows(Act, step)
      BY <3>1, Order
    <3>3. Script[Act][step - 2] = "welcome" /\ step - 2 <= Len(Script[Act])
      BY <3>1, <3>2, ScriptStarts DEF Follows
    <3>4. Act \notin {"unpack_rootfs", "install_regigraf"}
      BY <3>1 DEF Kernels
    <3>5. Typed(brd).sys = "uboot"
      BY <2>1, TypedSys
    <3>6. Turn(Typed(brd), TRUE, TRUE, step - 2)
      BY <3>1, <3>3, <3>4, <3>5 DEF Turn, Right, Settled, AtUBoot
    <3> QED BY <2>3, <3>1, <3>6, TypedSys, TurnEnds DEF Running
  <2> QED BY <1>3, <2>2, <2>3 DEF Dhcp
<1>4. CASE Boot
  <2>1. PICK heard \in BOOLEAN :
          /\ Hear(brd.sys \in {"initramfs", "login"}, heard)
          /\ mem' = [FillInSysInfo(mem, IF heard THEN "partitions" ELSE "nothing")
                       EXCEPT !.eth = FALSE, !.been = FALSE, !.parts = FALSE,
                              !.prompt = "initramfs", !.tmo = @ \/ ~heard]
          /\ Step([brd EXCEPT !.net = FALSE], heard, heard, step + 1)
    BY <1>4 DEF Boot
  <2>2. heard => brd.sys \in {"initramfs", "login"}
    BY <2>1 DEF Hear
  <2>3. heard => ~mem'.been /\ mem'.known
    BY <1>0, <2>1 DEF FillInSysInfo, Memories
  <2>4. [brd EXCEPT !.net = FALSE] \in Boards /\ [brd EXCEPT !.net = FALSE].done = brd.done
        /\ [brd EXCEPT !.net = FALSE].sys = brd.sys
    BY <1>0 DEF Boards
  <2>5. On("boot") /\ Act \in Kernels
    BY <1>4, OnAct DEF Boot, Placed
  <2>6. Act \notin {"unpack_rootfs", "install_regigraf"}
    BY <2>5 DEF Kernels
  <2>7. heard => Settled([brd EXCEPT !.net = FALSE].sys, mem')
    BY <2>2, <2>3, <2>4 DEF Settled, Linux
  <2> DEFINE b == [brd EXCEPT !.net = FALSE]
  <2>8. b \in Boards /\ b.done = brd.done /\ (heard => Settled(b.sys, mem'))
        /\ Step(b, heard, heard, step + 1)
    BY <2>1, <2>4, <2>7
  <2> HIDE DEF b
  <2> QED BY <2>5, <2>6, <2>8, TurnOn
<1> QED BY <1>2, <1>3, <1>4

\* setup_nor's power cycle.
LEMMA CompleteSave ==
  ASSUME Password, Types, Complete, ~mem.tmo, Save \/ Reload \/ PowerCycle
  PROVE  ProgressInv'
<1>0. brd \in Boards /\ mem \in Memories
  BY DEF Types
<1>s. Saved(Typed(brd)) \in Boards /\ Saved(Typed(brd)).done = brd.done
      /\ Saved(Typed(brd)).sys = Typed(brd).sys
  <2>1. \A b \in Boards : Saved(b) \in Boards /\ Saved(b).done = b.done /\ Saved(b).sys = b.sys
    BY BoardOps DEF Saved, Boards
  <2> QED BY <2>1, TypedSys
<1>1. CASE Save
  <2>1. On("save") /\ mode = "act" /\ Act = "setup_nor"
    BY <1>1, OnAct DEF Save, Placed
  <2>2. CASE SendTo("uboot", Saved(Typed(brd)))
    BY <1>s, <2>1, <2>2, SendToOn
  <2>3. ASSUME NEW heard \in BOOLEAN,
               Hear(brd.sys = "uboot" /\ ~mem.tmo, heard),
               mem' = [FillInSysInfo(mem, "power cycle") EXCEPT !.tmo = @ \/ ~heard],
               mode' = "enter", brd' = (IF mem.tmo THEN brd ELSE Saved(Typed(brd))),
               UNCHANGED <<job, at, step, whole, result, spoiled>>
        PROVE  ProgressInv'
    <3>1. heard => brd.sys = "uboot"
      BY <2>3 DEF Hear
    <3>2. mem'.tmo = ~heard
      BY <1>0, <2>3 DEF FillInSysInfo, Memories
    <3>3. brd'.done = brd.done /\ (heard => brd'.sys = "uboot")
      BY <1>s, <2>3, <3>1, TypedSys
    <3>4. Script[Act][step] = "save"
      BY <2>1 DEF On
    <3>5. heard => Right(brd'.sys, mem', Act, step)
      BY <2>1, <3>3, <3>4 DEF Right, Settled, AtUBoot
    <3> QED BY <2>1, <2>3, <3>2, <3>3, <3>5, StayOn DEF Running
  <2> QED BY <1>1, <2>2, <2>3 DEF Save
<1>2. CASE Reload
  <2>1. mode = "reload" /\ mem' = mem
        /\ \/ Step([brd EXCEPT !.sys = "autoboot"], TRUE, TRUE, step + 1)
           \/ UNCHANGED <<place, brd>>
    BY <1>2 DEF Reload
  <2>2. CASE UNCHANGED <<place, brd>>
    <3>1. UNCHANGED <<job, at, step, whole, mode>> /\ Right(brd'.sys, mem', Act, step)
      BY <2>1, <2>2 DEF place, Complete
    <3> QED BY <2>1, <2>2, <3>1, StayOn DEF Running
  <2>3. CASE Step([brd EXCEPT !.sys = "autoboot"], TRUE, TRUE, step + 1)
    <3> DEFINE b == [brd EXCEPT !.sys = "autoboot"]
    <3>1. b \in Boards /\ b.done = brd.done /\ b.sys = "autoboot"
      BY <1>0 DEF Boards, Systems
    <3> HIDE DEF b
    <3>2. Act = "setup_nor" /\ step = 3
      BY <2>1 DEF Types, PlaceType
    <3>3. Len(Script["setup_nor"]) = 3
      BY UBootActs
    <3>4. step + 1 > Len(Script[Act]) /\ ~(step + 1 <= Len(Script[Act])) /\ step + 1 \in Nat
      BY <3>2, <3>3
    <3>5. Turn(b, TRUE, TRUE, step + 1)
      BY <3>1, <3>2, <3>4 DEF Turn, Settled, AtUBoot
    <3> QED BY <2>1, <2>3, <3>1, <3>4, <3>5, TurnEnds DEF Running, b
  <2> QED BY <2>1, <2>2, <2>3
<1>3. CASE PowerCycle
  <2>1. mode = "enter" /\ mode' = "reload" /\ UNCHANGED <<job, at, step, whole, mem>>
        /\ brd' = [brd EXCEPT !.sys = "rom", !.net = FALSE]
    BY <1>3 DEF PowerCycle
  <2>2. Act = "setup_nor" /\ step = 3
    BY <2>1 DEF Types, PlaceType
  <2>3. brd'.sys = "rom" /\ brd'.done = brd.done
    BY <1>0, <2>1 DEF Boards
  <2>4. Script["setup_nor"][3] = "save"
    BY UBootActs
  <2>5. Right(brd'.sys, mem', Act, step)
    BY <2>2, <2>3, <2>4 DEF Right, Settled, AtUBoot
  <2> QED BY <2>1, <2>3, <2>5, StayOn DEF Running
<1> QED BY <1>1, <1>2, <1>3

\* From a board whose acts were done: what is sent to a shell.
LEMMA CompleteShell ==
  ASSUME Types, Complete, ~mem.tmo, number \in Registry!Number,
         Shell \/ MkFs \/ MkVol \/ HwAddr \/ Panel \/ WriteId
  PROVE  ProgressInv'
<1>0. brd \in Boards /\ mem \in Memories /\ mem.prompt \in Shells
  BY DEF Types, Memories
<1>a. ASSUME NEW s \in {"shell", "mkfs", "mkvol"}, On(s), SendTo(mem.prompt, brd)
      PROVE  ProgressInv'
  BY <1>0, <1>a, SendToOn
<1>1. CASE Shell
  BY <1>1, <1>a DEF Shell
<1>2. CASE MkFs
  <2>1. On("mkfs")
    BY <1>2 DEF MkFs
  <2>2. mem.known
    <3>1. Act = "unpack_rootfs" /\ step \in {3, 6}
      BY <2>1, OnAct DEF Placed
    <3>2. brd.sys \in Shells /\ Settled(brd.sys, mem)
      BY <2>1, <3>1, CompleteOn
    <3> QED BY <3>2 DEF Settled, AtUBoot, Shells
  <2> QED BY <1>2, <2>1, <2>2, <1>a DEF MkFs
<1>3. CASE MkVol
  <2>1. On("mkvol") /\ mode = "act"
    BY <1>3 DEF MkVol, On
  <2>2. CASE SendTo(mem.prompt, brd)
    BY <2>1, <2>2, <1>a
  <2>3. CASE UNCHANGED <<place, mem, brd>>
    <3>1. UNCHANGED <<job, at, step, whole, mode>> /\ Right(brd'.sys, mem', Act, step)
      BY <2>1, <2>3 DEF place, Complete
    <3> QED BY <2>1, <2>3, <3>1, StayOn DEF Running
  <2> QED BY <1>3, <2>2, <2>3 DEF MkVol
<1>4. CASE HwAddr
  <2> DEFINE b == [brd EXCEPT !.hw = number]
  <2>1. b \in Boards /\ b.done = brd.done /\ b.sys = brd.sys
    BY <1>0 DEF Boards, Numbers
  <2>2. On("hwaddr") /\ SendTo(mem.prompt, b)
    BY <1>4 DEF HwAddr
  <2> HIDE DEF b
  <2> QED BY <1>0, <2>1, <2>2, SendToOn
<1>5. CASE Panel
  <2> DEFINE c == Updated(brd.conf, [panel |-> StandPanel])
             b == [brd EXCEPT !.conf = c]
  <2>1. c \in Seq(Row)
    <3>1. \A k \in DOMAIN [panel |-> StandPanel] :
            [panel |-> StandPanel][k] \in Numbers \cup {StandPanel}
      OBVIOUS
    <3>2. brd.conf \in Seq(Row)
      BY <1>0 DEF Boards
    <3> QED BY <3>1, <3>2, UpdatedRows
  <2>2. On("panel") /\ SendTo(mem.prompt, b)
    BY <1>5 DEF Panel
  <2> HIDE DEF c
  <2>3. b \in Boards /\ b.done = brd.done /\ b.sys = brd.sys
    BY <1>0, <2>1 DEF Boards
  <2> HIDE DEF b
  <2> QED BY <1>0, <2>2, <2>3, SendToOn
<1>6. CASE WriteId
  <2> DEFINE c == Updated(brd.conf, [board_id |-> number])
             b == [brd EXCEPT !.conf = c]
  <2>1. c \in Seq(Row)
    <3>1. \A k \in DOMAIN [board_id |-> number] :
            [board_id |-> number][k] \in Numbers \cup {StandPanel}
      BY DEF Numbers
    <3>2. brd.conf \in Seq(Row)
      BY <1>0 DEF Boards
    <3> QED BY <3>1, <3>2, UpdatedRows
  <2>2. On("id") /\ SendTo(mem.prompt, b)
    BY <1>6 DEF WriteId
  <2> HIDE DEF c
  <2>3. b \in Boards /\ b.done = brd.done /\ b.sys = brd.sys
    BY <1>0, <2>1 DEF Boards
  <2> HIDE DEF b
  <2> QED BY <1>0, <2>2, <2>3, SendToOn
<1> QED BY <1>1, <1>2, <1>3, <1>4, <1>5, <1>6

\* Downloads and partitions.  A packet that is not fetched would be skipped.
LEMMA CompleteGet ==
  ASSUME Types, Complete, ~mem.tmo, "packet" \notin Refusable,
         SetupNet \/ (\E f \in Downloads : Get(f)) \/ Parts \/ Find
  PROVE  ProgressInv'
<1>0. brd \in Boards /\ mem \in Memories
  BY DEF Types
<1>1. CASE SetupNet
  <2>1. PICK f \in Downloads : On(f)
    BY <1>1 DEF SetupNet
  <2>2. f # "boot" /\ mode = "act" /\ UNCHANGED place
    BY <1>1, <2>1 DEF Downloads, On, SetupNet
  <2>3. PICK heard \in BOOLEAN :
          /\ Hear(brd.sys = mem.prompt, heard)
          /\ mem' = [mem EXCEPT !.eth = TRUE, !.tmo = ~heard]
          /\ brd' = [brd EXCEPT !.net = heard]
    BY <1>1 DEF SetupNet
  <2>4. mem'.been = mem.been /\ mem'.known = mem.known
    BY <1>0, <2>3 DEF Memories
  <2>5. brd'.sys = brd.sys /\ brd'.done = brd.done
    BY <1>0, <2>3 DEF Boards
  <2>6. Right(brd'.sys, mem', Act, step)
    BY <2>4, <2>5 DEF Complete, Right, Settled
  <2>7. UNCHANGED <<job, at, step, whole, mode>>
    BY <2>2 DEF place
  <2> QED BY <2>2, <2>5, <2>6, <2>7, StayOn DEF Running
<1>2. ASSUME NEW f \in Downloads, Get(f) PROVE ProgressInv'
  <2>1. On(f) /\ Running
    BY <1>2 DEF Get, On, Running
  <2>2. f \notin {"conf", "dhcp", "loady", "boot", "root", "shell", "nothing"}
    BY DEF Downloads
  <2>3. ASSUME NEW heard \in BOOLEAN, mem' = [mem EXCEPT !.tmo = @ \/ ~heard],
               Step(brd, heard, heard \/ f = "packet", step + 1)
        PROVE  ProgressInv'
    <3>1. mem'.tmo = ~heard /\ mem'.been = mem.been /\ mem'.known = mem.known
      BY <1>0, <2>3 DEF Memories
    <3>2. (heard \/ f = "packet") \in BOOLEAN
      OBVIOUS
    <3> DEFINE go == heard \/ f = "packet"
    <3>3. go \in BOOLEAN /\ Step(brd, heard, go, step + 1)
      BY <2>3, <3>2
    <3> HIDE DEF go
    <3> QED BY <1>0, <2>1, <2>2, <3>1, <3>3, StillOn
  <2>4. ASSUME Step(brd, FALSE, f = "packet", step + 2),
               IF brd.sys \in Shells /\ (brd.sys = "regigraf" \/ brd.net)
                 THEN Refuse(f) ELSE UNCHANGED faults
        PROVE  ProgressInv'
    <3>1. f # "packet"
      <4> SUFFICES ASSUME f = "packet" PROVE FALSE
        OBVIOUS
      <4>1. Act = "install_regigraf" /\ step = 5
        BY <2>1, OnAct DEF Placed
      <4>2. brd.sys = "regigraf"
        BY <2>1, <2>2, <4>1, CompleteOn
      <4>3. Refuse("packet")
        BY <2>4, <4>2 DEF Shells
      <4> QED BY <4>3 DEF Refuse
    <3>2. Step(brd, FALSE, FALSE, step + 2)
      BY <2>4, <3>1
    <3> QED BY <2>1, <3>2, FailedStep
  <2> QED BY <1>2, <2>3, <2>4 DEF Get
<1>3. CASE Parts
  <2>1. PICK did \in BOOLEAN :
          /\ Step(brd, did, TRUE, step + 1) /\ mem' = [mem EXCEPT !.parts = TRUE, !.tmo = ~did]
    <3>1. CASE mem.parts
      <4>1. mem' = [mem EXCEPT !.parts = TRUE] /\ Step(brd, TRUE, TRUE, step + 1)
        BY <1>3, <3>1 DEF Parts
      <4>2. mem' = [mem EXCEPT !.parts = TRUE, !.tmo = ~TRUE]
        BY <1>0, <4>1 DEF Memories
      <4> QED BY <4>1, <4>2
    <3>2. CASE ~mem.parts
      BY <1>3, <3>2 DEF Parts
    <3> QED BY <3>1, <3>2
  <2>2. mem'.tmo = ~did /\ mem'.been = mem.been /\ mem'.known = mem.known
    BY <1>0, <2>1 DEF Memories
  <2>3. On("parts")
    BY <1>3 DEF Parts
  <2> QED BY <1>0, <2>1, <2>2, <2>3, StillOn
<1>4. CASE Find
  <2>1. mem.known \in BOOLEAN
    BY <1>0 DEF Memories
  <2>2. On("find") /\ Step(brd, mem.known, mem.known, step + 1) /\ mem' = mem
    BY <1>4 DEF Find
  <2> QED BY <1>0, <2>1, <2>2, StillOn
<1> QED BY <1>1, <1>2, <1>3, <1>4

\* The boots into Linux and the login, and the steps that type nothing.
LEMMA CompleteLinux ==
  ASSUME Types, Complete, ~mem.tmo,
         Switch \/ Reboot \/ Login \/ NewPassword \/ WriteJson \/ Count \/ Validate \/ Test
         \/ Nothing
  PROVE  ProgressInv'
<1>0. brd \in Boards /\ mem \in Memories
  BY DEF Types
<1>a. ASSUME NEW s \in {"switch", "reboot"}, On(s), NEW said,
             said => brd.sys \in Shells,
             Await(said, mem, IF said THEN [brd EXCEPT !.sys = "login"] ELSE brd)
      PROVE  ProgressInv'
  <2> DEFINE b == IF said THEN [brd EXCEPT !.sys = "login"] ELSE brd
  <2>1. b \in Boards /\ b.done = brd.done /\ (said => b.sys = "login")
    BY <1>0 DEF Boards, Systems
  <2>2. Await(said, mem, b)
    BY <1>a
  <2> HIDE DEF b
  <2>3. PICK heard \in BOOLEAN :
          /\ Hear(said, heard) /\ mem' = IF heard THEN mem ELSE [mem EXCEPT !.tmo = TRUE]
          /\ Step(b, heard, heard, step + 1)
    BY <2>2 DEF Await
  <2>4. heard => said
    BY <2>3 DEF Hear
  <2>5. Settled(brd.sys, mem)
    BY <1>a, CompleteOn
  <2>6. heard => Settled(b.sys, mem')
    BY <1>a, <2>1, <2>3, <2>4, <2>5 DEF Settled, AtUBoot, Linux, Shells
  <2>7. Act \in AnyAct /\ step \in 1 .. Len(Script[Act]) /\ Script[Act][step] = s
    BY <1>a, OnAct
  <2>8. (Act = "install_regigraf" /\ step = 2) \/ Act = "setup_booting"
    <3>1. Follows(Act, step)
      BY <2>7, Order
    <3> QED BY <2>7, <3>1 DEF Follows
  <2>9. /\ ~(Act = "install_regigraf" /\ step > 2)
        /\ Act # "unpack_rootfs"
    BY <2>8
  <2> QED BY <1>a, <2>1, <2>3, <2>6, <2>9, TurnOn
<1>1. CASE Switch
  <2>1. On("switch") /\ Await(brd.sys = "initramfs", mem,
           IF brd.sys = "initramfs" THEN [brd EXCEPT !.sys = "login"] ELSE brd)
    BY <1>1 DEF Switch
  <2> QED BY <2>1, <1>a DEF Shells
<1>2. CASE Reboot
  <2>1. On("reboot") /\ Await(brd.sys \in Shells, mem,
           IF brd.sys \in Shells THEN [brd EXCEPT !.sys = "login"] ELSE brd)
    BY <1>2 DEF Reboot
  <2> DEFINE said == brd.sys \in Shells
  <2>2. (said => brd.sys \in Shells)
        /\ Await(said, mem, IF said THEN [brd EXCEPT !.sys = "login"] ELSE brd)
    BY <2>1
  <2> HIDE DEF said
  <2> QED BY <2>1, <2>2, <1>a
<1>3. CASE Login
  <2> DEFINE b == [brd EXCEPT !.sys = IF @ = "login" THEN "regigraf" ELSE @]
  <2>1. PICK heard \in BOOLEAN :
          /\ Hear(brd.sys \in {"login", "regigraf"}, heard)
          /\ mem' = [mem EXCEPT !.prompt = "regigraf", !.tmo = ~heard]
          /\ Step(b, heard, TRUE, step + 1)
    BY <1>3 DEF Login
  <2>2. heard => brd.sys \in {"login", "regigraf"}
    BY <2>1 DEF Hear
  <2>3. b \in Boards /\ b.done = brd.done /\ (heard => b.sys = "regigraf")
    BY <1>0, <2>2 DEF Boards, Systems
  <2> HIDE DEF b
  <2>4. mem'.tmo = ~heard /\ mem'.been = mem.been /\ mem'.known = mem.known
    BY <1>0, <2>1 DEF Memories
  <2>5. On("root")
    BY <1>3 DEF Login
  <2>6. Settled(brd.sys, mem)
    BY <2>5, CompleteOn
  <2>7. heard => Settled(b.sys, mem') /\ b.sys \in Shells
    BY <2>2, <2>3, <2>4, <2>6 DEF Settled, AtUBoot, Linux, Shells
  <2> QED BY <2>1, <2>3, <2>4, <2>5, <2>7, TurnOn
<1>4. CASE NewPassword
  <2>1. PICK s \in {"new", "retype"} : On(s)
    BY <1>4 DEF NewPassword
  <2>2. PICK heard \in BOOLEAN :
          /\ mem' = IF heard THEN mem ELSE [mem EXCEPT !.tmo = TRUE]
          /\ Step(brd, heard, heard, step + 1)
    BY <1>4 DEF NewPassword, Await
  <2>3. heard => mem'.been = mem.been /\ mem'.known = mem.known
    BY <2>2
  <2>4. s \notin {"conf", "dhcp", "loady", "boot", "root", "shell", "nothing"}
    OBVIOUS
  <2> QED BY <1>0, <2>1, <2>2, <2>3, <2>4, StillOn
<1>5. CASE WriteJson \/ Count \/ Test
  <2>1. PICK s \in {"json", "count", "test"} : On(s)
    BY <1>5 DEF WriteJson, Count, Test
  <2>2. mem' = mem /\ \E did \in BOOLEAN : did /\ Step(brd, did, TRUE, step + 1)
    BY <1>5 DEF WriteJson, Count, Test
  <2>4. s \notin {"conf", "dhcp", "loady", "boot", "root", "shell", "nothing"}
    OBVIOUS
  <2> QED BY <1>0, <2>1, <2>2, <2>4, StillOn
<1>6. CASE Validate
  <2>1. PICK good \in BOOLEAN : Step(brd, good /\ mem.known, good /\ mem.known, step + 1)
    BY <1>6 DEF Validate
  <2>2. On("validate") /\ mem' = mem
    BY <1>6 DEF Validate
  <2>3. PICK go \in BOOLEAN : Step(brd, go, go, step + 1)
    <3>1. (good /\ mem.known) \in BOOLEAN
      OBVIOUS
    <3> QED BY <2>1, <3>1
  <2> QED BY <1>0, <2>2, <2>3, StillOn
<1>7. CASE Nothing
  <2>1. Step(brd, FALSE, FALSE, step) /\ Running
    BY <1>7 DEF Nothing, On, Running
  <2> QED BY <2>1, FailedStep
<1> QED BY <1>1, <1>2, <1>3, <1>4, <1>5, <1>6, <1>7

\* A step on a board whose welcome was missed.
LEMMA SlideOn ==
  ASSUME NEW s, NEW b \in Boards, NEW did \in BOOLEAN, NEW go \in BOOLEAN, NEW n \in Nat,
         Types, Missed, On(s), Step(b, did, go, n),
         go /\ ~mem'.tmo =>
           /\ s # "nothing" /\ b.sys \in {"rom", "autoboot"}
           /\ mem'.been = mem.been /\ mem'.wait = mem.wait
           /\ s \in Calling => s \in {"welcome", "nand"} /\ n = step + 1
  PROVE  ProgressInv'
<1>1. Script[Act][step] = s /\ (s # "nothing" => Act # "nothing")
  BY OnAct
<1>2. Slide(b, did, go, n)
  BY <1>1 DEF Slide, Missed
<1> QED BY <1>2, SlideEnds

\* A command that no prompt answers.
LEMMA SendToLost ==
  ASSUME NEW b, NEW prompt, Running, Types, ~mem.tmo, SendTo(prompt, b), b.sys # prompt
  PROVE  ProgressInv'
<1>1. PICK heard \in BOOLEAN :
        /\ Hear(b.sys = prompt, heard) /\ mem' = [mem EXCEPT !.tmo = ~heard]
        /\ Step(b, heard, TRUE, step + 1)
  BY DEF SendTo
<1>2. heard = FALSE
  BY <1>1 DEF Hear
<1>3. mem'.tmo
  BY <1>1, <1>2 DEF Types, Memories
<1> QED BY <1>1, <1>3, FailedStep

\* From a board whose welcome was missed, at U-Boot.
LEMMA MissedUBoot ==
  ASSUME Password, Types, Missed, ~mem.tmo,
         \/ Sdp \/ WelcomeSkipped \/ WelcomeMissed \/ WelcomeHeard \/ UBoot \/ Save \/ Reload
         \/ Nand \/ Conf \/ LoadY \/ Dhcp \/ Boot \/ PowerCycle
  PROVE  ProgressInv'
<1>0. /\ brd \in Boards /\ mem \in Memories /\ brd.sys \in {"rom", "autoboot"}
      /\ mem.been /\ ~mem.wait /\ mode = "act" /\ Running
  BY DEF Types, Missed, Running
<1>a. Typed(brd).sys # "uboot"
  BY <1>0, TypedSys
<1>b. ASSUME NEW s \in {"save", "loady", "dhcp", "boot"}, On(s) PROVE FALSE
  <2>1. Act \in {"setup_nor"} \cup Kernels /\ Script[Act][step] = s
    BY <1>b, OnAct DEF Placed
  <2> QED BY <2>1 DEF Missed, Welcoming, UBootUsers, Calling
<1>1. CASE Sdp
  <2>1. PICK heard \in BOOLEAN :
          Step(IF heard THEN [brd EXCEPT !.sys = "autoboot"] ELSE brd, heard, heard, step + 1)
    BY <1>1 DEF Sdp
  <2> DEFINE b == IF heard THEN [brd EXCEPT !.sys = "autoboot"] ELSE brd
  <2>2. b \in Boards /\ b.sys \in {"rom", "autoboot"}
    BY <1>0 DEF Boards, Systems
  <2> HIDE DEF b
  <2>3. On("sdp") /\ mem' = mem /\ Step(b, heard, heard, step + 1)
    BY <1>1, <2>1 DEF Sdp, b
  <2>4. "sdp" \notin Calling /\ step + 1 \in Nat
    BY <2>3, OnAct DEF Calling
  <2> QED BY <2>2, <2>3, <2>4, SlideOn
<1>2. CASE WelcomeSkipped
  <2>1. On("welcome") /\ mem' = mem /\ \E did \in BOOLEAN : Step(brd, did, TRUE, step + 1)
    BY <1>2 DEF WelcomeSkipped
  <2>2. step + 1 \in Nat
    BY <2>1, OnAct
  <2> QED BY <1>0, <2>1, <2>2, SlideOn
<1>3. CASE WelcomeMissed \/ WelcomeHeard
  BY <1>0, <1>3 DEF WelcomeMissed, WelcomeHeard
<1>4. CASE UBoot
  BY <1>0, <1>a, <1>4, SendToLost DEF UBoot
<1>5. CASE Save
  BY <1>5, <1>b DEF Save
<1>6. CASE Reload \/ PowerCycle
  BY <1>0, <1>6 DEF Reload, PowerCycle
<1>7. CASE Nand
  <2>1. On("nand") /\ Step(brd, TRUE, TRUE, step + 1) /\ mem' = [mem EXCEPT !.nand = TRUE]
    BY <1>7 DEF Nand
  <2>2. step + 1 \in Nat /\ mem'.been = mem.been /\ mem'.wait = mem.wait
    BY <1>0, <2>1, OnAct DEF Memories
  <2>3. \E did \in BOOLEAN : Step(brd, did, TRUE, step + 1)
    BY <2>1
  <2> QED BY <1>0, <2>1, <2>2, <2>3, SlideOn
<1>8. CASE Conf
  <2>1. PICK heard \in BOOLEAN :
          /\ Hear(Typed(brd).sys = "uboot", heard)
          /\ mem' = [mem EXCEPT !.known = FALSE, !.tmo = ~heard]
          /\ Step(Typed(brd), heard, TRUE, step + 1)
    BY <1>8 DEF Conf
  <2>2. heard = FALSE
    BY <1>a, <2>1 DEF Hear
  <2>3. mem'.tmo
    BY <1>0, <2>1, <2>2 DEF Memories
  <2> QED BY <1>0, <2>1, <2>3, FailedStep
<1>9. CASE LoadY \/ Dhcp \/ Boot
  BY <1>9, <1>b DEF LoadY, Dhcp, Boot
<1> QED BY <1>1, <1>2, <1>3, <1>4, <1>5, <1>6, <1>7, <1>8, <1>9

\* The same in the acts for Linux, up to a command for its shell.
LEMMA MissedLinux ==
  ASSUME Types, Missed, ~mem.tmo,
         \/ Shell \/ SetupNet \/ (\E f \in Downloads : Get(f)) \/ Parts \/ Find \/ MkFs \/ MkVol
         \/ HwAddr \/ Panel \/ WriteId
  PROVE  ProgressInv'
<1>0. /\ brd \in Boards /\ mem \in Memories /\ brd.sys \in {"rom", "autoboot"}
      /\ mem.been /\ ~mem.wait /\ mode = "act" /\ Running
  BY DEF Types, Missed, Running
<1>a. mem.prompt \in Shells /\ brd.sys # mem.prompt
  BY <1>0 DEF Memories, Shells
<1>1. CASE Shell
  BY <1>0, <1>a, <1>1, SendToLost DEF Shell
<1>2. CASE SetupNet
  <2>1. UNCHANGED place /\ \E heard \in BOOLEAN :
           /\ Hear(brd.sys = mem.prompt, heard) /\ mem' = [mem EXCEPT !.eth = TRUE, !.tmo = ~heard]
    BY <1>2 DEF SetupNet
  <2>2. mem' = [mem EXCEPT !.eth = TRUE, !.tmo = TRUE]
    <3>1. PICK heard \in BOOLEAN :
           /\ Hear(brd.sys = mem.prompt, heard) /\ mem' = [mem EXCEPT !.eth = TRUE, !.tmo = ~heard]
      BY <2>1
    <3>2. heard = FALSE
      BY <1>a, <3>1 DEF Hear
    <3> QED BY <3>1, <3>2
  <2>3. mem'.tmo /\ mode' = "act"
    BY <1>0, <2>1, <2>2 DEF Memories, place
  <2> QED BY <2>3 DEF ProgressInv, Progress, Finished
<1>3. ASSUME NEW f \in Downloads, Get(f) PROVE ProgressInv'
  <2>1. On(f) /\ mem' = mem /\ Step(brd, FALSE, f = "packet", step + 2)
    <3>1. brd.sys \notin Shells
      BY <1>0 DEF Shells
    <3> QED BY <1>3, <3>1 DEF Get
  <2>2. f \notin Calling /\ f # "nothing" /\ step + 2 \in Nat
    <3>1. f \notin Calling /\ f # "nothing"
      BY DEF Downloads, Calling
    <3>2. step \in Nat
      BY <2>1, OnAct
    <3> QED BY <3>1, <3>2
  <2>3. PICK go \in BOOLEAN : Step(brd, FALSE, go, step + 2)
    <3>1. (f = "packet") \in BOOLEAN
      OBVIOUS
    <3> QED BY <2>1, <3>1
  <2> QED BY <1>0, <2>1, <2>2, <2>3, SlideOn
<1>4. CASE Parts
  <2>1. On("parts") /\ step + 1 \in Nat /\ "parts" \notin Calling
    BY <1>4, OnAct DEF Parts, Calling
  <2>2. CASE mem.parts
    <3>1. mem' = [mem EXCEPT !.parts = TRUE] /\ \E did \in BOOLEAN : Step(brd, did, TRUE, step + 1)
      BY <1>4, <2>2 DEF Parts
    <3>2. mem'.been = mem.been /\ mem'.wait = mem.wait
      BY <1>0, <3>1 DEF Memories
    <3> QED BY <1>0, <2>1, <3>1, <3>2, SlideOn
  <2>3. CASE ~mem.parts
    <3>1. PICK heard \in BOOLEAN :
            /\ Hear(brd.sys = mem.prompt, heard)
            /\ mem' = [mem EXCEPT !.parts = TRUE, !.tmo = ~heard]
            /\ Step(brd, heard, TRUE, step + 1)
      BY <1>4, <2>3 DEF Parts
    <3>2. heard = FALSE
      BY <1>a, <3>1 DEF Hear
    <3>3. mem'.tmo
      BY <1>0, <3>1, <3>2 DEF Memories
    <3> QED BY <1>0, <3>1, <3>3, FailedStep
  <2> QED BY <2>2, <2>3
<1>5. CASE Find
  <2>1. On("find") /\ mem' = mem /\ \E go \in BOOLEAN : Step(brd, go, go, step + 1)
    <3>1. mem.known \in BOOLEAN
      BY <1>0 DEF Memories
    <3> QED BY <1>5, <3>1 DEF Find
  <2>2. step + 1 \in Nat /\ "find" \notin Calling
    BY <2>1, OnAct DEF Calling
  <2> QED BY <1>0, <2>1, <2>2, SlideOn
<1>6. CASE MkFs
  <2>1. CASE SendTo(mem.prompt, brd)
    BY <1>0, <1>a, <2>1, SendToLost
  <2>2. CASE mem' = mem /\ Step(brd, FALSE, TRUE, step + 2)
    <3>1. On("mkfs") /\ \E did \in BOOLEAN : Step(brd, did, TRUE, step + 2)
      BY <1>6, <2>2 DEF MkFs
    <3>2. step \in Nat
      BY <3>1, OnAct
    <3>3. step + 2 \in Nat /\ "mkfs" \notin Calling
      BY <3>2 DEF Calling
    <3> QED BY <1>0, <2>2, <3>1, <3>3, SlideOn
  <2> QED BY <1>6, <2>1, <2>2 DEF MkFs
<1>7. CASE MkVol
  BY <1>0, <1>a, <1>7, SendToLost DEF MkVol
<1>8. CASE HwAddr
  <2>1. SendTo(mem.prompt, [brd EXCEPT !.hw = number]) /\ [brd EXCEPT !.hw = number].sys = brd.sys
    BY <1>0, <1>8 DEF HwAddr, Boards
  <2> QED BY <1>0, <1>a, <2>1, SendToLost
<1>9. CASE Panel \/ WriteId
  <2>1. PICK c : SendTo(mem.prompt, [brd EXCEPT !.conf = c])
    BY <1>9 DEF Panel, WriteId
  <2>2. [brd EXCEPT !.conf = c].sys = brd.sys
    BY <1>0 DEF Boards
  <2> QED BY <1>0, <1>a, <2>1, <2>2, SendToLost
<1> QED BY <1>1, <1>2, <1>3, <1>4, <1>5, <1>6, <1>7, <1>8, <1>9

\* The same at the other steps in Linux.
LEMMA MissedRest ==
  ASSUME Types, Missed, ~mem.tmo,
         Switch \/ Reboot \/ Login \/ NewPassword \/ WriteJson \/ Count \/ Validate \/ Test
         \/ Nothing
  PROVE  ProgressInv'
<1>0. /\ brd \in Boards /\ mem \in Memories /\ brd.sys \in {"rom", "autoboot"}
      /\ mem.been /\ ~mem.wait /\ mode = "act" /\ Running
  BY DEF Types, Missed, Running
<1>1. CASE Switch \/ Reboot \/ NewPassword
  <2>a. PICK said \in BOOLEAN : ~said /\ \E b : Await(said, mem, b)
    <3>1. /\ (brd.sys = "initramfs") = FALSE /\ (brd.sys = "regigraf") = FALSE
          /\ (brd.sys \in Shells) = FALSE
      BY <1>0 DEF Shells
    <3> QED BY <1>1, <3>1 DEF Switch, Reboot, NewPassword
  <2>1. PICK b : Await(said, mem, b)
    BY <2>a
  <2>2. \E did \in BOOLEAN : Step(b, did, FALSE, step + 1)
    <3>1. PICK heard \in BOOLEAN : Hear(said, heard) /\ Step(b, heard, heard, step + 1)
      BY <2>1 DEF Await
    <3>2. heard = FALSE
      BY <2>a, <3>1 DEF Hear
    <3> QED BY <3>1, <3>2
  <2> QED BY <1>0, <2>2, FailedStep
<1>2. CASE Login
  <2>1. PICK heard \in BOOLEAN :
          /\ Hear(brd.sys \in {"login", "regigraf"}, heard)
          /\ mem' = [mem EXCEPT !.prompt = "regigraf", !.tmo = ~heard]
          /\ Step([brd EXCEPT !.sys = IF @ = "login" THEN "regigraf" ELSE @],
                  heard, TRUE, step + 1)
    BY <1>2 DEF Login
  <2>2. heard = FALSE
    BY <1>0, <2>1 DEF Hear
  <2>3. mem'.tmo
    BY <1>0, <2>1, <2>2 DEF Memories
  <2> QED BY <1>0, <2>1, <2>3, FailedStep
<1>3. CASE WriteJson \/ Count \/ Test
  <2>1. PICK s \in {"json", "count", "test"} : On(s)
    BY <1>3 DEF WriteJson, Count, Test
  <2>2. mem' = mem /\ \E did \in BOOLEAN : Step(brd, did, TRUE, step + 1)
    BY <1>3 DEF WriteJson, Count, Test
  <2>3. s \notin Calling /\ s # "nothing" /\ step + 1 \in Nat
    BY <2>1, OnAct DEF Calling
  <2> QED BY <1>0, <2>1, <2>2, <2>3, SlideOn
<1>4. CASE Validate
  <2>1. PICK good \in BOOLEAN : Step(brd, good /\ mem.known, good /\ mem.known, step + 1)
    BY <1>4 DEF Validate
  <2>2. On("validate") /\ mem' = mem
    BY <1>4 DEF Validate
  <2>3. PICK go \in BOOLEAN : Step(brd, go, go, step + 1)
    <3>1. (good /\ mem.known) \in BOOLEAN
      OBVIOUS
    <3> QED BY <2>1, <3>1
  <2>4. step + 1 \in Nat /\ "validate" \notin Calling
    BY <2>2, OnAct DEF Calling
  <2> QED BY <1>0, <2>2, <2>3, <2>4, SlideOn
<1>5. CASE Nothing
  <2>1. Step(brd, FALSE, FALSE, step)
    BY <1>5 DEF Nothing
  <2> QED BY <1>0, <2>1, FailedStep
<1> QED BY <1>1, <1>2, <1>3, <1>4, <1>5

\* A timeout is forgotten only for the next board.
LEMMA TimeoutStays == ASSUME Types, mem.tmo, Work PROVE mem'.tmo
<1>0. mem \in Memories
  BY DEF Types
<1>a. ASSUME mem' = mem PROVE mem'.tmo
  BY <1>a
<1>b. ASSUME NEW said, NEW b, Await(said, mem, b) PROVE mem'.tmo
  <2>1. mem' = mem \/ mem' = [mem EXCEPT !.tmo = TRUE]
    BY <1>b DEF Await
  <2> QED BY <1>0, <2>1 DEF Memories
<1>1. CASE Sdp \/ WelcomeSkipped \/ Reload \/ LoadY \/ Dhcp \/ Find \/ Nothing
  BY <1>1 DEF Sdp, WelcomeSkipped, Reload, LoadY, Dhcp, Find, Nothing
<1>2. CASE WriteJson \/ Count \/ Validate \/ Test
  BY <1>2 DEF WriteJson, Count, Validate, Test
<1>3. CASE WelcomeMissed \/ WelcomeHeard
  BY <1>0, <1>3 DEF WelcomeMissed, WelcomeHeard, Memories
<1>4. CASE UBoot \/ Shell \/ MkFs \/ MkVol \/ HwAddr \/ Panel \/ WriteId
  BY <1>4 DEF UBoot, Shell, MkFs, MkVol, HwAddr, Panel, WriteId, SendTo
<1>5. CASE Save
  <2>1. CASE mem' = mem
    BY <2>1
  <2>2. CASE \E heard \in BOOLEAN :
               mem' = [FillInSysInfo(mem, "power cycle") EXCEPT !.tmo = @ \/ ~heard]
    BY <1>0, <2>2 DEF FillInSysInfo, Memories
  <2> QED BY <1>5, <2>1, <2>2 DEF Save, SendTo
<1>6. CASE Nand \/ Conf \/ SetupNet \/ Parts \/ Login
  BY <1>0, <1>6 DEF Nand, Conf, SetupNet, Parts, Login, Memories
<1>7. CASE Boot
  <2>1. PICK heard \in BOOLEAN :
          mem' = [FillInSysInfo(mem, IF heard THEN "partitions" ELSE "nothing")
                    EXCEPT !.eth = FALSE, !.been = FALSE, !.parts = FALSE,
                           !.prompt = "initramfs", !.tmo = @ \/ ~heard]
    BY <1>7 DEF Boot
  <2> QED BY <1>0, <2>1 DEF FillInSysInfo, Memories
<1>8. ASSUME NEW f \in Downloads, Get(f) PROVE mem'.tmo
  <2>1. mem' = mem \/ \E heard \in BOOLEAN : mem' = [mem EXCEPT !.tmo = @ \/ ~heard]
    BY <1>8 DEF Get
  <2> QED BY <1>0, <2>1 DEF Memories
<1>9. CASE Switch \/ Reboot \/ NewPassword
  BY <1>9, <1>b DEF Switch, Reboot, NewPassword
<1> QED BY <1>1, <1>2, <1>3, <1>4, <1>5, <1>6, <1>7, <1>8, <1>9 DEF Work

\* A welcome that is skipped away from U-Boot's prompt is missed.
LEMMA SkipMisses ==
  ASSUME UBootUsed, Types, Complete, WelcomeSkipped, brd.sys # "uboot"
  PROVE  Missed
<1>1. On("welcome") /\ mem.been /\ ~mem.wait
  BY DEF WelcomeSkipped
<1>2. mode = "act" /\ Script[Act][step] = "welcome" /\ Act \in {"enter_uboot", "setup_nor"} \cup Kernels
  BY <1>1, OnAct DEF Placed
<1>3. brd.sys \in {"rom", "autoboot"}
  BY <1>1, CompleteOn DEF Settled, AtUBoot
<1>4. Act \in UBootUsers \/ \E m \in DOMAIN job.acts : m > at /\ Plan[job][m] \in UBootUsers
  <2>1. CASE Act = "enter_uboot"
    <3>1. job \in Jobs /\ at \in DOMAIN job.acts /\ Plan[job][at] = "enter_uboot"
      BY <2>1 DEF Types, PlaceType, Act
    <3>2. PICK m \in DOMAIN job.acts : at < m /\ Plan[job][m] \in UBootUsers
      BY <3>1 DEF UBootUsed
    <3>3. at \in Nat /\ DOMAIN job.acts = 1 .. Len(job.acts) /\ Len(job.acts) \in Nat
      BY RecipeType DEF Types
    <3>4. m > at
      BY <3>2, <3>3
    <3> QED BY <3>2, <3>4
  <2>2. CASE Act # "enter_uboot"
    BY <1>2, <2>2 DEF UBootUsers
  <2> QED BY <2>1, <2>2
<1> QED BY <1>1, <1>2, <1>3, <1>4 DEF Missed, Calling

\* Whatever the program does.
LEMMA WorkProgress ==
  ASSUME Password, "packet" \notin Refusable, UBootUsed, Types, number \in Registry!Number,
         ProgressInv, Work
  PROVE  ProgressInv'
<1>1. Running
  <2>1. CASE HwAddr
    BY <2>1 DEF HwAddr, On, Running
  <2>2. CASE ~HwAddr
    BY <2>2, WorkIsOn DEF Running
  <2> QED BY <2>1, <2>2
<1>2. CASE mem.tmo
  <2>1. mem'.tmo
    BY <1>2, TimeoutStays
  <2>2. CASE HwAddr
    <3>1. Step(brd, FALSE, TRUE, step + 1)
      BY <1>2, <2>2 DEF HwAddr, SendTo
    <3> QED BY <1>1, <2>1, <3>1, FailedStep
  <2>3. CASE ~HwAddr
    BY <1>1, <2>1, <2>3, WorkGoes, LateEnds
  <2> QED BY <2>2, <2>3
<1>3. ASSUME ~mem.tmo, Missed PROVE ProgressInv'
  <2>1. CASE \/ Sdp \/ WelcomeSkipped \/ WelcomeMissed \/ WelcomeHeard \/ UBoot \/ Save
             \/ Reload \/ Nand \/ Conf \/ LoadY \/ Dhcp \/ Boot
    BY <1>3, <2>1, MissedUBoot
  <2>2. CASE \/ Shell \/ SetupNet \/ (\E f \in Downloads : Get(f)) \/ Parts \/ Find \/ MkFs
             \/ MkVol \/ HwAddr \/ Panel \/ WriteId
    BY <1>3, <2>2, MissedLinux
  <2>3. CASE \/ Switch \/ Reboot \/ Login \/ NewPassword \/ WriteJson \/ Count \/ Validate
             \/ Test \/ Nothing
    BY <1>3, <2>3, MissedRest
  <2> QED BY <2>1, <2>2, <2>3 DEF Work
<1>4. ASSUME ~mem.tmo, Complete PROVE ProgressInv'
  <2>1. CASE \/ Sdp \/ WelcomeMissed \/ WelcomeHeard \/ UBoot \/ Nand \/ Conf
             \/ (WelcomeSkipped /\ brd.sys = "uboot")
    BY <1>4, <2>1, CompleteUBoot
  <2>2. CASE WelcomeSkipped /\ brd.sys # "uboot"
    BY <1>3, <1>4, <2>2, SkipMisses
  <2>3. CASE LoadY \/ Dhcp \/ Boot
    BY <1>4, <2>3, CompleteBoot
  <2>4. CASE Save \/ Reload
    BY <1>4, <2>4, CompleteSave
  <2>5. CASE Shell \/ MkFs \/ MkVol \/ HwAddr \/ Panel \/ WriteId
    BY <1>4, <2>5, CompleteShell
  <2>6. CASE SetupNet \/ (\E f \in Downloads : Get(f)) \/ Parts \/ Find
    BY <1>4, <2>6, CompleteGet
  <2>7. CASE \/ Switch \/ Reboot \/ Login \/ NewPassword \/ WriteJson \/ Count \/ Validate
             \/ Test \/ Nothing
    BY <1>4, <2>7, CompleteLinux
  <2> QED BY <2>1, <2>2, <2>3, <2>4, <2>5, <2>6, <2>7 DEF Work
<1> QED BY <1>1, <1>2, <1>3, <1>4 DEF ProgressInv, Progress

\* A board that is put to the stand has its recipe before it.
LEMMA PutProgress ==
  ASSUME Types, NEW b, job' = job, PutBoard(b)
  PROVE  ProgressInv'
<1>1. mode' = "act" /\ at' = 1 /\ step' = 1 /\ whole' = TRUE
  BY DEF PutBoard
<1>2. brd'.sys = "rom" /\ brd'.done = {}
  <2>1. CASE b = board
    BY <2>1 DEF PutBoard, Types, Boards, Systems
  <2>2. CASE b # board
    BY <2>2 DEF PutBoard, NewBoard
  <2> QED BY <2>1, <2>2
<1>3. 1 \in DOMAIN job.acts
  <2>1. job.acts \in Seq(Acts) /\ job.acts # <<>>
    BY ProvisionAssumption DEF Types, PlaceType
  <2>2. Len(job.acts) \in Nat /\ Len(job.acts) # 0
    BY <2>1
  <2> QED BY <2>1, <2>2
<1>4. Act' \in AnyAct
  BY <1>1, <1>3, ActIs DEF Act, Types, PlaceType
<1>5. Right(brd'.sys, mem', Act', 1)
  <2>1. 1 \in 1 .. Len(Script[Act'])
    BY <1>4, ScriptStarts
  <2>2. Follows(Act', 1)
    BY <1>4, <2>1, Order
  <2> QED BY <1>2, <2>2 DEF Follows, Right, Settled, AtUBoot
<1>6. 1 .. at' - 1 = {}
  BY <1>1
<1>7. Complete'
  BY <1>1, <1>2, <1>5, <1>6 DEF Complete
<1> QED BY <1>1, <1>7 DEF ProgressInv, Progress, Finished

\* ProgressInv is kept by every action.
LEMMA NextProgress ==
  ASSUME Password, "packet" \notin Refusable, UBootUsed, Types, number \in Registry!Number,
         ProgressInv, [Next]_vars
  PROVE  ProgressInv'
<1>1. CASE Work
  BY <1>1, WorkProgress
<1>2. CASE PowerCycle
  <2>1. CASE ~mem.tmo /\ Complete
    BY <1>2, <2>1, CompleteSave
  <2>2. CASE mem.tmo
    <3>1. mem'.tmo /\ mode' = "reload"
      BY <1>2, <2>2 DEF PowerCycle
    <3> QED BY <3>1 DEF ProgressInv, Progress, Finished
  <2>3. CASE Missed
    BY <1>2, <2>3 DEF PowerCycle, Missed
  <2>4. Running
    BY <1>2 DEF PowerCycle, Running
  <2> QED BY <2>1, <2>2, <2>3, <2>4 DEF ProgressInv, Progress
<1>3. CASE Start \/ NextBoard
  <2>1. job' = job /\ \E b \in Candidates : PutBoard(b)
    BY <1>3 DEF Start, NextBoard
  <2> QED BY <2>1, PutProgress
<1>4. CASE Stop
  BY <1>4 DEF Stop, ProgressInv, Progress, Finished, Running
<1>5. CASE UNCHANGED vars
  <2>1. UNCHANGED <<job, mode, at, step, whole, result, mem, brd>>
    BY <1>5 DEF vars, place
  <2>2. Act' = Act
    BY <2>1 DEF Act
  <2>3. (Complete' <=> Complete) /\ (Missed' <=> Missed) /\ (Running' <=> Running)
    BY <2>1, <2>2 DEF Complete, Missed, Running
  <2> QED BY <2>1, <2>3 DEF ProgressInv, Progress, Finished
<1> QED BY <1>1, <1>2, <1>3, <1>4, <1>5 DEF Next

\* While nothing has timed out, the recipe so far was executed in full, or it will
\* fail; and a recipe that is done was executed in full.
THEOREM ProgressInvariant ==
  ASSUME Password, "packet" \notin Refusable, UBootUsed
  PROVE  Spec => []ProgressInv
<1>1. Init => ProgressInv
  BY DEF Init, ProgressInv, Progress, Finished, Running
<1>2. ProgressInv /\ Types /\ StoreType /\ [Next]_vars => ProgressInv'
  BY NextProgress DEF StoreType
<1> QED BY <1>1, <1>2, TypesInvariant, PTL DEF Spec

-----------------------------------------------------------------------------
(* What the flash says of a board whose recipe is executed *)

\* uboot_conf reads value v for key k of a flash.
SaysFirst(conf, k, v) == \E i \in DOMAIN conf : Found(conf, k, i) /\ conf[i].value = v

\* The board is registered under the number of its address and of its flash.
Recorded == \E r \in registered : /\ r.board = board /\ r.hw = brd.hw
                                  /\ SaysFirst(brd.conf, "board_id", r.number)

\* What the first n acts of the recipe have left.
Written(n) ==
  /\ (\E k \in 1 .. n : Plan[job][k] = "setup_nor") => Keeps(brd.conf)
  /\ (\E k \in 1 .. n : Plan[job][k] = "install_uboot") => SaysFirst(brd.conf, "panel", StandPanel)
  /\ (\E k \in 1 .. n : Plan[job][k] = "register") => Recorded

\* While the recipe is executed and nothing has timed out.
SoFar == Running /\ ~mem.tmo =>
  /\ Written(at - 1)
  /\ Act = "register" /\ step > 2 => SaysFirst(brd.conf, "board_id", number)
  /\ Act = "register" /\ step > 6 => Recorded
  /\ mode \in {"enter", "reload"} => Keeps(brd.conf)

\* A board whose flash is not set up came with what U-Boot saves.
Saves == "setup_nor" \notin Range(job.acts) => Keeps(brd.conf)

AtEnd == mode = "asked" /\ result = "done" => Written(Len(job.acts))

FlashInv == SoFar /\ Saves /\ AtEnd

\* uboot_conf finds a row where it was, with the value that is given.
LEMMA UpdatedFound ==
  ASSUME NEW conf, NEW given, NEW k, NEW i, conf \in Seq(Row), i \in DOMAIN conf, Found(conf, k, i)
  PROVE  /\ i \in DOMAIN Updated(conf, given) /\ Found(Updated(conf, given), k, i)
         /\ Updated(conf, given)[i].value = IF k \in DOMAIN given THEN given[k] ELSE conf[i].value
<1> DEFINE text == BinToText(conf, given)
<1>1. DOMAIN conf = 1 .. Len(conf) /\ Len(conf) \in Nat
  OBVIOUS
<1>2. DOMAIN text = DOMAIN conf /\ \A m \in DOMAIN conf : text[m] = ApplyFilter(conf[m], given)
  BY DEF BinToText
<1>3. ASSUME NEW m \in DOMAIN conf
      PROVE  /\ ApplyFilter(conf[m], given).key = conf[m].key
             /\ ApplyFilter(conf[m], given).size \in {conf[m].size, "fits"}
             /\ ApplyFilter(conf[m], given).value =
                  IF conf[m].key \in DOMAIN given THEN given[conf[m].key] ELSE conf[m].value
             /\ \E a, b, c : ApplyFilter(conf[m], given) = [key |-> a, value |-> b, size |-> c]
  <2>1. conf[m] \in Row
    OBVIOUS
  <2> QED BY <2>1 DEF ApplyFilter, Row
<1> HIDE DEF text
<1>4. \A m \in 1 .. i - 1 : m \in DOMAIN conf /\ text[m].size # "long"
  <2> SUFFICES ASSUME NEW m \in 1 .. i - 1 PROVE m \in DOMAIN conf /\ text[m].size # "long"
    OBVIOUS
  <2>1. m \in DOMAIN conf
    BY <1>1
  <2> QED BY <1>2, <1>3, <2>1 DEF Found
<1>5. text[i].key = k /\ text[i].size = "fits"
      /\ text[i].value = IF k \in DOMAIN given THEN given[k] ELSE conf[i].value
  BY <1>2, <1>3 DEF Found
<1>6. \A m \in 1 .. i : m \in RowsRead(text)
  <2> SUFFICES ASSUME NEW m \in 1 .. i PROVE m \in RowsRead(text)
    OBVIOUS
  <2>1. m \in DOMAIN text /\ \A x \in 1 .. m - 1 : x \in 1 .. i - 1
    BY <1>1, <1>2
  <2> QED BY <1>4, <2>1 DEF RowsRead
<1>7. \A m \in 1 .. i : TextToBin(text)[m] = text[m] /\ m \in DOMAIN TextToBin(text)
  <2> SUFFICES ASSUME NEW m \in 1 .. i
               PROVE  TextToBin(text)[m] = text[m] /\ m \in DOMAIN TextToBin(text)
    OBVIOUS
  <2>1. text[m].size # "long" /\ m \in DOMAIN conf
    <3>1. m \in 1 .. i - 1 \/ m = i
      BY <1>1
    <3> QED BY <1>4, <1>5, <3>1
  <2>2. [text[m] EXCEPT !.size = text[m].size] = text[m]
    BY <1>2, <1>3, <2>1
  <2> QED BY <1>6, <2>1, <2>2 DEF TextToBin
<1>8. i \in 1 .. i /\ \A m \in 1 .. i - 1 : m \in 1 .. i
  BY <1>1
<1> QED BY <1>4, <1>5, <1>7, <1>8 DEF Found, Updated, text

\* The two calls of uboot_conf find the rows again that were found before.
LEMMA UpdatedSays ==
  ASSUME NEW conf \in Seq(Row), NEW given
  PROVE  /\ Keeps(conf) => Keeps(Updated(conf, given))
         /\ \A k, v : SaysFirst(conf, k, v) /\ (k \in DOMAIN given => given[k] = v)
                        => SaysFirst(Updated(conf, given), k, v)
         /\ \A k \in {"panel", "board_id"} :
              Keeps(conf) /\ k \in DOMAIN given => SaysFirst(Updated(conf, given), k, given[k])
<1>1. ASSUME Keeps(conf), NEW k \in {"panel", "board_id"}
      PROVE  /\ \E i \in DOMAIN Updated(conf, given) : Found(Updated(conf, given), k, i)
             /\ k \in DOMAIN given => SaysFirst(Updated(conf, given), k, given[k])
  <2>1. PICK i \in DOMAIN conf : Found(conf, k, i)
    BY <1>1 DEF Keeps
  <2>2. /\ i \in DOMAIN Updated(conf, given) /\ Found(Updated(conf, given), k, i)
        /\ k \in DOMAIN given => Updated(conf, given)[i].value = given[k]
    BY <2>1, UpdatedFound
  <2> QED BY <2>2 DEF SaysFirst
<1>2. ASSUME NEW k, NEW v, SaysFirst(conf, k, v), k \in DOMAIN given => given[k] = v
      PROVE  SaysFirst(Updated(conf, given), k, v)
  <2>1. PICK i \in DOMAIN conf : Found(conf, k, i) /\ conf[i].value = v
    BY <1>2 DEF SaysFirst
  <2>2. /\ i \in DOMAIN Updated(conf, given) /\ Found(Updated(conf, given), k, i)
        /\ Updated(conf, given)[i].value = v
    BY <1>2, <2>1, UpdatedFound
  <2> QED BY <2>2 DEF SaysFirst
<1>3. Keeps(conf) => Keeps(Updated(conf, given))
  BY <1>1 DEF Keeps
<1> QED BY <1>1, <1>2, <1>3

\* What was written stays, if what it depends on does.
LEMMA WrittenStays ==
  ASSUME NEW n, Written(n), UNCHANGED <<job, board>>, registered \subseteq registered',
         (\E k \in 1 .. n : Plan[job][k] = "setup_nor") /\ Keeps(brd.conf) => Keeps(brd'.conf),
         (\E k \in 1 .. n : Plan[job][k] = "install_uboot") /\ SaysFirst(brd.conf, "panel", StandPanel)
           => SaysFirst(brd'.conf, "panel", StandPanel),
         (\E k \in 1 .. n : Plan[job][k] = "register") =>
           /\ brd'.hw = brd.hw
           /\ \A v : SaysFirst(brd.conf, "board_id", v) => SaysFirst(brd'.conf, "board_id", v)
  PROVE  Written(n)'
<1>1. (\E k \in 1 .. n : Plan[job][k] = "register") => Recorded'
  <2> SUFFICES ASSUME \E k \in 1 .. n : Plan[job][k] = "register" PROVE Recorded'
    OBVIOUS
  <2>1. PICK r \in registered : /\ r.board = board /\ r.hw = brd.hw
                                /\ SaysFirst(brd.conf, "board_id", r.number)
    BY DEF Written, Recorded
  <2> QED BY <2>1 DEF Recorded
<1> QED BY <1>1 DEF Written

\* The act that ends has written what it is for.
LEMMA WrittenNow ==
  ASSUME Types, NEW n, NEW m, n = at - 1, m = at, Written(n)', job' = job,
         Act = "setup_nor" => Keeps(brd'.conf),
         Act = "install_uboot" => SaysFirst(brd'.conf, "panel", StandPanel),
         Act = "register" => Recorded'
  PROVE  Written(m)'
<1>1. \A k \in 1 .. m : k \in 1 .. n \/ (k = at /\ Plan[job][k] = Act)
  BY RecipeType DEF Types, Act
<1> QED BY <1>1 DEF Written

\* The last step of an act was made, and the recipe goes on or is done.
ActEnds ==
  /\ step = Len(Script[Act]) /\ ~mem'.tmo /\ step' = 1
  /\ \/ mode' = "act" /\ at' = at + 1
     \/ mode' = "asked" /\ result' = "done" /\ at = Len(job.acts) /\ at' = at

\* Step: the recipe stays in the act, fails, or the act ends.
LEMMA Ends ==
  ASSUME Types, NEW b \in Boards, NEW did \in BOOLEAN, NEW go \in BOOLEAN, NEW n \in Nat,
         Step(b, did, go, n), go => n = step + 1 \/ (n <= Len(Script[Act]) /\ Act # "register")
  PROVE  /\ job' = job /\ brd'.hw = b.hw /\ brd'.conf = b.conf
         /\ \/ /\ UNCHANGED <<at, mode>> /\ step' = n /\ n <= Len(Script[Act])
               /\ Act = "register" => n = step + 1
            \/ mode' = "asked" /\ result' = "failed"
            \/ ActEnds
<1>1. brd'.hw = b.hw /\ brd'.conf = b.conf
  <2>1. brd' = b \/ \E x : brd' = [b EXCEPT !.done = x]
    BY DEF Step
  <2> QED BY <2>1 DEF Boards
<1>2. CASE go /\ n <= Len(Script[Act])
  BY <1>1, <1>2 DEF Step
<1>3. CASE ~(go /\ n <= Len(Script[Act]))
  <2>1. job' = job /\ EndAct(go)
    BY <1>3 DEF Step
  <2>2. CASE go /\ ~mem'.tmo
    <3>1. step = Len(Script[Act])
      <4>1. Len(Script[Act]) \in Nat /\ step \in 1 .. Len(Script[Act])
        BY OnPlace, ScriptStarts DEF Types, PlaceType
      <4>2. step + 1 > Len(Script[Act])
        BY <1>3, <2>2, <4>1
      <4> QED BY <4>1, <4>2
    <3>2. at < Len(job.acts) \/ at = Len(job.acts)
      BY RecipeType DEF Types
    <3> QED BY <1>1, <2>1, <2>2, <3>1, <3>2 DEF EndAct, ActEnds
  <2>3. CASE ~(go /\ ~mem'.tmo)
    BY <1>1, <2>1, <2>3 DEF EndAct
  <2> QED BY <2>2, <2>3
<1> QED BY <1>2, <1>3

\* What a step has to leave of FlashInv.
LEMMA FlashEnds ==
  ASSUME NEW n, n = at - 1, Types, job' = job, Saves',
         \/ mem'.tmo /\ Running'
         \/ mode' = "asked" /\ result' = "failed"
         \/ /\ Written(n)' /\ at' = at /\ Running'
            /\ Act = "register" /\ step' > 2 => SaysFirst(brd'.conf, "board_id", number')
            /\ Act = "register" /\ step' > 6 => Recorded'
            /\ mode' \in {"enter", "reload"} => Keeps(brd'.conf)
         \/ /\ Written(n)' /\ ActEnds
            /\ Act = "setup_nor" => Keeps(brd'.conf)
            /\ Act = "install_uboot" => SaysFirst(brd'.conf, "panel", StandPanel)
            /\ Act = "register" => Recorded'
  PROVE  FlashInv'
<1>0. at \in Nat
  BY RecipeType DEF Types
<1>1. CASE mem'.tmo /\ Running'
  BY <1>1 DEF FlashInv, SoFar, AtEnd, Running
<1>2. CASE mode' = "asked" /\ result' = "failed"
  BY <1>2 DEF FlashInv, SoFar, AtEnd, Running
<1>3. CASE /\ Written(n)' /\ at' = at /\ Running'
           /\ Act = "register" /\ step' > 2 => SaysFirst(brd'.conf, "board_id", number')
           /\ Act = "register" /\ step' > 6 => Recorded'
           /\ mode' \in {"enter", "reload"} => Keeps(brd'.conf)
  <2>1. Act' = Act /\ at' - 1 = n
    BY <1>3 DEF Act
  <2>2. Written(at - 1)'
    BY <1>3, <2>1 DEF Written
  <2> QED BY <1>3, <2>1, <2>2 DEF FlashInv, SoFar, AtEnd, Running
<1>4. CASE /\ Written(n)' /\ ActEnds
           /\ Act = "setup_nor" => Keeps(brd'.conf)
           /\ Act = "install_uboot" => SaysFirst(brd'.conf, "panel", StandPanel)
           /\ Act = "register" => Recorded'
  <2>1. PICK m : m = at
    OBVIOUS
  <2>2. Written(m)'
    BY <1>4, <2>1, WrittenNow
  <2>3. CASE mode' = "act" /\ at' = at + 1
    <3>1. at' - 1 = m /\ step' = 1
      BY <1>0, <1>4, <2>1, <2>3 DEF ActEnds
    <3>2. Written(at - 1)'
      BY <2>2, <3>1 DEF Written
    <3> QED BY <2>3, <3>1, <3>2 DEF FlashInv, SoFar, AtEnd
  <2>4. CASE mode' = "asked" /\ at = Len(job.acts)
    <3>1. Written(Len(job.acts))'
      BY <2>1, <2>2, <2>4 DEF Written
    <3> QED BY <2>4, <3>1 DEF FlashInv, SoFar, AtEnd, Running
  <2> QED BY <1>4, <2>3, <2>4 DEF ActEnds
<1> QED BY <1>1, <1>2, <1>3, <1>4

\* The steps of a script are those of its labels.
LEMMA LabelIs ==
  ASSUME Work
  PROVE  \/ mode = "reload"
         \/ /\ mode = "act"
            /\ Script[Act][step] = "hwaddr" => HwAddr
            /\ Script[Act][step] = "save" => Save
            /\ Script[Act][step] = "panel" => Panel
            /\ Script[Act][step] = "id" => WriteId
            /\ Script[Act][step] = "json" => WriteJson
            /\ Script[Act][step] = "count" => Count
<1>1. CASE Sdp \/ WelcomeSkipped \/ WelcomeMissed \/ WelcomeHeard \/ UBoot
  BY <1>1 DEF Sdp, WelcomeSkipped, WelcomeMissed, WelcomeHeard, UBoot, On
<1>2. CASE Nand \/ Conf \/ LoadY \/ Dhcp \/ Boot
  BY <1>2 DEF Nand, Conf, LoadY, Dhcp, Boot, On
<1>3. CASE Shell \/ SetupNet \/ (\E f \in Downloads : Get(f)) \/ Parts \/ Find \/ MkFs
  <2>1. \A f \in Downloads : f \notin {"hwaddr", "save", "panel", "id", "json", "count"}
    BY DEF Downloads
  <2> QED BY <1>3, <2>1 DEF Shell, SetupNet, Get, Parts, Find, MkFs, On
<1>4. CASE MkVol \/ Switch \/ Reboot \/ Login \/ NewPassword
  BY <1>4 DEF MkVol, Switch, Reboot, Login, NewPassword, On
<1>5. CASE Validate \/ Test \/ Nothing
  BY <1>5 DEF Validate, Test, Nothing, On
<1>6. CASE Save \/ Reload
  BY <1>6 DEF Save, Reload, On
<1>7. CASE HwAddr \/ Panel \/ WriteId \/ WriteJson \/ Count
  BY <1>7 DEF HwAddr, Panel, WriteId, WriteJson, Count, On
<1> QED BY <1>1, <1>2, <1>3, <1>4, <1>5, <1>6, <1>7 DEF Work

\* Before uboot_conf is called, the flash has the rows it is called for.
LEMMA KeepsNow ==
  ASSUME SettingsGiven, RegisterLast, Types, Saves, Written(at - 1),
         Act \in {"install_uboot", "register"}
  PROVE  Keeps(brd.conf)
<1>0. /\ job \in Jobs /\ at \in DOMAIN job.acts /\ DOMAIN job.acts = 1 .. Len(job.acts)
      /\ Len(job.acts) \in Nat /\ at \in Nat /\ Plan[job][at] = Act
  BY RecipeType DEF Types, PlaceType
<1>1. CASE "setup_nor" \notin Range(job.acts)
  BY <1>1 DEF Saves
<1>2. CASE "setup_nor" \in Range(job.acts)
  <2>1. PICK k \in DOMAIN job.acts : job.acts[k] = "setup_nor"
    BY <1>2 DEF Range
  <2>2. Plan[job][k] = "setup_nor"
    <3>1. Plan[job][k] = Executed("setup_nor", job.given)
      BY <1>0, <2>1 DEF Plan
    <3>2. "setup_nor" \notin Range(CasesInOrder)
      BY DEF Range, CasesInOrder
    <3>3. Needs("setup_nor") = {}
      BY DEF Needs
    <3> QED BY <3>1, <3>2, <3>3 DEF Executed
  <2>3. ~(at < k)
    BY <1>0, <2>2 DEF RegisterLast
  <2>4. k # at
    BY <1>0, <2>2
  <2>5. k \in 1 .. at - 1
    BY <1>0, <2>3, <2>4
  <2> QED BY <2>2, <2>5 DEF Written
<1> QED BY <1>1, <1>2

\* Nothing that setup_nor, the address or the registration undoes was done before.
LEMMA NotBefore ==
  ASSUME RegisterLast, Types
  PROVE  /\ Act \in {"setup_nor", "unpack_rootfs", "register"} =>
              \A k \in 1 .. at - 1 : Plan[job][k] # "register"
         /\ Act = "setup_nor" => \A k \in 1 .. at - 1 : Plan[job][k] # "install_uboot"
<1>0. /\ job \in Jobs /\ at \in DOMAIN job.acts /\ DOMAIN job.acts = 1 .. Len(job.acts)
      /\ Len(job.acts) \in Nat /\ at \in Nat /\ Plan[job][at] = Act
  BY RecipeType DEF Types, PlaceType
<1>1. \A k \in 1 .. at - 1 : k \in DOMAIN job.acts /\ k < at
  BY <1>0
<1> QED BY <1>0, <1>1 DEF RegisterLast

\* Steps that write neither the address nor the flash nor the registry.
LEMMA FlashKept ==
  ASSUME Types, number \in Registry!Number, FlashInv, Running, Work,
         ~HwAddr, ~Save, ~Panel, ~WriteId, ~WriteJson, ~Count
  PROVE  FlashInv'
<1>0. at \in Nat /\ step \in Nat /\ step \in 1 .. Len(Script[Act]) /\ Act \in AnyAct
  BY RecipeType, OnPlace, ScriptStarts DEF Types, PlaceType
<1>1. Goes /\ UNCHANGED <<board, number, registered>>
  BY WorkGoes, WorkKeepsRest DEF store
<1>2. /\ job' = job /\ brd'.hw = brd.hw /\ brd'.conf = brd.conf
      /\ \/ /\ UNCHANGED <<at, mode>>
            /\ Act = "register" => step' = step \/ step' = step + 1
         \/ mode' = "asked" /\ result' = "failed"
         \/ ActEnds
  <2>1. CASE /\ UNCHANGED <<job, at>> /\ Running' /\ Same(brd')
             /\ UNCHANGED <<step, mode>> \/ Save
    BY <2>1 DEF Same
  <2>2. CASE \E b \in Boards, did, go \in BOOLEAN, n \in Nat :
               /\ Same(b) /\ Step(b, did, go, n)
               /\ go => n = step + 1 \/ (n <= Len(Script[Act]) /\ Act # "register" /\ Leaps(n))
    <3>1. PICK b \in Boards, did \in BOOLEAN, go \in BOOLEAN, n \in Nat :
               /\ Same(b) /\ Step(b, did, go, n)
               /\ go => n = step + 1 \/ (n <= Len(Script[Act]) /\ Act # "register" /\ Leaps(n))
      BY <2>2
    <3> QED BY <3>1, Ends DEF Same
  <2> QED BY <1>1, <2>1, <2>2 DEF Goes
<1>3. Saves'
  BY <1>2 DEF FlashInv, Saves
<1>4. PICK n \in Int : n = at - 1
  BY <1>0
<1>5. CASE mem.tmo
  <2>1. mem'.tmo
    BY <1>5, TimeoutStays
  <2>2. (mode' = "asked" /\ result' = "failed") \/ Running'
    BY <1>2, <2>1 DEF ActEnds, Running
  <2> QED BY <1>2, <1>3, <1>4, <2>1, <2>2, FlashEnds
<1>6. CASE ~mem.tmo
  <2>1. /\ Written(n)
        /\ Act = "register" /\ step > 2 => SaysFirst(brd.conf, "board_id", number)
        /\ Act = "register" /\ step > 6 => Recorded
        /\ mode \in {"enter", "reload"} => Keeps(brd.conf)
    BY <1>4, <1>6 DEF FlashInv, SoFar
  <2>2. Written(n)'
    BY <1>1, <1>2, <2>1, WrittenStays
  <2>3. Recorded => Recorded'
    BY <1>1, <1>2 DEF Recorded
  <2>4. /\ Act = "register" => step \notin {2, 6, 7}
        /\ Act = "setup_nor" /\ step = 3 => mode = "reload"
        /\ Act = "install_uboot" => step # 5
    <3>1. /\ Script["register"][2] = "id" /\ Script["register"][6] = "json"
          /\ Script["register"][7] = "count"
      BY LinuxActs
    <3>2. Script["install_uboot"][5] = "panel" /\ Script["setup_nor"][3] = "save"
      BY LinuxActs, UBootActs
    <3>3. mode = "reload" => Act = "setup_nor"
      BY DEF Types, PlaceType
    <3>4. mode = "act" => Script[Act][step] \notin {"id", "json", "count", "panel", "save"}
      BY LabelIs
    <3>5. mode = "reload" \/ mode = "act"
      BY LabelIs
    <3> QED BY <3>1, <3>2, <3>3, <3>4, <3>5
  <2>5. CASE /\ UNCHANGED <<at, mode>>
             /\ Act = "register" => step' = step \/ step' = step + 1
    <3>1. Act = "register" /\ step' > 2 => step > 2
      BY <1>0, <2>4, <2>5
    <3>2. Act = "register" /\ step' > 6 => step > 6
      BY <1>0, <2>4, <2>5
    <3>3. Running'
      BY <2>5 DEF Running
    <3>4. Act = "register" /\ step' > 2 => SaysFirst(brd'.conf, "board_id", number')
      BY <1>1, <1>2, <2>1, <3>1
    <3>5. Act = "register" /\ step' > 6 => Recorded'
      BY <2>1, <2>3, <3>2
    <3>6. mode' \in {"enter", "reload"} => Keeps(brd'.conf)
      BY <1>2, <2>1, <2>5
    <3> QED BY <1>2, <1>3, <1>4, <2>2, <2>5, <3>3, <3>4, <3>5, <3>6, FlashEnds
  <2>6. CASE ActEnds
    <3>1. step = Len(Script[Act])
      BY <2>6 DEF ActEnds
    <3>2. Len(Script["register"]) = 7 /\ Len(Script["install_uboot"]) = 5
          /\ Len(Script["setup_nor"]) = 3
      BY LinuxActs, UBootActs
    <3>3. Act \notin {"register", "install_uboot"}
      BY <2>4, <3>1, <3>2
    <3>4. Act = "setup_nor" => Keeps(brd'.conf)
      BY <1>2, <2>1, <2>4, <3>1, <3>2
    <3> QED BY <1>2, <1>3, <1>4, <2>2, <2>6, <3>3, <3>4, FlashEnds
  <2>7. CASE mode' = "asked" /\ result' = "failed"
    BY <1>2, <1>3, <1>4, <2>7, FlashEnds
  <2> QED BY <1>2, <2>5, <2>6, <2>7
<1> QED BY <1>5, <1>6

\* RegisterBoard: the board is registered, and counted.
LEMMA FlashCount ==
  ASSUME Types, FlashInv, WriteJson \/ Count
  PROVE  FlashInv'
<1>0. at \in Nat /\ step \in Nat /\ step + 1 \in Nat /\ brd \in Boards /\ mode = "act" /\ Running
      /\ Act = "register"
  <2>1. \E s \in {"json", "count"} : On(s)
    BY DEF WriteJson, Count
  <2>2. Act = "register" /\ step \in Nat /\ step + 1 \in Nat /\ mode = "act"
    BY <2>1, OnAct DEF Placed
  <2> QED BY <2>2, RecipeType DEF Types, Running
<1>1. mem' = mem /\ Step(brd, TRUE, TRUE, step + 1) /\ board' = board /\ registered \subseteq registered'
  BY DEF WriteJson, Count
<1>2. /\ job' = job /\ brd'.hw = brd.hw /\ brd'.conf = brd.conf
      /\ \/ UNCHANGED <<at, mode>> /\ step' = step + 1 /\ step + 1 <= Len(Script[Act])
         \/ mode' = "asked" /\ result' = "failed"
         \/ ActEnds
  BY <1>0, <1>1, Ends
<1>3. Saves'
  BY <1>2 DEF FlashInv, Saves
<1>4. PICK n \in Int : n = at - 1
  BY <1>0
<1>5. Len(Script["register"]) = 7
  BY LinuxActs
<1>6. CASE mem.tmo
  <2>1. (mode' = "asked" /\ result' = "failed") \/ Running'
    BY <1>0, <1>1, <1>2, <1>6 DEF ActEnds, Running
  <2> QED BY <1>1, <1>2, <1>3, <1>4, <1>6, <2>1, FlashEnds
<1>7. CASE ~mem.tmo
  <2>1. /\ Written(n)
        /\ step > 2 => SaysFirst(brd.conf, "board_id", number)
        /\ step > 6 => Recorded
    BY <1>0, <1>4, <1>7 DEF FlashInv, SoFar
  <2>2. Written(n)'
    BY <1>1, <1>2, <2>1, WrittenStays
  <2>3. CASE WriteJson
    <3>1. step = 6 /\ number' = number
          /\ registered' = registered \cup {[board |-> board, number |-> number, hw |-> brd.hw]}
      <4>1. On("json")
        BY <2>3 DEF WriteJson
      <4> QED BY <2>3, <4>1, OnAct DEF WriteJson, Placed
    <3>2. SaysFirst(brd.conf, "board_id", number)
      BY <2>1, <3>1
    <3>3. Recorded'
      <4> DEFINE r == [board |-> board, number |-> number, hw |-> brd.hw]
      <4>1. r \in registered' /\ r.board = board' /\ r.hw = brd'.hw /\ r.number = number
        BY <1>1, <1>2, <3>1
      <4> HIDE DEF r
      <4>2. SaysFirst(brd'.conf, "board_id", r.number)
        BY <1>2, <3>2, <4>1
      <4> QED BY <4>1, <4>2 DEF Recorded
    <3>4. CASE UNCHANGED <<at, mode>>
      BY <1>0, <1>2, <1>3, <1>4, <2>2, <3>1, <3>2, <3>3, <3>4, FlashEnds DEF Running
    <3>5. CASE (mode' = "asked" /\ result' = "failed") \/ ActEnds
      BY <1>0, <1>2, <1>3, <1>4, <2>2, <3>3, <3>5, FlashEnds
    <3> QED BY <1>2, <3>4, <3>5
  <2>4. CASE Count
    <3>1. step = 7 /\ registered' = registered
      <4>1. On("count")
        BY <2>4 DEF Count
      <4> QED BY <2>4, <4>1, OnAct DEF Count, Placed
    <3>2. Recorded'
      BY <1>1, <1>2, <2>1, <3>1 DEF Recorded
    <3>3. ~(step + 1 <= Len(Script[Act]))
      BY <1>0, <1>5, <3>1
    <3> QED BY <1>0, <1>2, <1>3, <1>4, <2>2, <3>2, <3>3, FlashEnds
  <2> QED BY <2>3, <2>4
<1> QED BY <1>6, <1>7

\* UnpackRootFs: no board has been registered yet whose address is made.
LEMMA FlashAddress ==
  ASSUME RegisterLast, Types, number \in Registry!Number, FlashInv, HwAddr
  PROVE  FlashInv'
<1>0. at \in Nat /\ step + 1 \in Nat /\ brd \in Boards /\ mode = "act" /\ Running
      /\ Act = "unpack_rootfs" /\ On("hwaddr")
  <2>1. On("hwaddr")
    BY DEF HwAddr
  <2>2. Act = "unpack_rootfs" /\ step + 1 \in Nat /\ mode = "act"
    BY <2>1, OnAct DEF Placed
  <2> QED BY <2>1, <2>2, RecipeType DEF Types, Running
<1>1. PICK b \in Boards, did \in BOOLEAN : b.conf = brd.conf /\ Step(b, did, TRUE, step + 1)
  <2>1. CASE mem.tmo
    <3>1. Step(brd, FALSE, TRUE, step + 1)
      BY <2>1 DEF HwAddr, SendTo
    <3> QED BY <1>0, <3>1
  <2>2. CASE ~mem.tmo
    <3> DEFINE b == [brd EXCEPT !.hw = number]
    <3>1. PICK heard \in BOOLEAN : Step(b, heard, TRUE, step + 1)
      BY <2>2 DEF HwAddr, SendTo
    <3>2. b \in Boards /\ b.conf = brd.conf
      BY <1>0 DEF Boards, Numbers
    <3> QED BY <3>1, <3>2
  <2> QED BY <2>1, <2>2
<1>2. /\ job' = job /\ brd'.conf = brd.conf
      /\ UNCHANGED <<at, mode>> \/ (mode' = "asked" /\ result' = "failed") \/ ActEnds
  BY <1>0, <1>1, Ends
<1>3. Saves'
  BY <1>2 DEF FlashInv, Saves
<1>4. PICK n \in Int : n = at - 1
  BY <1>0
<1>5. CASE mem.tmo
  <2>1. mem'.tmo
    BY <1>5, TimeoutStays DEF Work
  <2>2. (mode' = "asked" /\ result' = "failed") \/ Running'
    BY <1>0, <1>2, <2>1 DEF ActEnds, Running
  <2> QED BY <1>2, <1>3, <1>4, <2>1, <2>2, FlashEnds
<1>6. CASE ~mem.tmo
  <2>1. Written(n)
    BY <1>0, <1>4, <1>6 DEF FlashInv, SoFar
  <2>2. ~\E k \in 1 .. n : Plan[job][k] = "register"
    BY <1>0, <1>4, NotBefore
  <2>3. UNCHANGED <<board, registered>>
    BY DEF HwAddr, store
  <2>4. Written(n)'
    BY <1>2, <2>1, <2>2, <2>3, WrittenStays
  <2>5. mode' = mode => Running' /\ mode' \notin {"enter", "reload"}
    BY <1>0 DEF Running
  <2> QED BY <1>0, <1>2, <1>3, <1>4, <2>4, <2>5, FlashEnds
<1> QED BY <1>5, <1>6

\* SetupNor: what U-Boot saves has the rows, and no act before has written one.
LEMMA FlashSave ==
  ASSUME RegisterLast, Keeps(Default), Password, Types, FlashInv, Save
  PROVE  FlashInv'
<1>0. at \in Nat /\ step + 1 \in Nat /\ brd \in Boards /\ mem \in Memories /\ mode = "act"
      /\ Running /\ Act = "setup_nor" /\ step = 3 /\ On("save")
  <2>1. On("save")
    BY DEF Save
  <2>2. Act = "setup_nor" /\ step = 3 /\ step + 1 \in Nat /\ mode = "act"
    BY <2>1, OnAct DEF Placed
  <2> QED BY <2>1, <2>2, RecipeType DEF Types, Running
<1> DEFINE b == Saved(Typed(brd))
<1>1. b \in Boards /\ b.conf \in {brd.conf, Default} /\ b.sys = Typed(brd).sys
      /\ (b.sys = "uboot" => b.conf = Default)
  <2>1. Typed(brd).conf = brd.conf /\ Typed(brd) \in Boards
    BY <1>0, TypedSys DEF Typed, Boards
  <2> QED BY <2>1, BoardOps DEF Saved, Boards
<1>2. PICK n \in Int : n = at - 1
  BY <1>0
<1>3. ~(\E k \in 1 .. n : Plan[job][k] \in {"register", "install_uboot"})
  BY <1>0, <1>2, NotBefore
<1>4. UNCHANGED <<board, registered>>
  BY DEF Save, store
<1>5. ASSUME job' = job, brd'.conf \in {brd.conf, Default}, ~mem.tmo PROVE Written(n)'
  <2>1. Written(n)
    BY <1>0, <1>2, <1>5 DEF FlashInv, SoFar
  <2> QED BY <1>3, <1>4, <1>5, <2>1, WrittenStays
<1>6. ASSUME job' = job, brd'.conf \in {brd.conf, Default} PROVE Saves'
  BY <1>6 DEF FlashInv, Saves
<1>7. CASE SendTo("uboot", b)
  <2>1. CASE mem.tmo
    <3>1. mem' = mem /\ Step(brd, FALSE, TRUE, step + 1)
      BY <1>7, <2>1 DEF SendTo
    <3>2. /\ job' = job /\ brd'.conf = brd.conf
          /\ UNCHANGED <<at, mode>> \/ (mode' = "asked" /\ result' = "failed") \/ ActEnds
      BY <1>0, <3>1, Ends
    <3>3. (mode' = "asked" /\ result' = "failed") \/ Running'
      BY <1>0, <2>1, <3>1, <3>2 DEF ActEnds, Running
    <3> QED BY <1>2, <1>6, <2>1, <3>1, <3>2, <3>3, FlashEnds
  <2>2. CASE ~mem.tmo
    <3>1. PICK heard \in BOOLEAN :
            /\ Hear(b.sys = "uboot", heard) /\ mem' = [mem EXCEPT !.tmo = ~heard]
            /\ Step(b, heard, TRUE, step + 1)
      BY <1>7, <2>2 DEF SendTo
    <3>2. /\ job' = job /\ brd'.conf = b.conf
          /\ UNCHANGED <<at, mode>> \/ (mode' = "asked" /\ result' = "failed") \/ ActEnds
      BY <1>0, <1>1, <3>1, Ends
    <3>3. mem'.tmo \/ Keeps(brd'.conf)
      <4>1. heard => b.conf = Default
        BY <1>1, <3>1 DEF Hear
      <4>2. mem'.tmo = ~heard
        BY <1>0, <3>1 DEF Memories
      <4> QED BY <3>2, <4>1, <4>2
    <3>4. Written(n)' /\ Saves'
      BY <1>1, <1>5, <1>6, <2>2, <3>2
    <3>5. mode' = mode => Running' /\ mode' \notin {"enter", "reload"}
      BY <1>0 DEF Running
    <3>6. ActEnds => Keeps(brd'.conf)
      BY <3>3 DEF ActEnds
    <3> QED BY <1>0, <1>2, <3>2, <3>4, <3>5, <3>6, FlashEnds
  <2> QED BY <2>1, <2>2
<1>8. ASSUME NEW heard \in BOOLEAN,
             Hear(brd.sys = "uboot" /\ ~mem.tmo, heard),
             mem' = [FillInSysInfo(mem, "power cycle") EXCEPT !.tmo = @ \/ ~heard],
             mode' = "enter", brd' = (IF mem.tmo THEN brd ELSE b),
             UNCHANGED <<job, at, step, whole, result, spoiled>>
      PROVE  FlashInv'
  <2>1. Saves' /\ Running' /\ job' = job /\ at' = at /\ brd'.conf \in {brd.conf, Default}
    BY <1>1, <1>6, <1>8 DEF Running
  <2>2. CASE ~heard
    <3>1. mem'.tmo
      BY <1>0, <1>8, <2>2 DEF FillInSysInfo, Memories
    <3> QED BY <1>2, <2>1, <3>1, FlashEnds
  <2>3. CASE heard
    <3>1. brd.sys = "uboot" /\ ~mem.tmo
      BY <1>8, <2>3 DEF Hear
    <3>2. brd'.conf = Default
      BY <1>1, <1>8, <3>1, TypedSys
    <3>3. Written(n)' /\ Keeps(brd'.conf)
      BY <1>5, <2>1, <3>1, <3>2
    <3> QED BY <1>0, <1>2, <2>1, <3>3, FlashEnds
  <2> QED BY <2>2, <2>3
<1> QED BY <1>7, <1>8 DEF Save

\* UploadAndInstallUBoot and RegisterBoard: uboot_conf is heard to the end, or
\* the recipe fails.
LEMMA FlashUpdate ==
  ASSUME SettingsGiven, RegisterLast, Types, number \in Registry!Number, FlashInv,
         NEW s, NEW key, NEW value, On(s),
         \/ s = "panel" /\ key = "panel" /\ value = StandPanel
         \/ s = "id" /\ key = "board_id" /\ value = number,
         NEW given, DOMAIN given = {key}, given[key] = value,
         SendTo(mem.prompt, [brd EXCEPT !.conf = Updated(@, given)]), UNCHANGED <<board, store>>
  PROVE  FlashInv'
<1>0. /\ at \in Nat /\ step + 1 \in Nat /\ brd \in Boards /\ mem \in Memories /\ mode = "act"
      /\ Running /\ Len(Script[Act]) # 2
      /\ \/ s = "panel" /\ Act = "install_uboot" /\ step = 5
         \/ s = "id" /\ Act = "register" /\ step = 2
  <2>1. /\ step + 1 \in Nat /\ mode = "act" /\ Script[Act][step] = s /\ Placed(Act, step)
    BY OnAct
  <2>2. \/ s = "panel" /\ Act = "install_uboot" /\ step = 5
        \/ s = "id" /\ Act = "register" /\ step = 2
    BY <2>1 DEF Placed
  <2>3. Len(Script["register"]) = 7 /\ Len(Script["install_uboot"]) = 5
    BY LinuxActs
  <2>4. Len(Script[Act]) # 2
    BY <2>2, <2>3
  <2>5. at \in Nat /\ brd \in Boards /\ mem \in Memories /\ Running
    BY <2>1, RecipeType DEF Types, Running
  <2> QED BY <2>1, <2>2, <2>4, <2>5
<1> DEFINE u == Updated(brd.conf, given)
           b == [brd EXCEPT !.conf = u]
<1>1. u \in Seq(Row) /\ brd.conf \in Seq(Row)
  <2>1. brd.conf \in Seq(Row)
    BY <1>0 DEF Boards
  <2>2. \A k \in DOMAIN given : given[k] \in Numbers \cup {StandPanel}
    BY DEF Numbers
  <2> QED BY <2>1, <2>2, UpdatedRows
<1>2. /\ Keeps(brd.conf) => Keeps(u) /\ SaysFirst(u, key, value)
      /\ \A k, v : SaysFirst(brd.conf, k, v) /\ (k = key => v = value) => SaysFirst(u, k, v)
  <2>1. key \in {"panel", "board_id"}
    OBVIOUS
  <2> QED BY <1>1, <2>1, UpdatedSays
<1>3. SendTo(mem.prompt, b)
  OBVIOUS
<1> HIDE DEF u
<1>4. b \in Boards /\ b.conf = u /\ b.hw = brd.hw
  BY <1>0, <1>1 DEF Boards
<1> HIDE DEF b
<1>5. PICK n \in Int : n = at - 1
  BY <1>0
<1>6. UNCHANGED <<board, registered, number>>
  BY DEF store
<1>7. ASSUME job' = job, brd'.conf \in {brd.conf, u} PROVE Saves'
  BY <1>2, <1>7 DEF FlashInv, Saves
<1>8. CASE mem.tmo
  <2>1. mem' = mem /\ Step(brd, FALSE, TRUE, step + 1)
    BY <1>3, <1>8 DEF SendTo
  <2>2. /\ job' = job /\ brd'.conf = brd.conf
        /\ UNCHANGED <<at, mode>> \/ (mode' = "asked" /\ result' = "failed") \/ ActEnds
    BY <1>0, <2>1, Ends
  <2>3. (mode' = "asked" /\ result' = "failed") \/ Running'
    BY <1>0, <1>8, <2>1, <2>2 DEF ActEnds, Running
  <2> QED BY <1>5, <1>7, <1>8, <2>1, <2>2, <2>3, FlashEnds
<1>9. CASE ~mem.tmo
  <2>1. PICK heard \in BOOLEAN : Step(b, heard, TRUE, step + 1)
    BY <1>3, <1>9 DEF SendTo
  <2>2. /\ job' = job /\ brd'.conf = u /\ brd'.hw = brd.hw
        /\ \/ UNCHANGED <<at, mode>> /\ step' = step + 1
           \/ mode' = "asked" /\ result' = "failed"
           \/ ActEnds
    BY <1>0, <1>4, <2>1, Ends
  <2>3. Written(n) /\ Written(at - 1)
    BY <1>0, <1>5, <1>9 DEF FlashInv, SoFar
  <2>4. Keeps(brd.conf)
    BY <1>0, <2>3, KeepsNow DEF FlashInv
  <2>5. Keeps(u) /\ SaysFirst(u, key, value)
    BY <1>2, <2>4
  <2>6. (\E k \in 1 .. n : Plan[job][k] = "register") => s = "panel"
    BY <1>0, <1>5, NotBefore
  <2>7. SaysFirst(brd.conf, "panel", StandPanel) => SaysFirst(u, "panel", StandPanel)
    BY <1>2
  <2>8. s = "panel" =>
          \A v : SaysFirst(brd.conf, "board_id", v) => SaysFirst(u, "board_id", v)
    BY <1>2
  <2>9. Written(n)'
    BY <1>6, <2>2, <2>3, <2>5, <2>6, <2>7, <2>8, WrittenStays
  <2>10. CASE UNCHANGED <<at, mode>> /\ step' = step + 1
    <3>1. Running' /\ mode' \notin {"enter", "reload"}
      BY <1>0, <2>10 DEF Running
    <3>2. Act = "register" => SaysFirst(brd'.conf, "board_id", number') /\ ~(step' > 6)
      BY <1>0, <1>6, <2>2, <2>5, <2>10
    <3> QED BY <1>5, <1>7, <2>2, <2>9, <2>10, <3>1, <3>2, FlashEnds
  <2>11. CASE ActEnds
    <3>1. Len(Script["register"]) = 7
      BY LinuxActs
    <3>2. s = "panel" /\ Act = "install_uboot"
      BY <1>0, <2>11, <3>1 DEF ActEnds
    <3>3. SaysFirst(brd'.conf, "panel", StandPanel)
      BY <2>2, <2>5, <3>2
    <3> QED BY <1>5, <1>7, <2>2, <2>9, <2>11, <3>2, <3>3, FlashEnds
  <2>12. CASE mode' = "asked" /\ result' = "failed"
    BY <1>5, <1>7, <2>2, <2>12, FlashEnds
  <2> QED BY <2>2, <2>10, <2>11, <2>12
<1> QED BY <1>8, <1>9

\* FlashInv is kept by every action.
LEMMA NextFlash ==
  ASSUME SettingsGiven, RegisterLast, Keeps(Default), Password, Types,
         number \in Registry!Number, FlashInv, [Next]_vars
  PROVE  FlashInv'
<1>1. CASE Work
  <2>1. Running
    <3>1. CASE HwAddr
      BY <3>1 DEF HwAddr, On, Running
    <3>2. CASE ~HwAddr
      BY <1>1, <3>2, WorkIsOn DEF Running
    <3> QED BY <3>1, <3>2
  <2>2. CASE Panel
    <3> DEFINE given == [panel |-> StandPanel]
    <3>1. /\ On("panel") /\ UNCHANGED <<board, store>>
          /\ SendTo(mem.prompt, [brd EXCEPT !.conf = Updated(@, given)])
      BY <2>2 DEF Panel
    <3>2. DOMAIN given = {"panel"} /\ given["panel"] = StandPanel
      OBVIOUS
    <3> HIDE DEF given
    <3> QED BY <3>1, <3>2, FlashUpdate
  <2>3. CASE WriteId
    <3> DEFINE given == [board_id |-> number]
    <3>1. /\ On("id") /\ UNCHANGED <<board, store>>
          /\ SendTo(mem.prompt, [brd EXCEPT !.conf = Updated(@, given)])
      BY <2>3 DEF WriteId
    <3>2. DOMAIN given = {"board_id"} /\ given["board_id"] = number
      OBVIOUS
    <3> HIDE DEF given
    <3> QED BY <3>1, <3>2, FlashUpdate
  <2> QED BY <1>1, <2>1, <2>2, <2>3, FlashKept, FlashCount, FlashAddress, FlashSave
<1>2. CASE PowerCycle
  <2>1. /\ UNCHANGED <<job, at, step, mem, board, number, registered>>
        /\ mode = "enter" /\ mode' = "reload" /\ brd'.conf = brd.conf /\ brd'.hw = brd.hw
    BY <1>2 DEF PowerCycle, store, Types, Boards
  <2>2. PICK n \in Int : n = at - 1
    BY RecipeType DEF Types
  <2>3. Act' = Act
    BY <2>1 DEF Act
  <2>4. Saves'
    BY <2>1 DEF FlashInv, Saves
  <2>5. mem.tmo \/ Written(n)'
    <3>1. mem.tmo \/ Written(n)
      BY <2>1, <2>2 DEF FlashInv, SoFar, Running
    <3> QED BY <2>1, <3>1, WrittenStays
  <2>6. Act = "setup_nor"
    BY <2>1 DEF Types, PlaceType
  <2>7. Running' /\ (mem.tmo \/ Keeps(brd'.conf))
    BY <2>1 DEF FlashInv, SoFar, Running
  <2> QED BY <2>1, <2>2, <2>4, <2>5, <2>6, <2>7, FlashEnds
<1>3. CASE Start \/ NextBoard
  <2>1. job' = job /\ \E b \in Candidates : PutBoard(b)
    BY <1>3 DEF Start, NextBoard
  <2>2. mode' = "act" /\ at' = 1 /\ step' = 1
    BY <2>1 DEF PutBoard
  <2>3. brd'.conf = brd.conf \/ brd' = NewBoard
    BY <2>1 DEF PutBoard, Types, Boards
  <2>4. Saves'
    BY <2>1, <2>3 DEF FlashInv, Saves, NewBoard
  <2>5. 1 .. at' - 1 = {}
    BY <2>2
  <2>6. Written(at - 1)'
    BY <2>5 DEF Written
  <2> QED BY <2>2, <2>4, <2>6 DEF FlashInv, SoFar, AtEnd
<1>4. CASE Stop
  <2>1. mode' = "off" /\ UNCHANGED <<job, brd>>
    BY <1>4 DEF Stop
  <2> QED BY <2>1 DEF FlashInv, SoFar, AtEnd, Saves, Running
<1>5. CASE UNCHANGED vars
  BY <1>5 DEF vars, place, store, FlashInv, SoFar, AtEnd, Saves, Running, Written, Recorded, Act
<1> QED BY <1>1, <1>2, <1>3, <1>4, <1>5 DEF Next

\* FlashInv holds from the start.
THEOREM FlashInvariant ==
  ASSUME SettingsGiven, RegisterLast, Keeps(Default), Password
  PROVE  Spec => []FlashInv
<1>1. Init => FlashInv
  <2> SUFFICES ASSUME Init PROVE FlashInv
    OBVIOUS
  <2>1. mode = "off" /\ brd = NewBoard
    BY DEF Init
  <2>2. Saves
    BY <2>1 DEF Saves, NewBoard
  <2> QED BY <2>1, <2>2 DEF FlashInv, SoFar, AtEnd, Running
<1>2. FlashInv /\ Types /\ StoreType /\ [Next]_vars => FlashInv'
  BY NextFlash DEF StoreType
<1> QED BY <1>1, <1>2, TypesInvariant, PTL DEF Spec

\* ExecuteRecipe: a recipe that is reported as finished was executed in full on
\* the board at the stand, whatever was late, refused or interrupted and whatever
\* other boards have left in the globals, and the board is registered under the
\* number that its address and its flash say.  The recipes are those that give
\* each act its settings, register at the end, and use U-Boot after entering it.
THEOREM DoneInFull ==
  ASSUME Password, "packet" \notin Refusable, SettingsGiven, UBootUsed, RegisterLast,
         Keeps(Default)
  PROVE  Spec => []DoneIsComplete
<1>1. Types /\ ProgressInv /\ FlashInv => DoneIsComplete
  <2> SUFFICES ASSUME Types, ProgressInv, FlashInv, mode = "asked", result = "done"
               PROVE  /\ brd.done = Range(job.acts)
                      /\ "register" \in brd.done =>
                           \E r \in registered : /\ r.board = board /\ r.hw = brd.hw
                                                 /\ Says(brd, "board_id", r.number)
                      /\ "install_uboot" \in brd.done => Says(brd, "panel", StandPanel)
    BY DEF DoneIsComplete
  <2>0. job \in Jobs /\ DOMAIN job.acts = 1 .. Len(job.acts)
    BY RecipeType DEF Types, PlaceType
  <2>1. /\ brd.done = {Plan[job][k] : k \in DOMAIN job.acts}
        /\ \A k \in DOMAIN job.acts : Plan[job][k] # "nothing"
    BY DEF ProgressInv, Finished
  <2>2. \A k \in DOMAIN job.acts : Plan[job][k] = job.acts[k]
    BY <2>0, <2>1 DEF SettingsGiven
  <2>3. brd.done = Range(job.acts)
    BY <2>1, <2>2 DEF Range
  <2>4. \A k, v : SaysFirst(brd.conf, k, v) => Says(brd, k, v)
    BY DEF SaysFirst, Found, Says
  <2>5. Written(Len(job.acts))
    BY DEF FlashInv, AtEnd
  <2>6. \A a \in brd.done : \E k \in 1 .. Len(job.acts) : Plan[job][k] = a
    BY <2>0, <2>1
  <2>7. "register" \in brd.done => Recorded
    BY <2>5, <2>6 DEF Written
  <2>8. "install_uboot" \in brd.done => SaysFirst(brd.conf, "panel", StandPanel)
    BY <2>5, <2>6 DEF Written
  <2> QED BY <2>3, <2>4, <2>7, <2>8 DEF Recorded
<1> QED BY <1>1, TypesInvariant, ProgressInvariant, FlashInvariant, PTL

-----------------------------------------------------------------------------
(* Failures: where a board is, step by step *)

\* One itinerary of each recipe.
Stage == [j \in Jobs |-> CHOOSE stage \in Seq(Stages) : Itinerary(j, stage)]

\* Acts that fail on every board.
Hopeless == {"nothing", "kernel_old_sys"}

\* A board's stages in Linux, at a prompt of it, and all that U-Boot is behind of.
Prompts == {"initramfs", "regigraf"}
Quiet   == {"initramfs", "login", "regigraf", "off"}

\* At U-Boot's prompt: the board was perhaps to be power-cycled.
Entered(s) == IF s = "cycled" THEN "prompt" ELSE "ready"

\* Where the board is when step i of act a is next, or the act is over, if it was
\* at stage s when the act began.
Within(s, a, i) ==
  CASE a = "uboot" -> IF i = 1 THEN "rom" ELSE "boot"
    [] a = "enter_uboot" -> IF i = 1 THEN s ELSE "ready"
    [] a = "setup_nor" -> IF i = 1 THEN s ELSE IF i < 4 THEN Entered(s) ELSE "cycled"
    [] a \in {"kernel_uart", "kernel_eth"} ->
         IF i = 1 THEN s ELSE IF i < 4 THEN Entered(s)
           ELSE IF i = 4 THEN "booted" ELSE "initramfs"
    [] a = "kernel_dbg" ->
         IF i = 1 THEN s ELSE IF i < 6 THEN "ready"
           ELSE IF i = 6 THEN "booted" ELSE "initramfs"
    [] a = "kernel_old_sys" -> IF i = 1 THEN s ELSE IF i < 7 THEN "old" ELSE "off"
    [] a = "install_regigraf" ->
         IF i < 3 THEN "initramfs" ELSE IF i = 3 THEN "login" ELSE "regigraf"
    [] a = "setup_booting" -> IF i < 3 THEN s ELSE "login"
    [] a = "register" -> IF i = 1 THEN s ELSE "regigraf"
    [] a = "nothing" -> IF i = 1 THEN s ELSE "lost"
    [] OTHER -> s

\* Commands for the shell.
Commands == {"shell", "parts", "find", "mkfs", "mkvol", "hwaddr", "panel"} \cup Downloads

\* What a step leads from and to.
Moves(l, x, y) ==
  /\ l \in Steps \ {"nand", "nothing"}
  /\ l = "sdp" => x = "rom" /\ y = "boot"
  /\ l = "welcome" => (x \in {"boot", "ready"} /\ y = "ready") \/ (x = "cycled" /\ y = "prompt")
  /\ l \in {"uboot", "conf"} => x \in {"prompt", "ready"} /\ y = x
  /\ l = "save" => x \in {"prompt", "ready"} /\ y = "cycled"
  /\ l \in {"loady", "dhcp"} => x \in {"prompt", "ready"} /\ y = "booted"
  /\ l = "boot" => x = "booted" /\ y = "initramfs"
  /\ l \in Commands => x \in Prompts /\ y = x
  /\ l = "switch" => x = "initramfs" /\ y = "login"
  /\ l = "root" => x \in {"login", "regigraf"} /\ y = "regigraf"
  /\ l = "reboot" => x \in Prompts /\ y = "login"
  /\ l \in {"id", "new", "retype", "json", "count"} => x = "regigraf" /\ y = "regigraf"
  /\ l \in {"validate", "test"} => x \in Linux /\ y = x

\* The kernel is asked for again where the welcome was awaited.
Returns(s, a, i) ==
  Script[a][i] = "dhcp" =>
    \/ Within(s, a, i) = "ready" /\ Within(s, a, i - 2) \in {"boot", "ready"}
    \/ Within(s, a, i) = "prompt" /\ Within(s, a, i - 2) = "cycled"

\* Each step of an act moves a board that the act leads.
Led(s, a, i) == Moves(Script[a][i], Within(s, a, i), Within(s, a, i + 1)) /\ Returns(s, a, i)

\* What Leads says of the stages that an act leads from and to.
LEMMA LeadsFrom ==
  ASSUME NEW a \in AnyAct, NEW s, NEW t, <<s, t>> \in Leads(a)
  PROVE  /\ a = "uboot" => s = "rom" /\ t = "boot"
         /\ a = "enter_uboot" => s \in {"boot", "ready"} /\ t = "ready"
         /\ a = "setup_nor" => s \in {"boot", "ready", "cycled"} /\ t = "cycled"
         /\ a \in {"kernel_uart", "kernel_eth"} =>
              s \in {"boot", "ready", "cycled"} /\ t = "initramfs"
         /\ a = "kernel_dbg" => s \in {"boot", "ready"} /\ t = "initramfs"
         /\ a = "kernel_old_sys" => s \in {"boot", "ready", "cycled"} /\ t = "off"
         /\ a = "install_regigraf" => s = "initramfs" /\ t = "regigraf"
         /\ a = "setup_booting" => s \in Prompts /\ t = "login"
         /\ a = "register" => s \in {"login", "regigraf"} /\ t = "regigraf"
         /\ a \in {"validate_hw", "test_hw"} => s \in Linux /\ t = s
         /\ a = "nothing" => t = "lost"
         /\ a \in {"rootfs", "mtd_utils", "install_kernel", "install_uboot",
                   "install_firmware", "unpack_rootfs"} => s \in Prompts /\ t = s
<1>1. CASE a = "uboot"
  <2>1. Leads(a) = {<<"rom", "boot">>}
    BY <1>1 DEF Leads
  <2> QED BY <1>1, <2>1
<1>2. CASE a = "enter_uboot"
  <2>1. Leads(a) = {"boot", "ready"} \X {"ready"}
    BY <1>2 DEF Leads
  <2> QED BY <1>2, <2>1
<1>3. CASE a = "setup_nor"
  <2>1. Leads(a) = {"boot", "ready", "cycled"} \X {"cycled"}
    BY <1>3 DEF Leads
  <2> QED BY <1>3, <2>1
<1>4. CASE a \in {"kernel_uart", "kernel_eth"}
  <2>1. Leads(a) = {"boot", "ready", "cycled"} \X {"initramfs"}
    BY <1>4 DEF Leads
  <2> QED BY <1>4, <2>1
<1>5. CASE a = "kernel_dbg"
  <2>1. Leads(a) = {"boot", "ready"} \X {"initramfs"}
    BY <1>5 DEF Leads
  <2> QED BY <1>5, <2>1
<1>6. CASE a = "kernel_old_sys"
  <2>1. Leads(a) = {"boot", "ready", "cycled"} \X {"off"}
    BY <1>6 DEF Leads
  <2> QED BY <1>6, <2>1
<1>7. CASE a = "install_regigraf"
  <2>1. Leads(a) = {<<"initramfs", "regigraf">>}
    BY <1>7 DEF Leads
  <2> QED BY <1>7, <2>1
<1>8. CASE a = "setup_booting"
  <2>1. Leads(a) = Prompts \X {"login"}
    BY <1>8 DEF Leads, Prompts
  <2> QED BY <1>8, <2>1
<1>9. CASE a = "register"
  <2>1. Leads(a) = {"login", "regigraf"} \X {"regigraf"}
    BY <1>9 DEF Leads
  <2> QED BY <1>9, <2>1
<1>10. CASE a \in {"validate_hw", "test_hw"}
  <2>1. Leads(a) = {<<x, x>> : x \in {"initramfs", "regigraf"} \cup {"login"}}
    BY <1>10 DEF Leads
  <2>2. PICK x \in {"initramfs", "regigraf"} \cup {"login"} : <<s, t>> = <<x, x>>
    BY <2>1
  <2> QED BY <1>10, <2>2 DEF Linux
<1>11. CASE a = "nothing"
  <2>1. Leads(a) = Stages \X {"lost"}
    BY <1>11 DEF Leads
  <2> QED BY <1>11, <2>1
<1>12. CASE a \in {"rootfs", "mtd_utils", "install_kernel", "install_uboot",
                   "install_firmware", "unpack_rootfs"}
  <2>1. Leads(a) = {<<x, x>> : x \in Prompts}
    BY <1>12 DEF Leads, Prompts
  <2>2. PICK x \in Prompts : <<s, t>> = <<x, x>>
    BY <2>1
  <2> QED BY <1>12, <2>2
<1>13. \/ a \in {"uboot", "enter_uboot", "setup_nor", "kernel_uart", "kernel_eth", "kernel_dbg"}
          \/ a \in {"kernel_old_sys", "install_regigraf", "setup_booting", "register"}
          \/ a \in {"validate_hw", "test_hw", "nothing"}
          \/ a \in {"rootfs", "mtd_utils", "install_kernel", "install_uboot",
                    "install_firmware", "unpack_rootfs"}
  BY DEF AnyAct, Acts
<1> QED BY <1>1, <1>2, <1>3, <1>4, <1>5, <1>6, <1>7, <1>8, <1>9, <1>10, <1>11, <1>12, <1>13

\* How many steps an act has that moves a board.
LEMMA Lengths ==
  /\ Len(Script["uboot"]) = 1
  /\ Len(Script["enter_uboot"]) = 1
  /\ Len(Script["setup_nor"]) = 3
  /\ Len(Script["kernel_uart"]) = 5
  /\ Len(Script["kernel_eth"]) = 5
  /\ Len(Script["kernel_dbg"]) = 9
  /\ Len(Script["kernel_old_sys"]) = 7
  /\ Len(Script["install_regigraf"]) = 8
  /\ Len(Script["setup_booting"]) = 2
  /\ Len(Script["register"]) = 7
  /\ Len(Script["nothing"]) = 1
<1>1. Len(Script["uboot"]) = 1
  BY UBootActs
<1>2. Len(Script["enter_uboot"]) = 1
  BY UBootActs
<1>3. Len(Script["setup_nor"]) = 3
  BY UBootActs
<1>4. Len(Script["kernel_uart"]) = 5
  BY UBootActs
<1>5. Len(Script["kernel_eth"]) = 5
  BY UBootActs
<1>6. Len(Script["kernel_dbg"]) = 9
  BY UBootActs
<1>7. Len(Script["kernel_old_sys"]) = 7
  BY UBootActs
<1>8. Len(Script["install_regigraf"]) = 8
  BY LinuxActs
<1>9. Len(Script["setup_booting"]) = 2
  BY LinuxActs
<1>10. Len(Script["register"]) = 7
  BY LinuxActs
<1>11. Len(Script["nothing"]) = 1
  BY LinuxActs
<1> QED BY <1>1, <1>2, <1>3, <1>4, <1>5, <1>6, <1>7, <1>8, <1>9, <1>10, <1>11

\* An act begins and ends where the itinerary says.
LEMMA WithinEnds ==
  ASSUME NEW a \in AnyAct, NEW s, NEW t, <<s, t>> \in Leads(a)
  PROVE  Within(s, a, 1) = s /\ Within(s, a, Len(Script[a]) + 1) = t
<1>1. CASE a = "uboot"
  BY <1>1, Lengths, LeadsFrom DEF Within
<1>2. CASE a = "enter_uboot"
  BY <1>2, Lengths, LeadsFrom DEF Within
<1>3. CASE a = "setup_nor"
  BY <1>3, Lengths, LeadsFrom DEF Within
<1>4. CASE a = "kernel_uart"
  BY <1>4, Lengths, LeadsFrom DEF Within
<1>5. CASE a = "kernel_eth"
  BY <1>5, Lengths, LeadsFrom DEF Within
<1>6. CASE a = "kernel_dbg"
  BY <1>6, Lengths, LeadsFrom DEF Within
<1>7. CASE a = "kernel_old_sys"
  BY <1>7, Lengths, LeadsFrom DEF Within
<1>8. CASE a = "install_regigraf"
  BY <1>8, Lengths, LeadsFrom DEF Within
<1>9. CASE a = "setup_booting"
  BY <1>9, Lengths, LeadsFrom DEF Within
<1>10. CASE a = "register"
  BY <1>10, Lengths, LeadsFrom DEF Within
<1>11. CASE a = "nothing"
  BY <1>11, Lengths, LeadsFrom DEF Within
<1>12. CASE a \in {"rootfs", "mtd_utils", "install_kernel", "install_uboot",
                  "install_firmware", "unpack_rootfs", "validate_hw", "test_hw"}
  <2>1. s = t
    BY <1>12, LeadsFrom
  <2>2. \A i : Within(s, a, i) = s
    BY <1>12 DEF Within
  <2> QED BY <2>1, <2>2
<1> QED BY <1>1, <1>2, <1>3, <1>4, <1>5, <1>6, <1>7, <1>8, <1>9, <1>10, <1>11, <1>12 DEF AnyAct, Acts

\* An act at U-Boot.
LEMMA LedByUBoot ==
  ASSUME NEW a \in AnyAct,
         a \in {"uboot", "enter_uboot", "setup_nor", "kernel_uart", "kernel_eth", "kernel_dbg"},
         NEW s, NEW t, <<s, t>> \in Leads(a), NEW i \in 1 .. Len(Script[a])
  PROVE  Led(s, a, i)
<1> USE DEF Steps, Led, Moves, Returns, Within, Entered, Commands, Downloads, Prompts
<1>1. CASE a = "uboot"
  <2>1. Script[a] = <<"sdp">> /\ s = "rom"
    BY <1>1, UBootActs, LeadsFrom
  <2> QED BY <1>1, <2>1
<1>2. CASE a = "enter_uboot"
  <2>1. Script[a] = <<"welcome">> /\ s \in {"boot", "ready"}
    BY <1>2, UBootActs, LeadsFrom
  <2> QED BY <1>2, <2>1
<1>3. CASE a = "setup_nor"
  <2>1. Script[a] = <<"welcome", "uboot", "save">> /\ s \in {"boot", "ready", "cycled"}
    BY <1>3, UBootActs, LeadsFrom
  <2>2. i \in 1 .. 3
    BY <2>1
  <2> QED BY <1>3, <2>1, <2>2
<1>4. CASE a \in {"kernel_uart", "kernel_eth"}
  <2>1. /\ Script[a] = <<"welcome", "conf", "loady", "boot", "shell">>
           \/ Script[a] = <<"welcome", "conf", "dhcp", "boot", "shell">>
        /\ s \in {"boot", "ready", "cycled"}
    BY <1>4, UBootActs, LeadsFrom
  <2>0. i \in 1 .. 5
    BY <2>1
  <2>2. i = 1 \/ i = 2 \/ i = 3 \/ i = 4 \/ i = 5
    BY <2>0
  <2>3. i \in {1, 2} => Led(s, a, i)
    BY <1>4, <2>1
  <2>4. i = 3 => Led(s, a, i)
    BY <1>4, <2>1
  <2>5. i \in {4, 5} => Led(s, a, i)
    BY <1>4, <2>1
  <2> QED BY <2>2, <2>3, <2>4, <2>5
<1>5. CASE a = "kernel_dbg"
  <2>1. /\ Script[a] = <<"welcome", "uboot", "welcome", "conf", "dhcp", "boot", "shell",
                         "modules", "shell">>
        /\ s \in {"boot", "ready"}
    BY <1>5, UBootActs, LeadsFrom
  <2>0. i \in 1 .. 9
    BY <2>1
  <2>2. i = 1 \/ i = 2 \/ i = 3 \/ i = 4 \/ i = 5 \/ i = 6 \/ i = 7 \/ i = 8 \/ i = 9
    BY <2>0
  <2>3. i \in {1, 2, 3} => Led(s, a, i)
    BY <1>5, <2>1
  <2>4. i \in {4, 5, 6} => Led(s, a, i)
    BY <1>5, <2>1
  <2>5. i \in {7, 8, 9} => Led(s, a, i)
    BY <1>5, <2>1
  <2> QED BY <2>2, <2>3, <2>4, <2>5
<1> QED BY <1>1, <1>2, <1>3, <1>4, <1>5

\* An act in Linux that leaves the board at its prompt.
LEMMA LedByShell ==
  ASSUME NEW a \in AnyAct,
         a \in {"rootfs", "mtd_utils", "install_kernel", "install_uboot",
               "install_firmware", "unpack_rootfs", "validate_hw", "test_hw"},
         NEW s, NEW t, <<s, t>> \in Leads(a), NEW i \in 1 .. Len(Script[a])
  PROVE  Led(s, a, i)
<1>1. \A k : Within(s, a, k) = s
  BY DEF Within
<1>2. CASE a \in {"validate_hw", "test_hw"}
  <2>1. s \in Linux /\ Script[a][i] \in {"validate", "test"}
    BY <1>2, LinuxActs, LeadsFrom
  <2> QED BY <1>1, <2>1 DEF Led, Moves, Returns, Commands, Downloads, Steps
<1>3. CASE a \notin {"validate_hw", "test_hw"}
  <2>1. s \in Prompts
    BY <1>3, LeadsFrom
  <2>2. Script[a][i] \in Commands
    <3> USE DEF Commands, Downloads
    <3>1. CASE a \in {"rootfs", "mtd_utils", "install_firmware"}
      BY <3>1, LinuxActs
    <3>2. CASE a \in {"install_kernel", "install_uboot"}
      <4>1. CASE a = "install_kernel"
        <5>1. /\ Script[a] = <<"image", "parts", "find", "shell", "modules", "shell">>
              /\ i \in 1 .. 6
          BY <4>1, LinuxActs
        <5> QED BY <5>1
      <4>2. CASE a = "install_uboot"
        <5>1. /\ Script[a] = <<"bootloader", "parts", "find", "shell", "panel">>
              /\ i \in 1 .. 5
          BY <4>2, LinuxActs
        <5> QED BY <5>1
      <4> QED BY <3>2, <4>1, <4>2
    <3>3. CASE a = "unpack_rootfs"
      <4>1. /\ Script[a] = <<"parts", "shell", "mkfs", "mkvol", "shell", "mkfs", "mkvol",
                             "shell", "hwaddr">>
            /\ i \in 1 .. 9
        BY <3>3, LinuxActs
      <4> QED BY <4>1
    <3> QED BY <1>3, <3>1, <3>2, <3>3
  <2>3. /\ Script[a][i] \notin {"nand", "nothing", "sdp", "welcome", "uboot", "conf", "save",
                               "loady", "dhcp", "boot"}
        /\ Script[a][i] \in Steps
        /\ Script[a][i] \notin {"switch", "root", "reboot", "id", "new", "retype", "json",
                               "count", "validate", "test"}
    BY <2>2 DEF Commands, Downloads, Steps
  <2> QED BY <1>1, <2>1, <2>2, <2>3 DEF Led, Moves, Returns
<1> QED BY <1>2, <1>3

\* An act in Linux that logs in or reboots.
LEMMA LedByLogin ==
  ASSUME NEW a \in AnyAct, a \in {"install_regigraf", "setup_booting", "register"},
         NEW s, NEW t, <<s, t>> \in Leads(a), NEW i \in 1 .. Len(Script[a])
  PROVE  Led(s, a, i)
<1> USE DEF Steps, Led, Moves, Returns, Within, Commands, Downloads, Prompts
<1>1. CASE a = "install_regigraf"
  <2>1. Script[a] = <<"shell", "switch", "root", "shell", "packet", "shell", "shell", "license">>
        /\ s = "initramfs"
    BY <1>1, LinuxActs, LeadsFrom DEF Prompts
  <2>0. i \in 1 .. 8
    BY <2>1
  <2>2. i = 1 \/ i = 2 \/ i = 3 \/ i = 4 \/ i = 5 \/ i = 6 \/ i = 7 \/ i = 8
    BY <2>0
  <2>3. i \in {1, 2, 3} => Led(s, a, i)
    BY <1>1, <2>1
  <2>4. i \in {4, 5, 6} => Led(s, a, i)
    BY <1>1, <2>1
  <2>5. i \in {7, 8} => Led(s, a, i)
    BY <1>1, <2>1
  <2> QED BY <2>2, <2>3, <2>4, <2>5
<1>2. CASE a = "setup_booting"
  <2>1. Script[a] = <<"shell", "reboot">> /\ s \in {"initramfs", "regigraf"}
    BY <1>2, LinuxActs, LeadsFrom DEF Prompts
  <2>2. i \in 1 .. 2
    BY <2>1
  <2> QED BY <1>2, <2>1, <2>2
<1>3. CASE a = "register"
  <2>1. Script[a] = <<"root", "id", "new", "retype", "shell", "json", "count">>
        /\ s \in {"login", "regigraf"}
    BY <1>3, LinuxActs, LeadsFrom DEF Prompts
  <2>0. i \in 1 .. 7
    BY <2>1
  <2>2. i = 1 \/ i = 2 \/ i = 3 \/ i = 4 \/ i = 5 \/ i = 6 \/ i = 7
    BY <2>0
  <2>3. i \in {1, 2, 3} => Led(s, a, i)
    BY <1>3, <2>1
  <2>4. i \in {4, 5} => Led(s, a, i)
    BY <1>3, <2>1
  <2>5. i \in {6, 7} => Led(s, a, i)
    BY <1>3, <2>1
  <2> QED BY <2>2, <2>3, <2>4, <2>5
<1> QED BY <1>1, <1>2, <1>3

\* Every act that can succeed.
LEMMA LedAlong ==
  ASSUME NEW a \in AnyAct, a \notin Hopeless, NEW s, NEW t, <<s, t>> \in Leads(a),
         NEW i \in 1 .. Len(Script[a])
  PROVE  Led(s, a, i)
<1>1. \/ a \in {"uboot", "enter_uboot", "setup_nor", "kernel_uart", "kernel_eth", "kernel_dbg"}
      \/ a \in {"rootfs", "mtd_utils", "install_kernel", "install_uboot",
                "install_firmware", "unpack_rootfs", "validate_hw", "test_hw"}
      \/ a \in {"install_regigraf", "setup_booting", "register"}
  BY DEF AnyAct, Acts, Hopeless
<1> QED BY <1>1, LedByUBoot, LedByShell, LedByLogin

\* Once in Linux, U-Boot's welcome is not awaited any more; only a boot gets there.
LEMMA QuietAfter ==
  ASSUME NEW a \in AnyAct, a # "nothing", NEW s, NEW t, <<s, t>> \in Leads(a),
         NEW i \in 1 .. Len(Script[a]), Within(s, a, i + 1) \in Quiet
  PROVE  /\ Script[a][i] # "welcome"
         /\ Script[a][i] = "boot" \/ Within(s, a, i) \in Quiet
<1>1. CASE a = "kernel_old_sys"
  <2>1. Script[a] = <<"welcome", "nand", "welcome", "conf", "dhcp", "boot", "shell">>
    BY <1>1, UBootActs
  <2>2. i \in 1 .. 7 /\ i + 1 # 1
    BY <2>1
  <2>3. ~(i + 1 < 7)
    BY <1>1, <2>2 DEF Within, Quiet
  <2>4. i = 6 \/ i = 7
    BY <2>2, <2>3
  <2> QED BY <1>1, <2>1, <2>4 DEF Within, Quiet
<1>2. CASE a # "kernel_old_sys"
  <2>1. Led(s, a, i)
    BY <1>2, LedAlong DEF Hopeless
  <2>2. Script[a][i] # "welcome"
    BY <2>1 DEF Led, Moves, Quiet
  <2>3. Script[a][i] \in Steps
    BY <2>1 DEF Led, Moves
  <2> QED BY <2>1, <2>2, <2>3 DEF Led, Moves, Quiet, Steps, Prompts, Linux, Commands, Downloads
<1> QED BY <1>1, <1>2

\* Nor is it awaited where a board is in Linux; and no kernel is asked for again there.
LEMMA QuietNow ==
  ASSUME NEW a \in AnyAct, a # "nothing", NEW s, NEW t, <<s, t>> \in Leads(a),
         NEW i \in 1 .. Len(Script[a])
  PROVE  /\ Within(s, a, i) \in Quiet => Script[a][i] # "welcome"
         /\ Script[a][i] = "dhcp" => Within(s, a, i - 2) \notin Quiet
         /\ Script[a][i] \in {"mkfs", "packet"} => Within(s, a, i) \in Quiet
<1>1. CASE a = "kernel_old_sys"
  <2>1. Script[a] = <<"welcome", "nand", "welcome", "conf", "dhcp", "boot", "shell">>
    BY <1>1, UBootActs
  <2>2. i \in 1 .. 7
    BY <2>1
  <2>3. i = 1 \/ i = 2 \/ i = 3 \/ i = 4 \/ i = 5 \/ i = 6 \/ i = 7
    BY <2>2
  <2>4. Script[a][i] = "dhcp" => i = 5
    BY <2>1, <2>3
  <2>5. Within(s, a, 3) = "old"
    BY <1>1 DEF Within
  <2>6. s \in {"boot", "ready", "cycled"}
    BY <1>1, LeadsFrom
  <2>7. Within(s, a, i) \in Quiet => i = 7
    BY <1>1, <2>3, <2>6 DEF Within, Quiet
  <2> QED BY <2>1, <2>3, <2>4, <2>5, <2>7 DEF Quiet
<1>2. CASE a # "kernel_old_sys"
  <2>1. Led(s, a, i)
    BY <1>2, LedAlong DEF Hopeless
  <2>2. Within(s, a, i) \in Quiet => Script[a][i] # "welcome"
    BY <2>1 DEF Led, Moves, Quiet
  <2>3. Script[a][i] = "dhcp" => Within(s, a, i - 2) \notin Quiet
    BY <2>1 DEF Led, Returns, Quiet
  <2>4. Script[a][i] \in {"mkfs", "packet"} => Within(s, a, i) \in Quiet
    BY <2>1 DEF Led, Moves, Quiet, Prompts, Commands, Downloads
  <2> QED BY <2>2, <2>3, <2>4
<1> QED BY <1>1, <1>2

-----------------------------------------------------------------------------
(* Failures: the flag that a finished recipe leaves *)

\* Each recipe has an itinerary.
LEMMA Itineraries == ASSUME RecipesInOrder, NEW j \in Jobs PROVE Itinerary(j, Stage[j])
  BY DEF RecipesInOrder, Stage

\* Where the board is when step n of this act is next.
Here(n) == Within(Stage[job][at], Act, n)

\* UploadKernelEnd resets g_already_has_been: it is not set while a kernel runs,
\* nor when a recipe has been finished.
ResetInv ==
  /\ Running => Stage[job][at] # "lost" /\ (Here(step) \in Quiet => ~mem.been)
  /\ mode = "asked" => result \in {"done", "failed"}
  /\ mode = "asked" /\ result = "done" => ~mem.been

\* An act that is executed at its stage leads to the next one, where the next act
\* begins, or the recipe ends.
LEMMA NextStage ==
  ASSUME RecipesInOrder, PlaceType, Stage[job][at] # "lost"
  PROVE  /\ <<Stage[job][at], Stage[job][at + 1]>> \in Leads(Act)
         /\ Here(1) = Stage[job][at] /\ Here(Len(Script[Act]) + 1) = Stage[job][at + 1]
         /\ Act # "nothing" => Stage[job][at + 1] # "lost"
         /\ at < Len(job.acts) /\ Stage[job][at + 1] # "lost" =>
              /\ Plan[job][at + 1] \in AnyAct
              /\ <<Stage[job][at + 1], Stage[job][at + 2]>> \in Leads(Plan[job][at + 1])
              /\ Within(Stage[job][at + 1], Plan[job][at + 1], 1) = Stage[job][at + 1]
         /\ at = Len(job.acts) /\ Stage[job][at + 1] # "lost" => Stage[job][at + 1] \in Quiet
<1>1. /\ Itinerary(job, Stage[job]) /\ at \in DOMAIN job.acts /\ job \in Jobs /\ Act = Plan[job][at]
      /\ Act \in AnyAct /\ at \in Nat /\ DOMAIN job.acts = 1 .. Len(job.acts) /\ Len(job.acts) \in Nat
  BY Itineraries, RecipeType, OnPlace DEF PlaceType
<1>2. <<Stage[job][at], Stage[job][at + 1]>> \in Leads(Act)
  BY <1>1 DEF Itinerary
<1>3. Here(1) = Stage[job][at] /\ Here(Len(Script[Act]) + 1) = Stage[job][at + 1]
  BY <1>1, <1>2, WithinEnds DEF Here
<1>4. Act # "nothing" => Stage[job][at + 1] # "lost"
  BY <1>1, <1>2, LeadsFrom DEF AnyAct, Acts, Prompts, Linux
<1>5. ASSUME at < Len(job.acts), Stage[job][at + 1] # "lost"
      PROVE  /\ Plan[job][at + 1] \in AnyAct
             /\ <<Stage[job][at + 1], Stage[job][at + 2]>> \in Leads(Plan[job][at + 1])
             /\ Within(Stage[job][at + 1], Plan[job][at + 1], 1) = Stage[job][at + 1]
  <2>1. at + 1 \in DOMAIN job.acts /\ (at + 1) + 1 = at + 2
    BY <1>1, <1>5
  <2>2. Plan[job][at + 1] \in AnyAct
    BY <1>1, <2>1, ActIs
  <2>3. <<Stage[job][at + 1], Stage[job][(at + 1) + 1]>> \in Leads(Plan[job][at + 1])
    BY <1>1, <1>5, <2>1 DEF Itinerary
  <2> QED BY <2>1, <2>2, <2>3, WithinEnds
<1>6. at = Len(job.acts) /\ Stage[job][at + 1] # "lost" => Stage[job][at + 1] \in Quiet
  BY <1>1 DEF Itinerary, Quiet
<1> QED BY <1>2, <1>3, <1>4, <1>5, <1>6

\* Step, from an act that can go on.
LEMMA ResetStep ==
  ASSUME RecipesInOrder, Types, ResetInv, Running, Act # "nothing",
         NEW b, NEW did \in BOOLEAN, NEW go \in BOOLEAN, NEW n \in Nat, Step(b, did, go, n),
         go => n = step + 1 \/ n <= Len(Script[Act]),
         go /\ Here(n) \in Quiet => ~mem'.been
  PROVE  ResetInv'
<1>0. /\ PlaceType /\ Stage[job][at] # "lost" /\ step \in 1 .. Len(Script[Act])
      /\ Len(Script[Act]) \in Nat /\ at \in Nat /\ at <= Len(job.acts) /\ Len(job.acts) \in Nat
  BY RecipeType DEF ResetInv, Types, PlaceType
<1>1. CASE go /\ n <= Len(Script[Act])
  <2>1. step' = n /\ UNCHANGED <<job, at, mode, result>>
    BY <1>1 DEF Step
  <2>2. Act' = Act /\ (Running' <=> Running)
    BY <2>1 DEF Act, Running
  <2>3. Here(step)' = Here(n)
    BY <2>1, <2>2 DEF Here
  <2> QED BY <1>0, <1>1, <2>1, <2>2, <2>3 DEF ResetInv, Running
<1>2. CASE ~(go /\ n <= Len(Script[Act]))
  <2>1. job' = job /\ step' = 1 /\ EndAct(go)
    BY <1>2 DEF Step, EndAct
  <2>2. CASE ~(go /\ ~mem'.tmo)
    <3>1. mode' = "asked" /\ result' = "failed"
      BY <2>1, <2>2 DEF EndAct
    <3> QED BY <3>1 DEF ResetInv, Running
  <2>3. CASE go /\ ~mem'.tmo
    <3>1. n = Len(Script[Act]) + 1
      BY <1>0, <1>2, <2>3
    <3>2. Stage[job][at + 1] # "lost" /\ (Stage[job][at + 1] \in Quiet => ~mem'.been)
      BY <1>0, <2>3, <3>1, NextStage
    <3>3. CASE at < Len(job.acts)
      <4>1. mode' = "act" /\ at' = at + 1
        BY <2>1, <2>3, <3>3 DEF EndAct
      <4>2. Here(step)' = Within(Stage[job][at + 1], Plan[job][at + 1], 1)
        BY <2>1, <4>1 DEF Here, Act
      <4>3. Here(step)' = Stage[job][at + 1] /\ Stage[job'][at'] = Stage[job][at + 1]
        BY <1>0, <2>1, <3>2, <3>3, <4>1, <4>2, NextStage
      <4> QED BY <3>2, <4>1, <4>3 DEF ResetInv
    <3>4. CASE ~(at < Len(job.acts))
      <4>1. mode' = "asked" /\ result' = "done"
        BY <2>1, <2>3, <3>4 DEF EndAct
      <4>2. at = Len(job.acts)
        BY <1>0, <3>4
      <4>3. ~mem'.been
        BY <1>0, <3>2, <4>2, NextStage
      <4> QED BY <4>1, <4>3 DEF ResetInv, Running
    <3> QED BY <3>3, <3>4
  <2> QED BY <2>2, <2>3
<1> QED BY <1>1, <1>2

\* The flag is set by WaitForWelcomeFromUBoot only, and reset by UploadKernelEnd.
LEMMA FlagKept ==
  ASSUME Types, Work, mem'.been
  PROVE  On("welcome") \/ (mem.been /\ ~On("boot"))
<1>0. mem \in Memories /\ \A s, t : On(s) /\ On(t) => s = t
  BY DEF Types, On
<1>1. CASE Sdp \/ Reload \/ LoadY \/ Dhcp \/ Find \/ Nothing
  BY <1>0, <1>1 DEF Sdp, Reload, LoadY, Dhcp, Find, Nothing, On
<1>2. CASE WriteJson \/ Count \/ Validate \/ Test
  BY <1>0, <1>2 DEF WriteJson, Count, Validate, Test
<1>3. CASE WelcomeSkipped \/ WelcomeMissed \/ WelcomeHeard
  BY <1>3 DEF WelcomeSkipped, WelcomeMissed, WelcomeHeard
<1>4. ASSUME NEW prompt, NEW b, NEW s, SendTo(prompt, b), On(s), s # "boot"
      PROVE  mem.been /\ ~On("boot")
  <2>1. mem' = mem \/ \E heard \in BOOLEAN : mem' = [mem EXCEPT !.tmo = ~heard]
    BY <1>4 DEF SendTo
  <2>2. mem'.been = mem.been
    BY <1>0, <2>1 DEF Memories
  <2> QED BY <1>0, <1>4, <2>2
<1>5. CASE UBoot \/ Shell \/ HwAddr \/ Panel \/ WriteId
  BY <1>4, <1>5 DEF UBoot, Shell, HwAddr, Panel, WriteId
<1>6. CASE MkFs \/ MkVol
  <2>1. CASE SendTo(mem.prompt, brd)
    BY <1>4, <1>6, <2>1 DEF MkFs, MkVol
  <2>2. CASE mem' = mem
    BY <1>0, <1>6, <2>2 DEF MkFs, MkVol
  <2> QED BY <1>6, <2>1, <2>2 DEF MkFs, MkVol
<1>7. CASE Save
  <2>1. CASE SendTo("uboot", Saved(Typed(brd)))
    BY <1>4, <1>7, <2>1 DEF Save
  <2>2. ASSUME NEW heard \in BOOLEAN,
               mem' = [FillInSysInfo(mem, "power cycle") EXCEPT !.tmo = @ \/ ~heard]
        PROVE  mem'.been = mem.been
    BY <1>0, <2>2 DEF FillInSysInfo, Memories
  <2> QED BY <1>0, <1>7, <2>1, <2>2 DEF Save
<1>8. CASE Nand \/ Conf \/ SetupNet \/ Parts \/ Login
  <2>1. mem'.been = mem.been
    BY <1>0, <1>8 DEF Nand, Conf, SetupNet, Parts, Login, Memories
  <2>2. \E s \in {"nand", "conf", "parts", "root"} \cup Downloads : On(s)
    BY <1>8 DEF Nand, Conf, SetupNet, Parts, Login
  <2> QED BY <1>0, <2>1, <2>2 DEF Downloads
<1>9. CASE Boot
  <2>1. PICK heard \in BOOLEAN :
          mem' = [FillInSysInfo(mem, IF heard THEN "partitions" ELSE "nothing")
                    EXCEPT !.eth = FALSE, !.been = FALSE, !.parts = FALSE,
                           !.prompt = "initramfs", !.tmo = @ \/ ~heard]
    BY <1>9 DEF Boot
  <2> QED BY <1>0, <2>1 DEF FillInSysInfo, Memories
<1>10. ASSUME NEW f \in Downloads, Get(f) PROVE mem.been /\ ~On("boot")
  <2>1. mem' = mem \/ \E heard \in BOOLEAN : mem' = [mem EXCEPT !.tmo = @ \/ ~heard]
    BY <1>10 DEF Get
  <2>2. On(f) /\ f # "boot"
    BY <1>10 DEF Get, Downloads
  <2> QED BY <1>0, <2>1, <2>2 DEF Memories
<1>11. CASE Switch \/ Reboot \/ NewPassword
  <2>1. mem' = mem \/ mem' = [mem EXCEPT !.tmo = TRUE]
    BY <1>11 DEF Switch, Reboot, NewPassword, Await
  <2>2. mem'.been = mem.been
    BY <1>0, <2>1 DEF Memories
  <2>3. \E s \in {"switch", "reboot", "new", "retype"} : On(s)
    BY <1>11 DEF Switch, Reboot, NewPassword
  <2> QED BY <1>0, <2>2, <2>3
<1> QED BY <1>1, <1>2, <1>3, <1>5, <1>6, <1>7, <1>8, <1>9, <1>10, <1>11 DEF Work

\* DoAction fails where the settings of an act were not given.
LEMMA NothingFails ==
  ASSUME Types, Work, Act = "nothing"
  PROVE  mode' = "asked" /\ result' = "failed" /\ UNCHANGED <<job, at>>
<1>1. mode # "reload" /\ Script[Act][step] = "nothing"
  BY OnPlace DEF Types, PlaceType, Placed
<1>2. \A s : On(s) => s = "nothing"
  BY <1>1 DEF On
<1>3. ~(Sdp \/ WelcomeSkipped \/ WelcomeMissed \/ WelcomeHeard \/ UBoot \/ Save \/ Reload)
  BY <1>1, <1>2 DEF Sdp, WelcomeSkipped, WelcomeMissed, WelcomeHeard, UBoot, Save, Reload
<1>4. ~(Nand \/ Conf \/ LoadY \/ Dhcp \/ Boot)
  BY <1>2 DEF Nand, Conf, LoadY, Dhcp, Boot
<1>5. ~(Shell \/ SetupNet \/ (\E f \in Downloads : Get(f)) \/ Parts \/ Find \/ MkFs)
  BY <1>2 DEF Shell, SetupNet, Get, Parts, Find, MkFs, Downloads
<1>6. ~(MkVol \/ HwAddr \/ Panel \/ Switch \/ Reboot \/ Login \/ WriteId \/ NewPassword)
  BY <1>2 DEF MkVol, HwAddr, Panel, Switch, Reboot, Login, WriteId, NewPassword
<1>7. ~(WriteJson \/ Count \/ Validate \/ Test)
  BY <1>2 DEF WriteJson, Count, Validate, Test
<1>8. Nothing
  BY <1>3, <1>4, <1>5, <1>6, <1>7 DEF Work
<1>9. Step(brd, FALSE, FALSE, step)
  BY <1>8 DEF Nothing
<1> QED BY <1>9 DEF Step, EndAct

\* Whatever the program does at a board.
LEMMA WorkReset ==
  ASSUME RecipesInOrder, Types, number \in Registry!Number, ResetInv, Work
  PROVE  ResetInv'
<1>1. Running
  <2>1. CASE HwAddr
    BY <2>1 DEF HwAddr, On, Running
  <2>2. CASE ~HwAddr
    BY <2>2, WorkIsOn DEF Running
  <2> QED BY <2>1, <2>2
<1>2. CASE Act = "nothing"
  BY <1>2, NothingFails DEF ResetInv, Running
<1>3. CASE Act # "nothing"
  <2> DEFINE s == Stage[job][at]
             t == Stage[job][at + 1]
  <2>1. /\ Act \in AnyAct /\ <<s, t>> \in Leads(Act) /\ step \in 1 .. Len(Script[Act])
        /\ step + 1 \in Nat /\ Here(step) \in Quiet => ~mem.been
    BY <1>1, OnPlace, NextStage DEF ResetInv, Types, PlaceType
  <2>2. /\ Here(step + 1) \in Quiet =>
             /\ Script[Act][step] # "welcome"
             /\ Script[Act][step] = "boot" \/ Here(step) \in Quiet
        /\ Here(step) \in Quiet => Script[Act][step] # "welcome"
        /\ Script[Act][step] = "dhcp" => Here(step - 2) \notin Quiet
        /\ Script[Act][step] \in {"mkfs", "packet"} => Here(step) \in Quiet
    BY <1>3, <2>1, QuietAfter, QuietNow DEF Here
  <2> HIDE DEF s, t
  <2>3. mem'.been => On("welcome") \/ (mem.been /\ ~On("boot"))
    BY FlagKept
  <2>4. Here(step + 1) \in Quiet => ~mem'.been
    <3> SUFFICES ASSUME Here(step + 1) \in Quiet, mem'.been PROVE FALSE
      OBVIOUS
    <3>1. ~On("welcome")
      BY <2>2 DEF On
    <3>2. mem.been /\ ~On("boot")
      BY <2>3, <3>1
    <3>3. mode = "reload"
      <4>1. Script[Act][step] = "boot"
        BY <2>1, <2>2, <3>2
      <4>2. mode = "act" => On("boot")
        BY <4>1 DEF On
      <4>3. CASE HwAddr
        BY <3>2, <4>2, <4>3 DEF HwAddr, On
      <4> QED BY <3>2, <4>2, <4>3, WorkIsOn
    <3>4. Act = "setup_nor" /\ step = 3
      BY <3>3 DEF Types, PlaceType
    <3>5. Script[Act][step] = "save"
      BY <3>4, UBootActs
    <3> QED BY <2>1, <2>2, <3>2, <3>5
  <2>5. ASSUME NEW b, NEW did \in BOOLEAN, NEW go \in BOOLEAN, Step(b, did, go, step + 1)
        PROVE  ResetInv'
    BY <1>1, <1>3, <2>1, <2>4, <2>5, ResetStep
  <2>6. ASSUME UNCHANGED <<job, at, step>>, Running' PROVE ResetInv'
    <3>1. Act' = Act
      BY <2>6 DEF Act
    <3>2. Here(step)' = Here(step)
      BY <2>6, <3>1 DEF Here
    <3>3. Here(step) \in Quiet => ~mem'.been
      BY <2>1, <2>2, <2>3 DEF On
    <3> QED BY <1>1, <2>6, <3>2, <3>3 DEF ResetInv, Running
  <2>7. CASE HwAddr
    <3>1. \E b : \E did \in BOOLEAN : Step(b, did, TRUE, step + 1)
      BY <2>7 DEF HwAddr, SendTo
    <3> QED BY <2>5, <3>1
  <2>8. CASE Save
    <3>1. CASE SendTo("uboot", Saved(Typed(brd)))
      <4>1. \E b : \E did \in BOOLEAN : Step(b, did, TRUE, step + 1)
        BY <3>1 DEF SendTo
      <4> QED BY <2>5, <4>1
    <3>2. CASE mode' = "enter" /\ UNCHANGED <<job, at, step>>
      BY <2>6, <3>2 DEF Running
    <3> QED BY <2>8, <3>1, <3>2 DEF Save
  <2>9. CASE ~HwAddr /\ ~Save
    <3>1. Goes
      BY <2>9, WorkGoes
    <3>2. CASE UNCHANGED <<job, at, step>> /\ Running'
      BY <2>6, <3>2
    <3>3. ASSUME NEW b, NEW did \in BOOLEAN, NEW go \in BOOLEAN, NEW n \in Nat,
                 Step(b, did, go, n),
                 go => n = step + 1 \/ (n <= Len(Script[Act]) /\ Leaps(n))
          PROVE  ResetInv'
      <4>1. CASE n = step + 1
        BY <2>5, <3>3, <4>1
      <4>2. CASE ~go
        BY <1>1, <1>3, <3>3, <4>2, ResetStep
      <4>3. CASE go /\ n <= Len(Script[Act]) /\ Leaps(n)
        <5>1. Script[Act][step] = "dhcp" => Here(n) \notin Quiet
          BY <2>2, <4>3 DEF Leaps
        <5>2. Script[Act][step] \in {"mkfs", "packet"} => ~mem'.been
          BY <2>1, <2>2, <2>3 DEF On
        <5> QED BY <1>1, <1>3, <3>3, <4>3, <5>1, <5>2, ResetStep DEF Leaps
      <4> QED BY <3>3, <4>1, <4>2, <4>3
    <3> QED BY <2>9, <3>1, <3>2, <3>3 DEF Goes
  <2> QED BY <2>7, <2>8, <2>9
<1> QED BY <1>2, <1>3

\* A board that is put to the stand is at the first stage of its recipe.
LEMMA PutReset ==
  ASSUME RecipesInOrder, Types, NEW b, job' = job, PutBoard(b)
  PROVE  ResetInv' /\ Here(step)' = "rom" /\ Stage[job'][at'] = "rom"
<1>1. mode' = "act" /\ at' = 1 /\ step' = 1
  BY DEF PutBoard
<1>2. job \in Jobs /\ 1 \in DOMAIN job.acts
  <2>1. job \in Jobs /\ job.acts \in Seq(Acts) /\ job.acts # <<>>
    BY ProvisionAssumption DEF Types, PlaceType
  <2>2. Len(job.acts) \in Nat /\ Len(job.acts) # 0
    BY <2>1
  <2> QED BY <2>1, <2>2
<1>3. Stage[job][1] = "rom" /\ <<Stage[job][1], Stage[job][2]>> \in Leads(Plan[job][1])
  <2>1. Itinerary(job, Stage[job])
    BY <1>2, Itineraries
  <2>2. 1 + 1 = 2
    OBVIOUS
  <2> QED BY <1>2, <2>1, <2>2 DEF Itinerary
<1>4. Plan[job][1] \in AnyAct
  BY <1>2, ActIs
<1>5. Within(Stage[job][1], Plan[job][1], 1) = "rom"
  BY <1>3, <1>4, WithinEnds
<1>6. Here(step)' = "rom"
  BY <1>1, <1>5 DEF Here, Act
<1> QED BY <1>1, <1>3, <1>6 DEF ResetInv, Quiet

\* ResetInv is kept by every action.
LEMMA NextReset ==
  ASSUME RecipesInOrder, Types, number \in Registry!Number, ResetInv, [Next]_vars
  PROVE  ResetInv'
<1>1. CASE Work
  BY <1>1, WorkReset
<1>2. CASE PowerCycle
  <2>1. UNCHANGED <<job, at, step, mem>> /\ mode' = "reload" /\ Running
    BY <1>2 DEF PowerCycle, Running
  <2>2. Act' = Act
    BY <2>1 DEF Act
  <2>3. Here(step)' = Here(step)
    BY <2>1, <2>2 DEF Here
  <2> QED BY <2>1, <2>3 DEF ResetInv
<1>3. CASE Start \/ NextBoard
  <2>1. job' = job /\ \E b \in Candidates : PutBoard(b)
    BY <1>3 DEF Start, NextBoard
  <2> QED BY <2>1, PutReset
<1>4. CASE Stop
  BY <1>4 DEF Stop, ResetInv, Running
<1>5. CASE UNCHANGED vars
  <2>1. UNCHANGED <<job, mode, at, step, result, mem>>
    BY <1>5 DEF vars, place
  <2>2. Act' = Act
    BY <2>1 DEF Act
  <2>3. Here(step)' = Here(step) /\ (Running' <=> Running)
    BY <2>1, <2>2 DEF Here, Running
  <2> QED BY <2>1, <2>3 DEF ResetInv
<1> QED BY <1>1, <1>2, <1>3, <1>4, <1>5 DEF Next

-----------------------------------------------------------------------------
(* Failures: a board that answers leads its recipe to the end *)

\* What board and memory are at a stage, if nothing went wrong.
Fine(x, sys, net, m) ==
  /\ ~m.tmo /\ ~m.nand
  /\ x \in {"rom", "boot", "ready", "prompt", "cycled", "booted"} \cup Linux
  /\ x = "rom" => sys = "rom" /\ ~m.been /\ ~m.wait
  /\ x = "boot" => ~m.wait /\ sys = IF m.been THEN "uboot" ELSE "autoboot"
  /\ x = "ready" => sys = "uboot" /\ m.been /\ ~m.wait
  /\ x = "prompt" => sys = "uboot" /\ m.been
  /\ x = "cycled" => IF m.wait THEN sys = "autoboot" ELSE sys = "uboot" /\ m.been
  /\ x = "booted" => sys = "initramfs"
  /\ x = "initramfs" => sys = x /\ m.prompt = x /\ m.known /\ (m.eth => net)
  /\ x = "login" => sys = x /\ m.known
  /\ x = "regigraf" => sys = x /\ m.prompt = x /\ m.known

\* A board that was not late and has refused nothing is where its recipe expects
\* it, in an act that can succeed.
FineInv ==
  Running /\ ~faulty /\ ~spoiled /\ Act \notin Hopeless =>
    IF mode = "act" THEN Fine(Here(step), brd.sys, brd.net, mem)
                    ELSE mem.wait /\ ~mem.tmo /\ ~mem.nand

OwnInv == FineInv /\ FirstFailureIsOwn

\* The recipe is executed and nothing went wrong.
Sound == Running /\ ~faulty /\ ~spoiled /\ Act \notin Hopeless /\ Stage[job][at] # "lost" /\ FineInv

\* Step, to a place where the board is expected.
LEMMA OwnStep ==
  ASSUME RecipesInOrder, Types, Running, Act \notin Hopeless, Stage[job][at] # "lost",
         NEW b \in Boards, NEW did \in BOOLEAN, NEW n \in Nat, Step(b, did, TRUE, n),
         (n <= Len(Script[Act]) /\ mode = "act") \/ n = Len(Script[Act]) + 1,
         Fine(Here(n), b.sys, b.net, mem')
  PROVE  OwnInv'
<1>0. /\ PlaceType /\ Len(Script[Act]) \in Nat /\ at \in Nat /\ at <= Len(job.acts)
      /\ Len(job.acts) \in Nat
  BY RecipeType DEF Types, PlaceType
<1>1. brd'.sys = b.sys /\ brd'.net = b.net
  <2>1. brd' = b \/ \E x : brd' = [b EXCEPT !.done = x]
    BY DEF Step
  <2> QED BY <2>1 DEF Boards
<1>2. ~mem'.tmo
  BY DEF Fine
<1>3. CASE n <= Len(Script[Act])
  <2>1. step' = n /\ UNCHANGED <<job, at, mode, result>> /\ mode = "act"
    BY <1>0, <1>3 DEF Step
  <2>2. Act' = Act
    BY <2>1 DEF Act
  <2>3. Here(step)' = Here(n)
    BY <2>1, <2>2 DEF Here
  <2>4. Fine(Here(step), brd.sys, brd.net, mem)'
    BY <1>1, <2>3 DEF Fine
  <2> QED BY <2>1, <2>4 DEF OwnInv, FineInv, FirstFailureIsOwn
<1>4. CASE n = Len(Script[Act]) + 1
  <2>1. job' = job /\ step' = 1 /\ EndAct(TRUE)
    BY <1>0, <1>4 DEF Step, EndAct
  <2>2. CASE at < Len(job.acts)
    <3>1. mode' = "act" /\ at' = at + 1
      BY <1>2, <2>1, <2>2 DEF EndAct
    <3>2. Here(n) = Stage[job][at + 1]
      BY <1>0, <1>4, NextStage
    <3>3. Stage[job][at + 1] # "lost"
      BY <3>2 DEF Fine, Linux
    <3>4. Here(step)' = Within(Stage[job][at + 1], Plan[job][at + 1], 1)
      BY <2>1, <3>1 DEF Here, Act
    <3>5. Here(step)' = Here(n)
      BY <1>0, <2>2, <3>2, <3>3, <3>4, NextStage
    <3>6. Fine(Here(step), brd.sys, brd.net, mem)'
      BY <1>1, <3>5 DEF Fine
    <3> QED BY <3>1, <3>6 DEF OwnInv, FineInv, FirstFailureIsOwn
  <2>3. CASE ~(at < Len(job.acts))
    <3>1. mode' = "asked" /\ result' = "done"
      BY <1>2, <2>1, <2>3 DEF EndAct
    <3> QED BY <3>1 DEF OwnInv, FineInv, FirstFailureIsOwn, Running
  <2> QED BY <2>2, <2>3
<1> QED BY <1>3, <1>4

\* Where the board is at a step, and where the step leads it.
LEMMA SoundOn ==
  ASSUME RecipesInOrder, Types, Sound, NEW s, On(s)
  PROVE  /\ Moves(s, Here(step), Here(step + 1)) /\ Fine(Here(step), brd.sys, brd.net, mem)
         /\ s = "dhcp" => \/ Here(step) = "ready" /\ Here(step - 2) \in {"boot", "ready"}
                          \/ Here(step) = "prompt" /\ Here(step - 2) = "cycled"
         /\ brd \in Boards /\ mem \in Memories
<1>1. mode = "act" /\ Act \in AnyAct /\ Script[Act][step] = s /\ step \in 1 .. Len(Script[Act])
  BY OnAct
<1>2. <<Stage[job][at], Stage[job][at + 1]>> \in Leads(Act)
  BY NextStage DEF Sound, Types
<1>3. Led(Stage[job][at], Act, step)
  BY <1>1, <1>2, LedAlong DEF Sound
<1> QED BY <1>1, <1>3 DEF Led, Returns, Here, Sound, FineInv, Types

\* A step of a script that leads where the board is expected.
LEMMA OwnOn ==
  ASSUME RecipesInOrder, Types, Sound, NEW s, On(s),
         NEW b \in Boards, NEW did \in BOOLEAN, Step(b, did, TRUE, step + 1),
         Fine(Here(step + 1), b.sys, b.net, mem')
  PROVE  OwnInv'
<1>1. mode = "act" /\ step \in 1 .. Len(Script[Act]) /\ step + 1 \in Nat
  BY OnAct
<1>2. Len(Script[Act]) \in Nat
  BY RecipeType DEF Types
<1>3. step + 1 <= Len(Script[Act]) \/ step + 1 = Len(Script[Act]) + 1
  BY <1>1, <1>2
<1> QED BY <1>1, <1>3, OwnStep DEF Sound

\* ParseUntil: what a board says is heard, or the board was late.
LEMMA HeardOrLate == ASSUME NEW said, NEW heard, Hear(said, heard), said PROVE heard \/ faulty'
  BY DEF Hear

\* A failure of a board that was late or has refused something is its own.
LEMMA FaultyOwn == ASSUME faulty' PROVE OwnInv'
  BY DEF OwnInv, FineInv, FirstFailureIsOwn

\* The memory without a timeout.
LEMMA NoTimeout ==
  ASSUME NEW m \in Memories, ~m.tmo
  PROVE  [m EXCEPT !.tmo = FALSE] = m
  BY DEF Memories

\* A command at the prompt that the board shows.
LEMMA SendToOwn ==
  ASSUME RecipesInOrder, Types, Sound, NEW s, On(s), NEW b \in Boards, NEW prompt,
         SendTo(prompt, b), b.sys = prompt, Fine(Here(step + 1), b.sys, b.net, mem)
  PROVE  OwnInv'
<1>1. ~mem.tmo /\ mem \in Memories
  BY DEF Fine, Types
<1>2. PICK heard \in BOOLEAN :
        /\ Hear(b.sys = prompt, heard) /\ mem' = [mem EXCEPT !.tmo = ~heard]
        /\ Step(b, heard, TRUE, step + 1)
  BY <1>1 DEF SendTo
<1>3. CASE faulty'
  BY <1>3, FaultyOwn
<1>4. CASE heard
  <2>1. mem' = mem
    BY <1>1, <1>2, <1>4, NoTimeout
  <2> QED BY <1>2, <2>1, OwnOn
<1> QED BY <1>2, <1>3, <1>4, HeardOrLate

\* A wait of its own.
LEMMA AwaitOwn ==
  ASSUME RecipesInOrder, Types, Sound, NEW s, On(s), NEW b \in Boards, NEW said,
         Await(said, mem, b), said, Fine(Here(step + 1), b.sys, b.net, mem)
  PROVE  OwnInv'
<1>1. PICK heard \in BOOLEAN :
        /\ Hear(said, heard) /\ mem' = IF heard THEN mem ELSE [mem EXCEPT !.tmo = TRUE]
        /\ Step(b, heard, heard, step + 1)
  BY DEF Await
<1>2. CASE faulty'
  BY <1>2, FaultyOwn
<1>3. CASE heard
  <2>1. mem' = mem /\ Step(b, heard, TRUE, step + 1)
    BY <1>1, <1>3
  <2> QED BY <2>1, OwnOn
<1> QED BY <1>1, <1>2, <1>3, HeardOrLate

\* A step after which the act has the same step before it.
LEMMA OwnStay ==
  ASSUME RecipesInOrder, Types, Sound, UNCHANGED <<job, at, step, mode>>, mode = "act",
         Fine(Here(step), brd'.sys, brd'.net, mem')
  PROVE  OwnInv'
<1>1. Act' = Act
  BY DEF Act
<1>2. Here(step)' = Here(step)
  BY <1>1 DEF Here
<1>3. Fine(Here(step), brd.sys, brd.net, mem)'
  BY <1>2 DEF Fine
<1> QED BY <1>3 DEF OwnInv, FineInv, FirstFailureIsOwn

\* Typing to a board that is at U-Boot's prompt.
LEMMA TypedReady == ASSUME brd.sys = "uboot" PROVE Typed(brd) = brd
  BY DEF Typed

\* The boot ROM and U-Boot's welcome.
LEMMA WelcomeOwn ==
  ASSUME RecipesInOrder, Types, Sound,
         Sdp \/ WelcomeSkipped \/ WelcomeMissed \/ WelcomeHeard
  PROVE  OwnInv'
<1>0. brd \in Boards /\ mem \in Memories
  BY DEF Types
<1>1. CASE Sdp
  <2>1. PICK heard \in BOOLEAN :
          /\ Hear(brd.sys = "rom", heard)
          /\ Step(IF heard THEN [brd EXCEPT !.sys = "autoboot"] ELSE brd, heard, heard, step + 1)
    BY <1>1 DEF Sdp
  <2>2. On("sdp") /\ mem' = mem
    BY <1>1 DEF Sdp
  <2>3. Here(step) = "rom" /\ Here(step + 1) = "boot" /\ Fine("rom", brd.sys, brd.net, mem)
    BY <2>2, SoundOn DEF Moves
  <2>4. CASE faulty'
    BY <2>4, FaultyOwn
  <2>5. CASE heard
    <3> DEFINE b == [brd EXCEPT !.sys = "autoboot"]
    <3>1. b \in Boards /\ b.sys = "autoboot"
      BY <1>0 DEF Boards, Systems
    <3>2. Step(b, heard, TRUE, step + 1)
      BY <2>1, <2>5
    <3> HIDE DEF b
    <3>3. Fine("boot", b.sys, b.net, mem')
      BY <2>2, <2>3, <3>1 DEF Fine
    <3> QED BY <2>2, <2>3, <3>1, <3>2, <3>3, OwnOn
  <2>6. brd.sys = "rom"
    BY <2>3 DEF Fine
  <2> QED BY <2>1, <2>4, <2>5, <2>6, HeardOrLate
<1>w. ASSUME On("welcome")
      PROVE  /\ \/ Here(step) \in {"boot", "ready"} /\ Here(step + 1) = "ready"
                \/ Here(step) = "cycled" /\ Here(step + 1) = "prompt"
             /\ Fine(Here(step), brd.sys, brd.net, mem)
  BY <1>w, SoundOn DEF Moves
<1>2. CASE WelcomeSkipped
  <2>1. On("welcome") /\ mem' = mem /\ mem.been /\ ~mem.wait
        /\ \E did \in BOOLEAN : Step(brd, did, TRUE, step + 1)
    BY <1>2 DEF WelcomeSkipped
  <2>2. Fine(Here(step + 1), brd.sys, brd.net, mem')
    BY <1>w, <2>1 DEF Fine
  <2> QED BY <1>0, <2>1, <2>2, OwnOn
<1>3. CASE WelcomeMissed
  <2>1. On("welcome") /\ ~(mem.been /\ ~mem.wait) /\ Hear(brd.sys = "autoboot", FALSE)
    BY <1>3 DEF WelcomeMissed
  <2>2. brd.sys = "autoboot"
    BY <1>w, <2>1 DEF Fine
  <2> QED BY <2>1, <2>2, HeardOrLate, FaultyOwn
<1>4. CASE WelcomeHeard
  <2>1. PICK asked \in BOOLEAN, heard \in BOOLEAN :
          /\ Hear(TRUE, asked /\ heard)
          /\ mem' = [mem EXCEPT !.been = TRUE, !.tmo = @ \/ ~heard]
          /\ Step([brd EXCEPT !.sys = IF asked THEN "uboot" ELSE "password"],
                  heard, asked, step + 1)
    BY <1>4 DEF WelcomeHeard
  <2>2. On("welcome")
    BY <1>4 DEF WelcomeHeard
  <2>3. CASE faulty'
    BY <2>3, FaultyOwn
  <2>4. CASE asked /\ heard
    <3> DEFINE b == [brd EXCEPT !.sys = "uboot"]
    <3>1. b \in Boards /\ b.sys = "uboot"
      BY <1>0 DEF Boards, Systems
    <3>2. Step(b, heard, TRUE, step + 1)
      BY <2>1, <2>4
    <3>3. mem'.been /\ mem'.tmo = mem.tmo /\ mem'.wait = mem.wait /\ mem'.nand = mem.nand
      BY <1>0, <2>1, <2>4 DEF Memories
    <3> HIDE DEF b
    <3>4. Fine(Here(step + 1), b.sys, b.net, mem')
      BY <1>w, <2>2, <3>1, <3>3 DEF Fine
    <3> QED BY <2>2, <3>1, <3>2, <3>4, OwnOn
  <2> QED BY <2>1, <2>3, <2>4, HeardOrLate
<1> QED BY <1>1, <1>2, <1>3, <1>4

\* U-Boot's prompt and the start of a kernel.
LEMMA BootOwn ==
  ASSUME RecipesInOrder, Types, Sound, UBoot \/ Nand \/ Conf \/ LoadY \/ Dhcp \/ Boot
  PROVE  OwnInv'
<1>0. brd \in Boards /\ mem \in Memories
  BY DEF Types
<1>p. ASSUME NEW s \in {"uboot", "conf", "loady", "dhcp"}, On(s)
      PROVE  /\ Here(step) \in {"prompt", "ready"} /\ Fine(Here(step), brd.sys, brd.net, mem)
             /\ s \in {"uboot", "conf"} => Here(step + 1) = Here(step)
             /\ s \in {"loady", "dhcp"} => Here(step + 1) = "booted"
             /\ brd.sys = "uboot" /\ Typed(brd) = brd /\ ~mem.tmo /\ ~mem.nand
  <2>1. Moves(s, Here(step), Here(step + 1)) /\ Fine(Here(step), brd.sys, brd.net, mem)
    BY <1>p, SoundOn
  <2>2. brd.sys = "uboot" /\ ~mem.tmo /\ ~mem.nand
    BY <2>1 DEF Moves, Fine
  <2> QED BY <2>1, <2>2, TypedReady DEF Moves
<1>1. CASE UBoot
  <2>1. On("uboot") /\ SendTo("uboot", Typed(brd))
    BY <1>1 DEF UBoot
  <2> QED BY <1>0, <1>p, <2>1, SendToOwn
<1>2. CASE Nand
  <2>1. On("nand")
    BY <1>2 DEF Nand
  <2> QED BY <2>1, SoundOn DEF Moves
<1>3. CASE Conf
  <2>1. On("conf")
    BY <1>3 DEF Conf
  <2>2. PICK heard \in BOOLEAN :
          /\ Hear(brd.sys = "uboot", heard)
          /\ mem' = [mem EXCEPT !.known = FALSE, !.tmo = ~heard]
          /\ Step(brd, heard, TRUE, step + 1)
    BY <1>3, <1>p, <2>1 DEF Conf
  <2>3. CASE faulty'
    BY <2>3, FaultyOwn
  <2>4. CASE heard
    <3>1. ~mem'.tmo /\ mem'.been = mem.been /\ mem'.wait = mem.wait /\ mem'.nand = mem.nand
      BY <1>0, <2>2, <2>4 DEF Memories
    <3>2. Fine(Here(step + 1), brd.sys, brd.net, mem')
      BY <1>p, <2>1, <3>1 DEF Fine
    <3> QED BY <1>0, <2>1, <2>2, <3>2, OwnOn
  <2> QED BY <1>p, <2>1, <2>2, <2>3, <2>4, HeardOrLate
<1>k. ASSUME NEW s \in {"loady", "dhcp"}, On(s), mem' = mem,
             Step(Booted(brd), TRUE, TRUE, step + 1)
      PROVE  OwnInv'
  <2>1. Booted(brd) \in Boards /\ Booted(brd).sys = "initramfs"
    BY <1>0, <1>p, <1>k DEF Booted, Boards, Systems
  <2>2. Fine(Here(step + 1), Booted(brd).sys, Booted(brd).net, mem')
    BY <1>p, <1>k, <2>1 DEF Fine
  <2>3. \E did \in BOOLEAN : Step(Booted(brd), did, TRUE, step + 1)
    BY <1>k
  <2> QED BY <1>k, <2>1, <2>2, <2>3, OwnOn
<1>4. CASE LoadY
  <2>1. On("loady") /\ mem' = mem
    BY <1>4 DEF LoadY
  <2>2. Step(Booted(brd), TRUE, TRUE, step + 1)
    BY <1>4, <1>p, <2>1 DEF LoadY
  <2> QED BY <1>k, <2>1, <2>2
<1>5. CASE Dhcp
  <2>1. On("dhcp") /\ mem' = mem
    BY <1>5 DEF Dhcp
  <2>2. \/ Step(Booted(brd), TRUE, TRUE, step + 1)
        \/ Refuse("kernel") /\ Step(brd, TRUE, TRUE, step - 2)
    BY <1>5, <1>p, <2>1 DEF Dhcp
  <2>3. CASE Step(Booted(brd), TRUE, TRUE, step + 1)
    BY <1>k, <2>1, <2>3
  <2>4. CASE Refuse("kernel") /\ Step(brd, TRUE, TRUE, step - 2)
    <3>1. CASE mem.wait
      <4>1. faulty'
        BY <2>4, <3>1 DEF Refuse
      <4> QED BY <4>1, FaultyOwn
    <3>2. CASE ~mem.wait
      <4>1. /\ mode = "act" /\ step \in 1 .. Len(Script[Act]) /\ step - 2 \in Nat
            /\ Len(Script[Act]) \in Nat
        <5>1. step \in 1 .. Len(Script[Act]) /\ Placed(Act, step) /\ mode = "act"
              /\ Script[Act][step] = "dhcp"
          BY <2>1, OnAct
        <5>2. step > 2
          BY <5>1 DEF Placed
        <5> QED BY <5>1, <5>2, RecipeType DEF Types
      <4>2. step - 2 <= Len(Script[Act])
        BY <4>1
      <4>3. Fine(Here(step - 2), brd.sys, brd.net, mem')
        <5>1. \/ Here(step) = "ready" /\ Here(step - 2) \in {"boot", "ready"}
              \/ Here(step) = "prompt" /\ Here(step - 2) = "cycled"
          BY <2>1, SoundOn
        <5>2. Fine(Here(step), brd.sys, brd.net, mem)
          BY <1>p, <2>1
        <5> QED BY <2>1, <3>2, <5>1, <5>2 DEF Fine
      <4>4. \E did \in BOOLEAN : Step(brd, did, TRUE, step - 2)
        BY <2>4
      <4> QED BY <1>0, <4>1, <4>2, <4>3, <4>4, OwnStep DEF Sound
    <3> QED BY <3>1, <3>2
  <2> QED BY <2>2, <2>3, <2>4
<1>6. CASE Boot
  <2>1. PICK heard \in BOOLEAN :
          /\ Hear(brd.sys \in {"initramfs", "login"}, heard)
          /\ mem' = [FillInSysInfo(mem, IF heard THEN "partitions" ELSE "nothing")
                       EXCEPT !.eth = FALSE, !.been = FALSE, !.parts = FALSE,
                              !.prompt = "initramfs", !.tmo = @ \/ ~heard]
          /\ Step([brd EXCEPT !.net = FALSE], heard, heard, step + 1)
    BY <1>6 DEF Boot
  <2>2. On("boot")
    BY <1>6 DEF Boot
  <2>3. Here(step) = "booted" /\ Here(step + 1) = "initramfs" /\ Fine("booted", brd.sys, brd.net, mem)
    BY <2>2, SoundOn DEF Moves
  <2>4. CASE faulty'
    BY <2>4, FaultyOwn
  <2>5. CASE heard
    <3> DEFINE b == [brd EXCEPT !.net = FALSE]
    <3>1. b \in Boards /\ b.sys = brd.sys
      BY <1>0 DEF Boards
    <3>2. Step(b, heard, TRUE, step + 1)
      BY <2>1, <2>5
    <3>3. mem'.known /\ ~mem'.eth /\ mem'.prompt = "initramfs" /\ mem'.tmo = mem.tmo
          /\ mem'.nand = mem.nand
      BY <1>0, <2>1, <2>5 DEF FillInSysInfo, Memories
    <3> HIDE DEF b
    <3>4. Fine("initramfs", b.sys, b.net, mem')
      <4>1. ~mem.tmo /\ ~mem.nand /\ brd.sys = "initramfs"
        BY <2>3 DEF Fine
      <4> QED BY <3>1, <3>3, <4>1 DEF Fine, Linux
    <3> QED BY <2>2, <2>3, <3>1, <3>2, <3>4, OwnOn
  <2>6. brd.sys \in {"initramfs", "login"}
    BY <2>3 DEF Fine
  <2> QED BY <2>1, <2>4, <2>5, <2>6, HeardOrLate
<1> QED BY <1>1, <1>2, <1>3, <1>4, <1>5, <1>6

\* The power cycle of setup_nor.
LEMMA CycleOwn ==
  ASSUME RecipesInOrder, Types, Sound, Save \/ Reload
  PROVE  OwnInv'
<1>0. brd \in Boards /\ mem \in Memories
  BY DEF Types
<1>1. CASE Save
  <2>1. On("save")
    BY <1>1 DEF Save
  <2>2. /\ Here(step) \in {"prompt", "ready"} /\ Here(step + 1) = "cycled"
        /\ Fine(Here(step), brd.sys, brd.net, mem)
    BY <2>1, SoundOn DEF Moves
  <2>3. brd.sys = "uboot" /\ mem.been /\ ~mem.tmo /\ ~mem.nand /\ Typed(brd) = brd
    BY <2>2, TypedReady DEF Fine
  <2>4. CASE SendTo("uboot", Saved(Typed(brd))) /\ ~mem.wait
    <3> DEFINE b == Saved(brd)
    <3>1. b \in Boards /\ b.sys = "uboot"
      BY <1>0, <2>3, BoardOps DEF Saved, Boards
    <3>2. SendTo("uboot", b)
      BY <2>3, <2>4
    <3> HIDE DEF b
    <3>3. Fine(Here(step + 1), b.sys, b.net, mem)
      BY <2>2, <2>3, <2>4, <3>1 DEF Fine
    <3> QED BY <2>1, <3>1, <3>2, <3>3, SendToOwn
  <2>5. CASE ~(SendTo("uboot", Saved(Typed(brd))) /\ ~mem.wait)
    <3>1. PICK heard \in BOOLEAN :
            /\ Hear(brd.sys = "uboot" /\ ~mem.tmo, heard)
            /\ mem' = [FillInSysInfo(mem, "power cycle") EXCEPT !.tmo = @ \/ ~heard]
            /\ mode' = "enter"
      BY <1>1, <2>5 DEF Save
    <3>2. CASE faulty'
      BY <3>2, FaultyOwn
    <3>3. CASE heard
      <4>1. mem'.wait /\ ~mem'.tmo /\ ~mem'.nand
        BY <1>0, <2>3, <3>1, <3>3 DEF FillInSysInfo, Memories
      <4> QED BY <3>1, <4>1 DEF OwnInv, FineInv, FirstFailureIsOwn
    <3> QED BY <2>3, <3>1, <3>2, <3>3, HeardOrLate
  <2> QED BY <2>4, <2>5
<1>2. CASE Reload
  <2>1. PICK heard \in BOOLEAN :
          /\ Hear(TRUE, heard)
          /\ heard => Step([brd EXCEPT !.sys = "autoboot"], TRUE, TRUE, step + 1)
    BY <1>2 DEF Reload
  <2>2. mode = "reload" /\ mem' = mem
    BY <1>2 DEF Reload
  <2>3. Act = "setup_nor" /\ step = 3 /\ Len(Script[Act]) = 3
    BY <2>2, Lengths DEF Types, PlaceType
  <2>4. Here(step + 1) = "cycled"
    BY <2>3 DEF Here, Within
  <2>5. mem.wait /\ ~mem.tmo /\ ~mem.nand
    BY <2>2 DEF Sound, FineInv
  <2>6. CASE faulty'
    BY <2>6, FaultyOwn
  <2>7. CASE heard
    <3> DEFINE b == [brd EXCEPT !.sys = "autoboot"]
    <3>1. b \in Boards /\ b.sys = "autoboot"
      BY <1>0 DEF Boards, Systems
    <3>2. Step(b, TRUE, TRUE, step + 1)
      BY <2>1, <2>7
    <3> HIDE DEF b
    <3>3. Fine(Here(step + 1), b.sys, b.net, mem')
      BY <2>2, <2>4, <2>5, <3>1 DEF Fine, Linux
    <3>4. step + 1 \in Nat /\ step + 1 = Len(Script[Act]) + 1
      BY <2>3
    <3>5. \E did \in BOOLEAN : Step(b, did, TRUE, step + 1)
      BY <3>2
    <3> QED BY <3>1, <3>3, <3>4, <3>5, OwnStep DEF Sound
  <2> QED BY <2>1, <2>6, <2>7, HeardOrLate
<1> QED BY <1>1, <1>2

\* Where the board is at a command for the shell.
LEMMA AtPrompt ==
  ASSUME RecipesInOrder, Types, Sound, NEW s \in Commands \cup {"id"}, On(s)
  PROVE  /\ Here(step) \in Prompts /\ Here(step + 1) = Here(step)
         /\ Fine(Here(step), brd.sys, brd.net, mem)
         /\ brd.sys = Here(step) /\ mem.prompt = Here(step)
         /\ mem.known /\ ~mem.tmo /\ ~mem.nand
<1>1. Moves(s, Here(step), Here(step + 1)) /\ Fine(Here(step), brd.sys, brd.net, mem)
  BY SoundOn
<1>2. Here(step) \in Prompts /\ Here(step + 1) = Here(step)
  BY <1>1 DEF Moves, Prompts
<1>3. brd.sys = Here(step) /\ mem.prompt = Here(step) /\ mem.known
  BY <1>1, <1>2 DEF Fine, Prompts
<1>4. ~mem.tmo /\ ~mem.nand
  BY <1>1 DEF Fine
<1> QED BY <1>1, <1>2, <1>3, <1>4

\* The commands for the shell that nobody looks at the answers of.
LEMMA ShellOwn ==
  ASSUME RecipesInOrder, Types, number \in Registry!Number, Sound,
         Shell \/ HwAddr \/ Panel \/ WriteId \/ MkFs \/ MkVol
  PROVE  OwnInv'
<1>0. brd \in Boards /\ mem \in Memories
  BY DEF Types
<1>s. ASSUME NEW s \in Commands \cup {"id"}, On(s), NEW b \in Boards,
             b.sys = brd.sys, b.net = brd.net, SendTo(mem.prompt, b)
      PROVE  OwnInv'
  <2>1. b.sys = mem.prompt /\ Fine(Here(step + 1), b.sys, b.net, mem)
    BY <1>s, AtPrompt
  <2> QED BY <1>s, <2>1, SendToOwn
<1>1. CASE Shell
  <2>1. On("shell") /\ SendTo(mem.prompt, brd)
    BY <1>1 DEF Shell
  <2> QED BY <1>0, <1>s, <2>1 DEF Commands
<1>2. CASE HwAddr
  <2> DEFINE b == [brd EXCEPT !.hw = number]
  <2>1. number \in Numbers
    BY DEF Numbers
  <2>2. b \in Boards /\ b.sys = brd.sys /\ b.net = brd.net
    BY <1>0, <2>1, BoardOps DEF Boards
  <2>3. On("hwaddr") /\ SendTo(mem.prompt, b)
    BY <1>2 DEF HwAddr
  <2> HIDE DEF b
  <2> QED BY <1>s, <2>2, <2>3 DEF Commands
<1>c. ASSUME NEW given, \A k \in DOMAIN given : given[k] \in Numbers \cup {StandPanel},
             NEW s \in Commands \cup {"id"}, On(s),
             SendTo(mem.prompt, [brd EXCEPT !.conf = Updated(@, given)])
      PROVE  OwnInv'
  <2> DEFINE b == [brd EXCEPT !.conf = Updated(@, given)]
  <2>1. brd.conf \in Seq(Row)
    BY <1>0 DEF Boards
  <2>2. Updated(brd.conf, given) \in Seq(Row)
    BY <1>c, <2>1, UpdatedRows
  <2>3. b \in Boards /\ b.sys = brd.sys /\ b.net = brd.net
    BY <1>0, <2>2, BoardOps DEF Boards
  <2>4. SendTo(mem.prompt, b)
    BY <1>c
  <2> HIDE DEF b
  <2> QED BY <1>c, <1>s, <2>3, <2>4
<1>3. CASE Panel
  <2>1. \A k \in DOMAIN [panel |-> StandPanel] :
          [panel |-> StandPanel][k] \in Numbers \cup {StandPanel}
    OBVIOUS
  <2>2. On("panel") /\ SendTo(mem.prompt, [brd EXCEPT !.conf = Updated(@, [panel |-> StandPanel])])
    BY <1>3 DEF Panel
  <2> QED BY <1>c, <2>1, <2>2 DEF Commands
<1>4. CASE WriteId
  <2>1. \A k \in DOMAIN [board_id |-> number] :
          [board_id |-> number][k] \in Numbers \cup {StandPanel}
    BY DEF Numbers
  <2>2. On("id") /\ SendTo(mem.prompt, [brd EXCEPT !.conf = Updated(@, [board_id |-> number])])
    BY <1>4 DEF WriteId
  <2> QED BY <1>c, <2>1, <2>2
<1>5. CASE MkFs
  <2>1. On("mkfs") /\ "mkfs" \in Commands \cup {"id"}
    BY <1>5 DEF MkFs, Commands
  <2>2. SendTo(mem.prompt, brd)
    BY <1>5, <2>1, AtPrompt DEF MkFs
  <2> QED BY <1>0, <1>s, <2>1, <2>2
<1>6. CASE MkVol
  <2>1. On("mkvol") /\ "mkvol" \in Commands \cup {"id"}
    BY <1>6 DEF MkVol, Commands
  <2>2. CASE SendTo(mem.prompt, brd)
    BY <1>0, <1>s, <2>1, <2>2
  <2>3. CASE ~SendTo(mem.prompt, brd)
    <3>1. UNCHANGED <<place, mem, brd>>
      BY <1>6, <2>3 DEF MkVol
    <3>2. UNCHANGED <<job, at, step, mode>> /\ mode = "act"
      BY <2>1, <3>1, OnAct DEF place
    <3>3. Fine(Here(step), brd'.sys, brd'.net, mem')
      BY <2>1, <3>1, AtPrompt
    <3> QED BY <3>2, <3>3, OwnStay
  <2> QED BY <2>2, <2>3
<1> QED BY <1>1, <1>2, <1>3, <1>4, <1>5, <1>6

\* DownloadFromTFtp and the partitions.
LEMMA FilesOwn ==
  ASSUME RecipesInOrder, Types, Sound,
         SetupNet \/ (\E f \in Downloads : Get(f)) \/ Parts \/ Find
  PROVE  OwnInv'
<1>0. brd \in Boards /\ mem \in Memories
  BY DEF Types
<1>1. CASE SetupNet
  <2>1. PICK f \in Downloads : On(f)
    BY <1>1 DEF SetupNet
  <2>2. f \in Commands \cup {"id"}
    BY DEF Commands
  <2>3. /\ Here(step) \in Prompts /\ Fine(Here(step), brd.sys, brd.net, mem)
        /\ brd.sys = mem.prompt /\ ~mem.tmo
    BY <2>1, <2>2, AtPrompt
  <2>4. PICK heard \in BOOLEAN :
          /\ Hear(brd.sys = mem.prompt, heard)
          /\ mem' = [mem EXCEPT !.eth = TRUE, !.tmo = ~heard]
          /\ brd' = [brd EXCEPT !.net = heard]
    BY <1>1, <2>3 DEF SetupNet
  <2>5. CASE faulty'
    BY <2>5, FaultyOwn
  <2>6. CASE heard
    <3>1. UNCHANGED <<job, at, step, mode>> /\ mode = "act"
      BY <1>1, <2>1, OnAct DEF SetupNet, place
    <3>2. /\ ~mem'.tmo /\ mem'.nand = mem.nand /\ mem'.been = mem.been /\ mem'.wait = mem.wait
          /\ mem'.prompt = mem.prompt /\ mem'.known = mem.known
          /\ brd'.sys = brd.sys /\ brd'.net
      BY <1>0, <2>4, <2>6 DEF Memories, Boards
    <3>3. Fine(Here(step), brd'.sys, brd'.net, mem')
      BY <2>3, <3>2 DEF Fine, Prompts
    <3> QED BY <3>1, <3>3, OwnStay
  <2> QED BY <2>3, <2>4, <2>5, <2>6, HeardOrLate
<1>2. ASSUME NEW f \in Downloads, Get(f) PROVE OwnInv'
  <2>1. On(f) /\ ~NetNeeded /\ f \in Commands \cup {"id"}
    BY <1>2 DEF Get, Commands
  <2>2. /\ Here(step) \in Prompts /\ Here(step + 1) = Here(step)
        /\ Fine(Here(step), brd.sys, brd.net, mem)
        /\ brd.sys = Here(step) /\ mem.prompt = Here(step) /\ ~mem.tmo
    BY <2>1, AtPrompt
  <2>3. brd.sys \in Shells /\ (brd.sys = "regigraf" \/ brd.net)
    BY <2>1, <2>2 DEF NetNeeded, Fine, Prompts, Shells
  <2>4. CASE Refuse(f)
    <3>1. f # "kernel"
      BY DEF Downloads
    <3>2. faulty'
      BY <2>4, <3>1 DEF Refuse
    <3> QED BY <3>2, FaultyOwn
  <2>5. CASE ~Refuse(f)
    <3>1. PICK heard \in BOOLEAN :
            /\ Hear(brd.sys = mem.prompt, heard)
            /\ mem' = [mem EXCEPT !.tmo = @ \/ ~heard]
            /\ Step(brd, heard, heard \/ f = "packet", step + 1)
      BY <1>2, <2>3, <2>5 DEF Get
    <3>2. CASE faulty'
      BY <3>2, FaultyOwn
    <3>3. CASE heard
      <4>1. mem' = mem
        BY <1>0, <2>2, <3>1, <3>3, NoTimeout
      <4>2. Step(brd, heard, TRUE, step + 1)
        BY <3>1, <3>3
      <4>3. Fine(Here(step + 1), brd.sys, brd.net, mem')
        BY <2>2, <4>1
      <4> QED BY <1>0, <2>1, <4>2, <4>3, OwnOn
    <3> QED BY <2>2, <3>1, <3>2, <3>3, HeardOrLate
  <2> QED BY <2>4, <2>5
<1>3. CASE Parts
  <2>1. On("parts") /\ "parts" \in Commands \cup {"id"}
    BY <1>3 DEF Parts, Commands
  <2>2. /\ Here(step) \in Prompts /\ Here(step + 1) = Here(step)
        /\ Fine(Here(step), brd.sys, brd.net, mem) /\ brd.sys = mem.prompt /\ ~mem.tmo
    BY <2>1, AtPrompt
  <2>3. faulty' \/ (/\ ~mem'.tmo /\ mem'.nand = mem.nand /\ mem'.prompt = mem.prompt
                    /\ mem'.known = mem.known /\ mem'.eth = mem.eth
                    /\ mem'.been = mem.been /\ mem'.wait = mem.wait
                    /\ \E did \in BOOLEAN : Step(brd, did, TRUE, step + 1))
    <3>1. CASE mem.parts
      <4>1. mem' = [mem EXCEPT !.parts = TRUE] /\ Step(brd, TRUE, TRUE, step + 1)
        BY <1>3, <2>2, <3>1 DEF Parts
      <4> QED BY <1>0, <2>2, <4>1 DEF Memories
    <3>2. CASE ~mem.parts
      <4>1. PICK heard \in BOOLEAN :
              /\ Hear(brd.sys = mem.prompt, heard)
              /\ mem' = [mem EXCEPT !.parts = TRUE, !.tmo = ~heard]
              /\ Step(brd, heard, TRUE, step + 1)
        BY <1>3, <2>2, <3>2 DEF Parts
      <4>2. heard \/ faulty'
        BY <2>2, <4>1, HeardOrLate
      <4> QED BY <1>0, <4>1, <4>2 DEF Memories
    <3> QED BY <3>1, <3>2
  <2>4. CASE faulty'
    BY <2>4, FaultyOwn
  <2>5. CASE ~faulty'
    <3>1. Fine(Here(step + 1), brd.sys, brd.net, mem')
      BY <2>2, <2>3, <2>5 DEF Fine, Prompts
    <3> QED BY <1>0, <2>1, <2>3, <2>5, <3>1, OwnOn
  <2> QED BY <2>4, <2>5
<1>4. CASE Find
  <2>1. On("find") /\ "find" \in Commands \cup {"id"} /\ mem' = mem
        /\ Step(brd, mem.known, mem.known, step + 1)
    BY <1>4 DEF Find, Commands
  <2>2. mem.known /\ Fine(Here(step + 1), brd.sys, brd.net, mem')
    BY <2>1, AtPrompt
  <2>3. mem.known = TRUE
    BY <1>0, <2>2 DEF Memories
  <2>4. \E did \in BOOLEAN : Step(brd, did, TRUE, step + 1)
    BY <2>1, <2>3
  <2> QED BY <1>0, <2>1, <2>2, <2>4, OwnOn
<1> QED BY <1>1, <1>2, <1>3, <1>4

\* Logins, registration and tests.
LEMMA LoginOwn ==
  ASSUME RecipesInOrder, Types, Sound, Switch \/ Reboot \/ Login \/ NewPassword
  PROVE  OwnInv'
<1>0. brd \in Boards /\ mem \in Memories
  BY DEF Types
<1>1. CASE Switch
  <2> DEFINE b == IF brd.sys = "initramfs" THEN [brd EXCEPT !.sys = "login"] ELSE brd
  <2>1. On("switch") /\ Await(brd.sys = "initramfs", mem, b)
    BY <1>1 DEF Switch
  <2>2. /\ Here(step) = "initramfs" /\ Here(step + 1) = "login"
        /\ Fine("initramfs", brd.sys, brd.net, mem)
    BY <2>1, SoundOn DEF Moves
  <2>3. brd.sys = "initramfs" /\ mem.known /\ ~mem.tmo /\ ~mem.nand
    BY <2>2 DEF Fine
  <2>4. b \in Boards /\ b.sys = "login"
    BY <1>0, <2>3 DEF Boards, Systems
  <2> HIDE DEF b
  <2>5. Fine(Here(step + 1), b.sys, b.net, mem)
    BY <2>2, <2>3, <2>4 DEF Fine, Linux
  <2> QED BY <2>1, <2>3, <2>4, <2>5, AwaitOwn
<1>2. CASE Reboot
  <2> DEFINE b == IF brd.sys \in Shells THEN [brd EXCEPT !.sys = "login"] ELSE brd
  <2>1. On("reboot") /\ Await(brd.sys \in Shells, mem, b)
    BY <1>2 DEF Reboot
  <2>2. /\ Here(step) \in Prompts /\ Here(step + 1) = "login"
        /\ Fine(Here(step), brd.sys, brd.net, mem)
    BY <2>1, SoundOn DEF Moves
  <2>3. brd.sys \in Shells /\ mem.known /\ ~mem.tmo /\ ~mem.nand
    BY <2>2 DEF Fine, Prompts, Shells
  <2>4. b \in Boards /\ b.sys = "login"
    BY <1>0, <2>3 DEF Boards, Systems
  <2> HIDE DEF b
  <2>5. Fine(Here(step + 1), b.sys, b.net, mem)
    BY <2>2, <2>3, <2>4 DEF Fine, Linux
  <2> QED BY <2>1, <2>3, <2>4, <2>5, AwaitOwn
<1>3. CASE Login
  <2> DEFINE b == [brd EXCEPT !.sys = IF @ = "login" THEN "regigraf" ELSE @]
  <2>1. On("root")
    BY <1>3 DEF Login
  <2>2. /\ Here(step) \in {"login", "regigraf"} /\ Here(step + 1) = "regigraf"
        /\ Fine(Here(step), brd.sys, brd.net, mem)
    BY <2>1, SoundOn DEF Moves
  <2>3. brd.sys \in {"login", "regigraf"} /\ mem.known /\ ~mem.tmo /\ ~mem.nand
    BY <2>2 DEF Fine
  <2>4. b \in Boards /\ b.sys = "regigraf"
    BY <1>0, <2>3 DEF Boards, Systems
  <2>5. PICK heard \in BOOLEAN :
          /\ Hear(brd.sys \in {"login", "regigraf"}, heard)
          /\ mem' = [mem EXCEPT !.prompt = "regigraf", !.tmo = ~heard]
          /\ Step(b, heard, TRUE, step + 1)
    BY <1>3, <2>3 DEF Login
  <2> HIDE DEF b
  <2>6. CASE faulty'
    BY <2>6, FaultyOwn
  <2>7. CASE heard
    <3>1. mem'.prompt = "regigraf" /\ ~mem'.tmo /\ mem'.known /\ ~mem'.nand
      BY <1>0, <2>3, <2>5, <2>7 DEF Memories
    <3>2. Fine(Here(step + 1), b.sys, b.net, mem')
      BY <2>2, <2>4, <3>1 DEF Fine, Linux
    <3> QED BY <2>1, <2>4, <2>5, <3>2, OwnOn
  <2> QED BY <2>3, <2>5, <2>6, <2>7, HeardOrLate
<1>4. CASE NewPassword
  <2>1. PICK s \in {"new", "retype"} : On(s)
    BY <1>4 DEF NewPassword
  <2>2. /\ Here(step) = "regigraf" /\ Here(step + 1) = "regigraf"
        /\ Fine("regigraf", brd.sys, brd.net, mem)
    BY <2>1, SoundOn DEF Moves
  <2>3. brd.sys = "regigraf" /\ Await(brd.sys = "regigraf", mem, brd)
    BY <1>4, <2>2 DEF NewPassword, Fine
  <2>4. Fine(Here(step + 1), brd.sys, brd.net, mem)
    BY <2>2
  <2> QED BY <1>0, <2>1, <2>3, <2>4, AwaitOwn
<1> QED BY <1>1, <1>2, <1>3, <1>4

\* The steps that type nothing.
LEMMA RecordOwn ==
  ASSUME RecipesInOrder, Types, Sound, WriteJson \/ Count \/ Validate \/ Test \/ Nothing
  PROVE  OwnInv'
<1>0. brd \in Boards /\ mem \in Memories
  BY DEF Types
<1>s. ASSUME NEW s \in {"json", "count", "validate", "test"}, On(s), mem' = mem,
             NEW did \in BOOLEAN, Step(brd, did, TRUE, step + 1)
      PROVE  OwnInv'
  <2>1. Moves(s, Here(step), Here(step + 1)) /\ Fine(Here(step), brd.sys, brd.net, mem)
    BY <1>s, SoundOn
  <2>2. Here(step + 1) = Here(step)
    BY <2>1 DEF Moves
  <2>3. Fine(Here(step + 1), brd.sys, brd.net, mem')
    BY <1>s, <2>1, <2>2
  <2> QED BY <1>0, <1>s, <2>3, OwnOn
<1>1. CASE WriteJson \/ Count \/ Test
  <2>1. PICK s \in {"json", "count", "validate", "test"} : On(s)
    BY <1>1 DEF WriteJson, Count, Test
  <2>2. mem' = mem /\ \E did \in BOOLEAN : Step(brd, did, TRUE, step + 1)
    BY <1>1 DEF WriteJson, Count, Test
  <2> QED BY <1>s, <2>1, <2>2
<1>2. CASE Validate
  <2>1. PICK good \in BOOLEAN :
          /\ Step(brd, good /\ mem.known, good /\ mem.known, step + 1)
          /\ faulty' = (faulty \/ ~good)
    BY <1>2 DEF Validate
  <2>2. On("validate") /\ mem' = mem
    BY <1>2 DEF Validate
  <2>3. Here(step) \in Linux /\ Fine(Here(step), brd.sys, brd.net, mem)
    BY <2>2, SoundOn DEF Moves
  <2>4. mem.known = TRUE
    BY <1>0, <2>3 DEF Fine, Linux, Memories
  <2>5. CASE ~good
    <3>1. faulty'
      BY <2>1, <2>5
    <3> QED BY <3>1, FaultyOwn
  <2>6. CASE good
    <3>1. \E did \in BOOLEAN : Step(brd, did, TRUE, step + 1)
      BY <2>1, <2>4, <2>6
    <3> QED BY <1>s, <2>2, <3>1
  <2> QED BY <2>5, <2>6
<1>3. CASE Nothing
  <2>1. On("nothing")
    BY <1>3 DEF Nothing
  <2> QED BY <2>1, SoundOn DEF Moves
<1> QED BY <1>1, <1>2, <1>3

\* What went wrong for a board stays with it, and with the boards after it.
LEMMA Carried ==
  ASSUME Types, Work
  PROVE  spoiled' = spoiled /\ (faulty => faulty')
<1>h. ASSUME NEW said, NEW heard, Hear(said, heard) PROVE faulty => faulty'
  BY <1>h DEF Hear
<1>s. ASSUME NEW b, NEW did, NEW go, NEW n, Step(b, did, go, n) PROVE spoiled' = spoiled
  BY <1>s DEF Step
<1>f. ASSUME UNCHANGED faults PROVE faulty => faulty'
  BY <1>f DEF faults
<1>r. ASSUME NEW f, Refuse(f) PROVE faulty => faulty'
  BY <1>r DEF Refuse
<1>p. ASSUME UNCHANGED place PROVE spoiled' = spoiled
  BY <1>p DEF place
<1>t. ASSUME NEW prompt, NEW b, SendTo(prompt, b) PROVE spoiled' = spoiled /\ (faulty => faulty')
  BY <1>h, <1>s, <1>f, <1>t DEF SendTo
<1>a. ASSUME NEW said, NEW x, NEW b, Await(said, x, b) PROVE spoiled' = spoiled /\ (faulty => faulty')
  BY <1>h, <1>s, <1>a DEF Await
<1>1. CASE Sdp \/ WelcomeSkipped \/ WelcomeMissed \/ WelcomeHeard
  BY <1>h, <1>s, <1>f, <1>1 DEF Sdp, WelcomeSkipped, WelcomeMissed, WelcomeHeard
<1>2. CASE UBoot \/ Shell \/ HwAddr \/ Panel \/ WriteId
  BY <1>t, <1>2 DEF UBoot, Shell, HwAddr, Panel, WriteId
<1>3. CASE Save \/ Reload
  <2>1. CASE Save
    BY <1>h, <1>t, <2>1 DEF Save
  <2>2. CASE Reload
    BY <1>h, <1>s, <1>p, <2>2 DEF Reload
  <2> QED BY <1>3, <2>1, <2>2
<1>4. CASE Nand \/ Conf \/ LoadY \/ Boot
  BY <1>h, <1>s, <1>f, <1>4 DEF Nand, Conf, LoadY, Boot
<1>5. CASE Dhcp
  BY <1>r, <1>s, <1>f, <1>5 DEF Dhcp
<1>6. CASE SetupNet \/ Parts \/ Find \/ Login
  <2>1. CASE SetupNet
    BY <1>h, <1>p, <1>f, <2>1 DEF SetupNet
  <2>2. CASE Parts \/ Find \/ Login
    BY <1>h, <1>s, <1>f, <2>2 DEF Parts, Find, Login
  <2> QED BY <1>6, <2>1, <2>2
<1>7. ASSUME NEW f \in Downloads, Get(f) PROVE spoiled' = spoiled /\ (faulty => faulty')
  BY <1>h, <1>r, <1>s, <1>f, <1>7 DEF Get
<1>8. CASE MkFs \/ MkVol
  <2>1. CASE MkFs
    BY <1>t, <1>s, <1>f, <2>1 DEF MkFs
  <2>2. CASE MkVol
    BY <1>t, <1>p, <2>2 DEF MkVol
  <2> QED BY <1>8, <2>1, <2>2
<1>9. CASE Switch \/ Reboot \/ NewPassword
  BY <1>a, <1>9 DEF Switch, Reboot, NewPassword
<1>10. CASE WriteJson \/ Count \/ Validate \/ Test \/ Nothing
  <2>1. CASE Validate
    BY <1>s, <2>1 DEF Validate
  <2>2. CASE WriteJson \/ Count \/ Test \/ Nothing
    BY <1>s, <1>f, <2>2 DEF WriteJson, Count, Test, Nothing
  <2> QED BY <1>10, <2>1, <2>2
<1> QED BY <1>1, <1>2, <1>3, <1>4, <1>5, <1>6, <1>7, <1>8, <1>9, <1>10 DEF Work

\* An act that fails on every board is followed by none that can succeed.
LEMMA HopelessOwn ==
  ASSUME RecipesInOrder, Types, number \in Registry!Number, ResetInv, Running, Work,
         Act \in Hopeless
  PROVE  OwnInv'
<1>0. ASSUME UNCHANGED <<job, at>> PROVE OwnInv'
  <2>1. Act' = Act
    BY <1>0 DEF Act
  <2> QED BY <2>1 DEF OwnInv, FineInv, FirstFailureIsOwn, Hopeless
<1>1. CASE Act = "nothing"
  BY <1>0, <1>1, NothingFails
<1>2. CASE Act = "kernel_old_sys"
  <2>s. ASSUME NEW b, NEW did, NEW go, NEW n, Step(b, did, go, n) PROVE OwnInv'
    <3>1. job' = job /\ (at' = at \/ (at < Len(job.acts) /\ at' = at + 1 /\ mode' = "act"))
      BY <2>s DEF Step, EndAct
    <3>2. CASE at' = at
      BY <1>0, <3>1, <3>2
    <3>3. CASE at < Len(job.acts) /\ at' = at + 1 /\ mode' = "act"
      <4>1. <<Stage[job][at], Stage[job][at + 1]>> \in Leads(Act) /\ PlaceType
            /\ Stage[job][at] # "lost"
        BY <1>2, NextStage DEF Types, ResetInv
      <4>2. Stage[job][at + 1] = "off"
        BY <1>2, <4>1, LeadsFrom, OnPlace
      <4>3. /\ Plan[job][at + 1] \in AnyAct
            /\ <<"off", Stage[job][at + 2]>> \in Leads(Plan[job][at + 1])
        BY <3>3, <4>1, <4>2, NextStage
      <4>4. Plan[job][at + 1] = "nothing"
        BY <4>3, LeadsFrom DEF AnyAct, Acts, Prompts, Linux
      <4>5. Act' = "nothing"
        BY <3>1, <3>3, <4>4 DEF Act
      <4> QED BY <4>5 DEF OwnInv, FineInv, FirstFailureIsOwn, Hopeless
    <3> QED BY <3>1, <3>2, <3>3
  <2>1. CASE HwAddr
    <3>1. \E b : \E did \in BOOLEAN : Step(b, did, TRUE, step + 1)
      BY <2>1 DEF HwAddr, SendTo
    <3> QED BY <2>s, <3>1
  <2>2. CASE ~HwAddr
    <3>1. Goes
      BY <2>2, WorkGoes
    <3> QED BY <1>0, <2>s, <3>1 DEF Goes
  <2> QED BY <2>1, <2>2
<1> QED BY <1>1, <1>2 DEF Hopeless

\* Whatever the program does at a board.
LEMMA WorkOwn ==
  ASSUME RecipesInOrder, Types, number \in Registry!Number, ResetInv, OwnInv, Work
  PROVE  OwnInv'
<1>1. Running
  <2>1. CASE HwAddr
    BY <2>1 DEF HwAddr, On, Running
  <2>2. CASE ~HwAddr
    BY <2>2, WorkIsOn DEF Running
  <2> QED BY <2>1, <2>2
<1>2. CASE faulty
  BY <1>2, Carried, FaultyOwn
<1>3. CASE spoiled
  BY <1>3, Carried DEF OwnInv, FineInv, FirstFailureIsOwn
<1>4. CASE Act \in Hopeless
  BY <1>1, <1>4, HopelessOwn
<1>5. CASE ~faulty /\ ~spoiled /\ Act \notin Hopeless
  <2>0. Sound
    BY <1>1, <1>5 DEF Sound, ResetInv, OwnInv
  <2>1. CASE Sdp \/ WelcomeSkipped \/ WelcomeMissed \/ WelcomeHeard
    BY <2>0, <2>1, WelcomeOwn
  <2>2. CASE UBoot \/ Nand \/ Conf \/ LoadY \/ Dhcp \/ Boot
    BY <2>0, <2>2, BootOwn
  <2>3. CASE Save \/ Reload
    BY <2>0, <2>3, CycleOwn
  <2>4. CASE Shell \/ HwAddr \/ Panel \/ WriteId \/ MkFs \/ MkVol
    BY <2>0, <2>4, ShellOwn
  <2>5. CASE SetupNet \/ (\E f \in Downloads : Get(f)) \/ Parts \/ Find
    BY <2>0, <2>5, FilesOwn
  <2>6. CASE Switch \/ Reboot \/ Login \/ NewPassword
    BY <2>0, <2>6, LoginOwn
  <2>7. CASE WriteJson \/ Count \/ Validate \/ Test \/ Nothing
    BY <2>0, <2>7, RecordOwn
  <2> QED BY <2>1, <2>2, <2>3, <2>4, <2>5, <2>6, <2>7 DEF Work
<1> QED BY <1>2, <1>3, <1>4, <1>5

\* A board that is put to the stand, while the flags are as at the start.
LEMMA PutOwn ==
  ASSUME RecipesInOrder, Types, NEW b, job' = job, PutBoard(b),
         spoiled' \/ (~mem'.been /\ ~mem'.wait /\ ~mem'.tmo /\ ~mem'.nand)
  PROVE  OwnInv'
<1>1. mode' = "act" /\ Here(step)' = "rom"
  BY PutReset DEF PutBoard
<1>2. brd'.sys = "rom"
  BY DEF PutBoard, NewBoard, Types, Boards
<1>3. CASE spoiled'
  BY <1>1, <1>3 DEF OwnInv, FineInv, FirstFailureIsOwn
<1>4. CASE ~spoiled'
  <2>1. Fine(Here(step), brd.sys, brd.net, mem)'
    BY <1>1, <1>2, <1>4 DEF Fine, Linux
  <2> QED BY <1>1, <2>1 DEF OwnInv, FineInv, FirstFailureIsOwn
<1> QED BY <1>3, <1>4

\* OwnInv is kept by every action.
LEMMA NextOwn ==
  ASSUME RecipesInOrder, Types, number \in Registry!Number, ResetInv, OwnInv, [Next]_vars
  PROVE  OwnInv'
<1>1. CASE Work
  BY <1>1, WorkOwn
<1>2. CASE PowerCycle
  <2>1. UNCHANGED <<job, at, step, mem, faulty, spoiled>> /\ mode' = "reload" /\ mode = "enter"
    BY <1>2 DEF PowerCycle, faults
  <2>2. Act' = Act
    BY <2>1 DEF Act
  <2> QED BY <2>1, <2>2 DEF OwnInv, FineInv, FirstFailureIsOwn, Running
<1>3. CASE Start
  <2>1. PICK b \in Candidates : PutBoard(b)
    BY <1>3 DEF Start
  <2>2. job' = job /\ ~mem'.been /\ ~mem'.wait /\ ~mem'.tmo /\ ~mem'.nand
    BY <1>3 DEF Start, Fresh
  <2> QED BY <2>1, <2>2, PutOwn
<1>4. CASE NextBoard
  <2>1. PICK b \in Candidates : PutBoard(b)
    BY <1>4 DEF NextBoard
  <2>2. job' = job /\ mode = "asked" /\ spoiled' = (spoiled \/ result = "failed")
    BY <1>4 DEF NextBoard
  <2>3. mem' = [mem EXCEPT !.wait = FALSE, !.nand = FALSE, !.known = FALSE, !.tmo = FALSE]
    BY <1>4 DEF NextBoard
  <2>4. ~mem'.wait /\ ~mem'.tmo /\ ~mem'.nand /\ mem'.been = mem.been
    BY <2>3 DEF Types, Memories
  <2>5. result = "failed" \/ ~mem.been
    BY <2>2 DEF ResetInv
  <2> QED BY <2>1, <2>2, <2>4, <2>5, PutOwn
<1>5. CASE Stop
  BY <1>5 DEF Stop, OwnInv, FineInv, FirstFailureIsOwn, Running
<1>6. CASE UNCHANGED vars
  <2>1. UNCHANGED <<job, mode, at, step, result, mem, brd, faulty, spoiled>>
    BY <1>6 DEF vars, place, faults
  <2>2. Act' = Act
    BY <2>1 DEF Act
  <2>3. Here(step)' = Here(step) /\ (Running' <=> Running)
    BY <2>1, <2>2 DEF Here, Running
  <2> QED BY <2>1, <2>2, <2>3 DEF OwnInv, FineInv, FirstFailureIsOwn, Fine
<1> QED BY <1>1, <1>2, <1>3, <1>4, <1>5, <1>6 DEF Next

\* A recipe whose acts are in an order that a board can follow leaves
\* g_already_has_been reset when it is finished, so that the welcome of the next
\* board is awaited.
THEOREM FinishedIsReset == ASSUME RecipesInOrder PROVE Spec => []ResetInv
<1>1. Init => ResetInv
  BY DEF Init, ResetInv, Running
<1>2. Types /\ StoreType /\ ResetInv /\ [Next]_vars => ResetInv'
  BY NextReset DEF StoreType
<1> QED BY <1>1, <1>2, TypesInvariant, PTL DEF Spec

\* FirstFailureIsOwn: such a recipe fails only on a board that was late or has
\* refused something itself, or because of what a recipe that failed before it has
\* left in the globals.
THEOREM FirstFailuresAreOwn == ASSUME RecipesInOrder PROVE Spec => []FirstFailureIsOwn
<1>1. Init => OwnInv
  BY DEF Init, OwnInv, FineInv, FirstFailureIsOwn, Running
<1>2. Types /\ StoreType /\ ResetInv /\ OwnInv /\ [Next]_vars => OwnInv'
  BY NextOwn DEF StoreType
<1>3. OwnInv => FirstFailureIsOwn
  BY DEF OwnInv
<1> QED BY <1>1, <1>2, <1>3, TypesInvariant, FinishedIsReset, PTL DEF Spec
=============================================================================
