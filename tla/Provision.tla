------------------------------ MODULE Provision ------------------------------
(***************************************************************************)
(* regiloader at its stand (src/src/utils/regiloader/regiloader.cpp): it   *)
(* executes a recipe, a list of acts, over one board after another by      *)
(* typing commands on the board's serial console and waiting for a prompt, *)
(* and gives each finished board a number.                                 *)
(*                                                                         *)
(* An act is the function DoAction calls for it: the sequence Script(a) of *)
(* its steps, each of which types something and waits for the board to     *)
(* answer.  Commands in a row for one prompt whose answers nobody looks at *)
(* are one step.  A wait (ParseUntil) is heard when the board says what is *)
(* waited for; it times out when the board cannot, or when it is late.     *)
(*                                                                         *)
(* mem is what the program remembers of the board, brd what the board is.  *)
(* How a board answers is external: its boot ROM, U-Boot, the initramfs    *)
(* and the installed system "regigraf".                                    *)
(***************************************************************************)
EXTENDS Naturals, Sequences, FiniteSetsExt, Functions, UBootConf

CONSTANTS
  Jobs,        \* what the program may be started for: the acts of --acts, in
               \* order, and the settings that are not empty
  Password,    \* whether --uboot_pswd is given
  Capacity,    \* CheckBatchCapacity: device numbers are below it, 256 in the code
  MaxBoards,   \* bound: how many boards are brought to the stand
  MaxLate,     \* bound: how many waits time out although the board is right
  StandPanel,  \* the display and touch screen of the state file
  DefaultEnv,  \* the rows of U-Boot's default environment that matter here
  MaxRefused,  \* bound: how many times the TFTP server waits in vain ...
  Refusable,   \* ... and for which downloads it may
  MaxComplaints, \* bound: how many times a volume is too large for a board
  MaxStarts    \* bound: how many times the program is started

Acts == {"uboot", "enter_uboot", "setup_nor", "kernel_uart", "kernel_eth",
         "kernel_dbg", "kernel_old_sys", "rootfs", "mtd_utils", "install_kernel",
         "install_uboot", "install_regigraf", "install_firmware",
         "unpack_rootfs", "setup_booting", "register", "validate_hw", "test_hw"}

\* The files that DownloadFromTFtp fetches; a step of that name fetches one.
Downloads == {"tools", "image", "modules", "bootloader", "rootfs.tar", "packet",
              "license", "firmware"}

ASSUME ProvisionAssumption ==
  /\ \A j \in Jobs : /\ j.acts \in Seq(Acts) /\ j.acts # <<>>
                    /\ j.given \subseteq {"kernel", "rootfs", "utils", "tftp"}
  /\ Password \in BOOLEAN
  /\ Refusable \subseteq Downloads \cup {"kernel"}
  /\ Capacity \in Nat /\ Capacity > 1
  /\ DefaultEnv \in Seq([key : {"panel", "board_id"}, size : {"fits", "long"}])
  /\ MaxComplaints \in Nat
  /\ MaxBoards \in Nat /\ MaxLate \in Nat /\ MaxRefused \in Nat /\ MaxStarts \in Nat

VARIABLES
  job,        \* what the program is used for
  mode,       \* "off", "act", "enter", "reload" or "asked"
  at,         \* the act of the recipe that is executed
  step,       \* the step of its script
  whole,      \* whether each step of the act so far did what it is for
  result,     \* how the last recipe ended: "none", "done" or "failed"
  mem,        \* the program's globals about the board
  board,      \* which board is at the stand
  brd,        \* what that board is
  number,     \* g_sys_state.batch and .device
  file,       \* the same in the state file
  registered, \* the boards with a board-*.json: [board, number, hw]
  counted,    \* those of them that the state file counts: [board, number]
  late,       \* how many waits timed out although the board was right
  refused,    \* how many calls of the TFTP server ended in vain
  complaints, \* how many volumes were too large
  starts,     \* how many times the program was started
  faulty,     \* whether this board was late or refused something in this recipe
  spoiled     \* whether an earlier recipe failed since the program was started

place  == <<job, mode, at, step, whole, result, spoiled>>
faults == <<late, refused, complaints, faulty>>
store  == <<number, file, registered, counted>>
vars   == <<place, mem, board, brd, store, faults, starts>>

Registry == INSTANCE BoardRegistry
  WITH Boards <- 1 .. MaxBoards, next <- file, issued <- counted

NoNumber == [batch |-> 0, device |-> 0]
Numbers  == Registry!Number \cup {NoNumber}

\* The system a board's console is at.
Systems == {"rom", "autoboot", "password", "uboot", "initramfs", "login", "regigraf"}
Shells  == {"initramfs", "regigraf"}

Memories ==
  [been   : BOOLEAN,          \* g_already_has_been
   eth    : BOOLEAN,          \* g_eth_is_ready
   parts  : BOOLEAN,          \* g_parts_are_ready
   prompt : Shells,           \* g_shell_prompt
   tmo    : BOOLEAN,          \* g_parse_timeout_fail
   wait   : BOOLEAN,          \* g_sys_inf.wait_for_reboot
   nand   : BOOLEAN,          \* g_sys_inf.boot_from_nand
   known  : BOOLEAN]          \* g_sys_inf.kernel.partitions is filled

\* A row of the environment: the stand's panel (its keys lcd_model and ts_model)
\* or the board's number, or an erased flash, which reads as one long row.
Row == [key : {"panel", "board_id", "erased"}, value : Numbers \cup {StandPanel},
        size : {"fits", "long", "cut"}]

Boards ==
  [sys    : Systems,
   net    : BOOLEAN,          \* its eth0 is configured
   done   : SUBSET Acts,      \* the acts that were done to it in this recipe, in full
   conf   : Seq(Row),         \* the environment of U-Boot in its NOR flash
   hw     : Numbers]          \* the number in its MAC address

TypeOK ==
  /\ mode \in {"off", "act", "enter", "reload", "asked"}
  /\ job \in Jobs /\ at \in DOMAIN job.acts /\ step \in Nat /\ whole \in BOOLEAN
  /\ result \in {"none", "done", "failed"}
  /\ mem \in Memories
  /\ board \in 0 .. MaxBoards /\ brd \in Boards
  /\ number \in Registry!Number /\ file \in Registry!Number
  /\ registered \subseteq [board : 0 .. MaxBoards, number : Registry!Number, hw : Numbers]
  /\ counted \subseteq [board : 0 .. MaxBoards, number : Registry!Number]
  /\ late \in 0 .. MaxLate /\ refused \in 0 .. MaxRefused
  /\ complaints \in 0 .. MaxComplaints /\ starts \in 0 .. MaxStarts
  /\ faulty \in BOOLEAN /\ spoiled \in BOOLEAN

\* The globals as the program starts with them.
Fresh == [been |-> FALSE, eth |-> FALSE, parts |-> FALSE, prompt |-> "initramfs",
          tmo |-> FALSE, wait |-> FALSE, nand |-> FALSE, known |-> FALSE]

\* What U-Boot saves: its default environment.
Default == [i \in DOMAIN DefaultEnv |->
              [key |-> DefaultEnv[i].key, value |-> NoNumber, size |-> DefaultEnv[i].size]]
Erased  == <<[key |-> "erased", value |-> NoNumber, size |-> "long"]>>

\* A board that has just been switched on with its jumper set: erased, if the
\* recipe sets up its flash, or with an environment.
NewBoard == [sys |-> "rom", net |-> FALSE, done |-> {}, hw |-> NoNumber,
             conf |-> IF "setup_nor" \in Range(job.acts) THEN Erased ELSE Default]

\* The flash of board b says v for key k.
Says(b, k, v) == \E i \in DOMAIN b.conf :
                   b.conf[i].key = k /\ b.conf[i].value = v /\ b.conf[i].size = "fits"

\* The state file holds the numbers SysState starts with.
Init ==
  /\ job \in Jobs
  /\ mode = "off" /\ at = 1 /\ step = 1 /\ whole = TRUE /\ result = "none"
  /\ mem = Fresh /\ board = 0 /\ brd = NewBoard
  /\ file = [batch |-> 3, device |-> 1] /\ number = file /\ registered = {} /\ counted = {}
  /\ late = 0 /\ refused = 0 /\ complaints = 0 /\ starts = 0
  /\ faulty = FALSE /\ spoiled = FALSE

-----------------------------------------------------------------------------
(* Recipes, acts and steps *)

\* The cases of DoAction that fall through, and the settings each case needs.
CasesInOrder == <<"mtd_utils", "install_kernel", "install_uboot",
                  "install_regigraf", "install_firmware", "unpack_rootfs">>
Needs(a) ==
  CASE a \in {"mtd_utils", "install_kernel", "install_uboot"} -> {"utils", "tftp"}
    [] a \in {"install_regigraf", "install_firmware", "kernel_dbg"} -> {"tftp"}
    [] a = "unpack_rootfs" -> {"rootfs"}
    [] a = "rootfs" -> {"rootfs", "tftp"}
    [] a = "kernel_uart" -> {"kernel"}
    [] a = "kernel_eth" -> {"kernel", "tftp"}
    [] OTHER -> {}

\* The act that DoAction executes where the recipe says b.
Executed(b, given) ==
  LET ready == {i \in DOMAIN CasesInOrder :
                  /\ \E k \in 1 .. i : CasesInOrder[k] = b
                  /\ Needs(CasesInOrder[i]) \subseteq given}
  IN  IF b \notin Range(CasesInOrder)
        THEN IF Needs(b) \subseteq given THEN b ELSE "nothing"
        ELSE IF ready = {} THEN "nothing" ELSE CasesInOrder[Min(ready)]

Plan == [j \in Jobs |-> [i \in DOMAIN j.acts |-> Executed(j.acts[i], j.given)]]

\* What the functions of the acts do, step by step.
SetupNor           == <<"welcome", "uboot", "save">>
UploadKernelBegin  == <<"welcome", "conf">>
UploadKernelEnd    == <<"boot", "shell">>
UploadKernelOverUart   == UploadKernelBegin \o <<"loady">> \o UploadKernelEnd
UploadKernelOverEth    == UploadKernelBegin \o <<"dhcp">> \o UploadKernelEnd
UploadKernelWithOldSys == <<"welcome", "nand">> \o UploadKernelOverEth

UploadKernelModulesAndInstall == <<"modules", "shell">>
UploadKernelAndDebug ==
  <<"welcome", "uboot">> \o UploadKernelOverEth \o UploadKernelModulesAndInstall

UploadRootFsOverEth   == <<"rootfs.tar">>
UploadAndInstallTools == <<"tools", "shell">>
UploadAndInstallKernel ==
  <<"image", "parts", "find", "shell">> \o UploadKernelModulesAndInstall
UploadAndInstallUBoot == <<"bootloader", "parts", "find", "shell", "panel">>

MkUbiFsPartition == <<"mkfs", "mkvol">>
UnpackRootFs ==
  <<"parts", "shell">> \o MkUbiFsPartition \o <<"shell">> \o MkUbiFsPartition
    \o <<"shell", "hwaddr">>

LoginToRegiboard       == <<"root">>
UploadAndInstallPacket == <<"packet", "shell">>
UpdateListOfPackets    == <<"shell">>
SetupRegigrafLicense   == <<"license">>
UploadAndInstallRegigraf ==
  <<"shell", "switch">> \o LoginToRegiboard \o <<"shell">> \o UploadAndInstallPacket
    \o UpdateListOfPackets \o SetupRegigrafLicense
UploadAndInstallFirmware == <<"firmware", "shell">> \o UpdateListOfPackets

SetupBooting  == <<"shell", "reboot">>
RegisterBoard == LoginToRegiboard \o <<"id", "new", "retype", "shell", "json", "count">>

\* DoAction: the function of each act.
Script == [a \in Acts \cup {"nothing"} |->
  CASE a = "uboot"            -> <<"sdp">>
    [] a = "enter_uboot"      -> <<"welcome">>
    [] a = "setup_nor"        -> SetupNor
    [] a = "kernel_uart"      -> UploadKernelOverUart
    [] a = "kernel_eth"       -> UploadKernelOverEth
    [] a = "kernel_dbg"       -> UploadKernelAndDebug
    [] a = "kernel_old_sys"   -> UploadKernelWithOldSys
    [] a = "rootfs"           -> UploadRootFsOverEth
    [] a = "mtd_utils"        -> UploadAndInstallTools
    [] a = "install_kernel"   -> UploadAndInstallKernel
    [] a = "install_uboot"    -> UploadAndInstallUBoot
    [] a = "install_regigraf" -> UploadAndInstallRegigraf
    [] a = "install_firmware" -> UploadAndInstallFirmware
    [] a = "unpack_rootfs"    -> UnpackRootFs
    [] a = "setup_booting"    -> SetupBooting
    [] a = "register"         -> RegisterBoard
    [] a = "validate_hw"      -> <<"validate">>
    [] a = "test_hw"          -> <<"test">>
    [] a = "nothing"          -> <<"nothing">>]

\* The act that is executed, and its step that comes next is s.
Act   == Plan[job][at]
On(s) == mode = "act" /\ Script[Act][step] = s

\* Mutant: ExecuteRecipe asks only what the act has returned.
EndActDeaf(ok) ==
  /\ step' = 1
  /\ IF ok
       THEN IF at < Len(job.acts)
              THEN mode' = "act" /\ at' = at + 1 /\ UNCHANGED result
              ELSE mode' = "asked" /\ result' = "done" /\ UNCHANGED at
       ELSE mode' = "asked" /\ result' = "failed" /\ UNCHANGED at

\* ExecuteRecipe: an act has returned ok, and the recipe goes on or ends.
EndAct(ok) ==
  /\ step' = 1
  /\ IF ok /\ ~mem'.tmo
       THEN IF at < Len(job.acts)
              THEN mode' = "act" /\ at' = at + 1 /\ UNCHANGED result
              ELSE mode' = "asked" /\ result' = "done" /\ UNCHANGED at
       ELSE mode' = "asked" /\ result' = "failed" /\ UNCHANGED at

\* The step has done what it is for, if did; the board becomes b and step n is
\* next, if go.  An act that was done from the first step to the last is noted.
Step(b, did, go, n) ==
  /\ UNCHANGED <<job, spoiled>>
  /\ IF go /\ n <= Len(Script[Act])
    THEN /\ step' = n /\ whole' = (whole /\ did) /\ brd' = b
         /\ UNCHANGED <<mode, at, result>>
    ELSE /\ whole' = TRUE
         /\ brd' = [b EXCEPT !.done = IF go /\ whole /\ did /\ ~mem'.tmo
                                        THEN @ \cup {Act} ELSE @]
         /\ EndAct(go)

\* ParseUntil: what the board says is heard, unless it is late.
Hear(said, heard) ==
  /\ heard => said
  /\ IF said /\ ~heard THEN late < MaxLate /\ late' = late + 1 /\ faulty' = TRUE
                       ELSE UNCHANGED <<late, faulty>>
  /\ UNCHANGED <<refused, complaints>>

\* A key typed during U-Boot's countdown stops it.
Typed(b) ==
  IF b.sys = "autoboot"
    THEN [b EXCEPT !.sys = IF Password THEN "password" ELSE "uboot"] ELSE b

\* FillInSysInfo: what the memory keeps of what is heard, of the messages that
\* the program decides by.
FillInSysInfo(x, said) ==
  CASE said = "partitions"  -> [x EXCEPT !.known = TRUE]
    [] said = "power cycle" -> [x EXCEPT !.wait = TRUE]
    [] OTHER -> x

\* SendToUBoot, SendToShell: a command is typed and its prompt awaited, unless
\* a wait has timed out before; the board becomes b, and nobody asks how it went.
SendTo(prompt, b) ==
  IF mem.tmo
    THEN UNCHANGED <<mem, faults>> /\ Step(brd, FALSE, TRUE, step + 1)
    ELSE \E heard \in BOOLEAN :
           /\ Hear(b.sys = prompt, heard)
           /\ mem' = [mem EXCEPT !.tmo = ~heard]
           /\ Step(b, heard, TRUE, step + 1)

\* A wait of its own: x is the memory and b the board if it is heard; the act
\* ends with false if it is not.
Await(said, x, b) ==
  \E heard \in BOOLEAN :
    /\ Hear(said, heard)
    /\ mem' = IF heard THEN x ELSE [x EXCEPT !.tmo = TRUE]
    /\ Step(b, heard, heard, step + 1)

-----------------------------------------------------------------------------
(* The steps: U-Boot and the kernel *)

\* UploadUBoot, over SDP, to a board in its boot ROM.
Sdp ==
  /\ On("sdp")
  /\ \E heard \in BOOLEAN :
       /\ Hear(brd.sys = "rom", heard)
       /\ UNCHANGED mem
       /\ Step(IF heard THEN [brd EXCEPT !.sys = "autoboot"] ELSE brd, heard, heard, step + 1)
  /\ UNCHANGED <<board, store, starts>>

\* WaitForWelcomeFromUBoot: skipped if the welcome was seen before, unless the
\* board was to be rebooted.  (SetupNor answers true if it fails, but it fails
\* by a timeout, which ends the recipe as well.)
WelcomeSkipped ==
  /\ On("welcome") /\ mem.been /\ ~mem.wait
  /\ UNCHANGED <<mem, faults>>
  /\ Step(brd, brd.sys = "uboot", TRUE, step + 1)
  /\ UNCHANGED <<board, store, starts>>

WelcomeMissed ==
  /\ On("welcome") /\ ~(mem.been /\ ~mem.wait)
  /\ Hear(brd.sys = "autoboot", FALSE)
  /\ mem' = [mem EXCEPT !.tmo = TRUE]
  /\ Step(brd, FALSE, FALSE, step)
  /\ UNCHANGED <<board, store, starts>>

\* The welcome is heard.  With a password its prompt has to be heard, too;
\* what follows the password, and "save", nobody looks at.
WelcomeHeard ==
  /\ On("welcome") /\ ~(mem.been /\ ~mem.wait) /\ brd.sys = "autoboot"
  /\ \E asked, heard \in BOOLEAN :
       /\ Hear(TRUE, asked /\ heard)
       /\ asked \/ (Password /\ ~heard)
       /\ mem' = [mem EXCEPT !.been = TRUE, !.tmo = @ \/ ~heard]
       /\ Step([brd EXCEPT !.sys = IF asked THEN "uboot" ELSE "password"],
               heard, asked, step + 1)
  /\ UNCHANGED <<board, store, starts>>

\* Commands for U-Boot whose answers nobody looks at.
UBoot ==
  /\ On("uboot") /\ SendTo("uboot", Typed(brd))
  /\ UNCHANGED <<board, store, starts>>

\* U-Boot saves its environment, if it is typed to it.
Saved(b) == IF b.sys = "uboot" THEN [b EXCEPT !.conf = Default] ELSE b

\* SetupNor, "save": a board whose environment changed asks for a power cycle,
\* and the program waits for the operator.
Save ==
  /\ On("save")
  /\ \/ SendTo("uboot", Saved(Typed(brd))) /\ ~mem.wait
     \/ /\ mem.wait \/ ~mem.tmo
        /\ \E heard \in BOOLEAN :
             /\ Hear(brd.sys = "uboot" /\ ~mem.tmo, heard)
             /\ mem' = [FillInSysInfo(mem, "power cycle") EXCEPT !.tmo = @ \/ ~heard]
             /\ mode' = "enter"
             /\ brd' = IF mem.tmo THEN brd ELSE Saved(Typed(brd))
             /\ UNCHANGED <<job, at, step, whole, result, spoiled>>
  /\ UNCHANGED <<board, store, starts>>

\* The operator switches the board off and on, and presses Enter.
PowerCycle ==
  /\ mode = "enter"
  /\ mode' = "reload"
  /\ brd' = [brd EXCEPT !.sys = "rom", !.net = FALSE]
  /\ UNCHANGED <<job, at, step, whole, result, spoiled, mem, board, store, faults, starts>>

\* Mutant: DoAction uploads U-Boot as long as it works.
ReloadOn ==
  /\ mode = "reload"
  /\ \E heard \in BOOLEAN :
       /\ Hear(TRUE, heard)
       /\ UNCHANGED mem
       /\ IF ~heard THEN Step(brd, FALSE, TRUE, step + 1)
                    ELSE UNCHANGED place /\ brd' = [brd EXCEPT !.sys = "autoboot"]
  /\ UNCHANGED <<board, store, starts>>

\* DoAction uploads U-Boot again until it works.
Reload ==
  /\ mode = "reload"
  /\ \E heard \in BOOLEAN :
       /\ Hear(TRUE, heard)
       /\ UNCHANGED mem
       /\ IF heard THEN Step([brd EXCEPT !.sys = "autoboot"], TRUE, TRUE, step + 1)
                   ELSE UNCHANGED <<place, brd>>
  /\ UNCHANGED <<board, store, starts>>

\* UploadKernelWithOldSys
Nand ==
  /\ On("nand")
  /\ mem' = [mem EXCEPT !.nand = TRUE]
  /\ Step(brd, TRUE, TRUE, step + 1)
  /\ UNCHANGED <<board, store, faults, starts>>

\* UploadKernelBegin after the welcome.
Conf ==
  /\ On("conf")
  /\ IF mem.tmo
       THEN mem' = [mem EXCEPT !.known = FALSE] /\ UNCHANGED faults
            /\ Step(brd, FALSE, TRUE, step + 1)
       ELSE \E heard \in BOOLEAN :
              /\ Hear(Typed(brd).sys = "uboot", heard)
              /\ mem' = [mem EXCEPT !.known = FALSE, !.tmo = ~heard]
              /\ Step(Typed(brd), heard, TRUE, step + 1)
  /\ UNCHANGED <<board, store, starts>>

\* The kernel starts.  Its root is the initramfs, if nandroot was unset.
Booted(b) == [b EXCEPT !.sys = IF mem.tmo \/ mem.nand THEN "login" ELSE "initramfs"]

\* UploadKernelOverUart sends the kernel, whatever becomes of it.
LoadY ==
  /\ On("loady")
  /\ UNCHANGED <<mem, faults>>
  /\ LET b == Typed(brd)
     IN  Step(IF b.sys = "uboot" THEN Booted(b) ELSE b, TRUE, TRUE, step + 1)
  /\ UNCHANGED <<board, store, starts>>

\* The TFTP server waits for file f in vain.  That is the board's own fault;
\* not for a kernel, which is asked for again, unless the board was to be
\* rebooted: then the next try awaits a welcome that does not come.
Refuse(f) ==
  /\ f \in Refusable /\ refused < MaxRefused
  /\ refused' = refused + 1
  /\ faulty' = (faulty \/ f # "kernel" \/ mem.wait)
  /\ UNCHANGED <<late, complaints>>

\* UploadKernelOverEth: U-Boot fetches and boots the kernel, or the loop goes
\* back to UploadKernelBegin.
Dhcp ==
  /\ On("dhcp")
  /\ UNCHANGED mem
  /\ LET b == Typed(brd)
     IN  \/ /\ b.sys = "uboot"
            /\ Step(Booted(b), TRUE, TRUE, step + 1)
            /\ UNCHANGED faults
         \/ /\ IF b.sys = "uboot" THEN Refuse("kernel") ELSE UNCHANGED faults
            /\ Step(b, TRUE, TRUE, step - 2)
  /\ UNCHANGED <<board, store, starts>>

\* Mutant: UploadKernelEnd forgets that the welcome is to be seen again.
BootStale ==
  /\ On("boot")
  /\ \E heard \in BOOLEAN :
       /\ Hear(brd.sys \in {"initramfs", "login"}, heard)
       /\ mem' = [FillInSysInfo(mem, IF heard THEN "partitions" ELSE "nothing")
                    EXCEPT !.eth = FALSE, !.parts = FALSE, !.prompt = "initramfs",
                           !.tmo = @ \/ ~heard]
       /\ Step([brd EXCEPT !.net = FALSE], heard, heard, step + 1)
  /\ UNCHANGED <<board, store, starts>>

\* UploadKernelEnd: the flags about the board are reset and the messages of
\* its boot are read, up to the last one.
Boot ==
  /\ On("boot")
  /\ \E heard \in BOOLEAN :
       /\ Hear(brd.sys \in {"initramfs", "login"}, heard)
       /\ mem' = [FillInSysInfo(mem, IF heard THEN "partitions" ELSE "nothing")
                    EXCEPT !.eth = FALSE, !.been = FALSE, !.parts = FALSE,
                           !.prompt = "initramfs", !.tmo = @ \/ ~heard]
       /\ Step([brd EXCEPT !.net = FALSE], heard, heard, step + 1)
  /\ UNCHANGED <<board, store, starts>>

-----------------------------------------------------------------------------
(* The steps: Linux *)

\* Commands for the shell whose answers nobody looks at.
Shell ==
  /\ On("shell") /\ SendTo(mem.prompt, brd)
  /\ UNCHANGED <<board, store, starts>>

\* DownloadFromTFtp sets up the network of the initramfs, once, ...
NetNeeded == ~mem.eth /\ mem.prompt # "regigraf"

SetupNet ==
  /\ NetNeeded
  /\ \E f \in Downloads : On(f)
  /\ \E heard \in BOOLEAN :
       IF mem.tmo
         THEN /\ heard = FALSE /\ UNCHANGED faults
              /\ mem' = [mem EXCEPT !.eth = TRUE] /\ UNCHANGED brd
         ELSE /\ Hear(brd.sys = mem.prompt, heard)
              /\ mem' = [mem EXCEPT !.eth = TRUE, !.tmo = ~heard]
              /\ brd' = [brd EXCEPT !.net = heard]
  /\ UNCHANGED <<place, board, store, starts>>

\* ... then the board fetches file f: the server has to serve it and the prompt
\* has to come back.  If not, the act ends; but UploadAndInstallRegigraf goes
\* on to its next packet.  (Its four packets are one step.)
Get(f) ==
  /\ On(f) /\ ~NetNeeded
  /\ \/ /\ brd.sys \in Shells /\ (brd.sys = "regigraf" \/ brd.net)
        /\ \E heard \in BOOLEAN :
             /\ Hear(brd.sys = mem.prompt, heard)
             /\ mem' = [mem EXCEPT !.tmo = @ \/ ~heard]
             /\ Step(brd, heard, heard \/ f = "packet", step + 1)
     \/ /\ IF brd.sys \in Shells /\ (brd.sys = "regigraf" \/ brd.net)
             THEN Refuse(f) ELSE UNCHANGED faults
        /\ UNCHANGED mem
        /\ Step(brd, FALSE, f = "packet", step + 2)
  /\ UNCHANGED <<board, store, starts>>

\* UpdateListOfPartitions: the flag is set even if the command was not sent.
Parts ==
  /\ On("parts")
  /\ IF mem.tmo \/ mem.parts
       THEN /\ mem' = [mem EXCEPT !.parts = TRUE] /\ UNCHANGED faults
            /\ Step(brd, ~mem.tmo, TRUE, step + 1)
       ELSE \E heard \in BOOLEAN :
              /\ Hear(brd.sys = mem.prompt, heard)
              /\ mem' = [mem EXCEPT !.parts = TRUE, !.tmo = ~heard]
              /\ Step(brd, heard, TRUE, step + 1)
  /\ UNCHANGED <<board, store, starts>>

\* FindPartition: without the partition the act ends.
Find ==
  /\ On("find")
  /\ UNCHANGED <<mem, faults>>
  /\ Step(brd, mem.known, mem.known, step + 1)
  /\ UNCHANGED <<board, store, starts>>

\* MkUbiFsPartition: nothing is made of a partition that is not known, and
\* UnpackRootFs does not look at it.
MkFs ==
  /\ On("mkfs")
  /\ IF mem.known THEN SendTo(mem.prompt, brd)
                  ELSE UNCHANGED <<mem, faults>> /\ Step(brd, FALSE, TRUE, step + 2)
  /\ UNCHANGED <<board, store, starts>>

\* The volume is made, or the board complains of its size (mk_part_fail) and a
\* smaller one is asked for.  After a timeout nothing is sent, and the answer
\* that was not heard counts as good.
MkVol ==
  /\ On("mkvol")
  /\ \/ SendTo(mem.prompt, brd)
     \/ /\ ~mem.tmo /\ brd.sys = mem.prompt /\ complaints < MaxComplaints
        /\ complaints' = complaints + 1
        /\ UNCHANGED <<place, mem, brd, late, refused, faulty>>
  /\ UNCHANGED <<board, store, starts>>

\* UnpackRootFs: the MAC address is made of the board's number.
HwAddr ==
  /\ On("hwaddr") /\ SendTo(mem.prompt, [brd EXCEPT !.hw = number])
  /\ UNCHANGED <<board, store, starts>>

\* UploadAndInstallUBoot: uboot_conf writes the stand's panel to the NOR flash.
Panel ==
  /\ On("panel")
  /\ SendTo(mem.prompt, [brd EXCEPT !.conf = Updated(@, [panel |-> StandPanel])])
  /\ UNCHANGED <<board, store, starts>>

\* UploadAndInstallRegigraf: switch_root is typed, and the login awaited.
Switch ==
  /\ On("switch")
  /\ Await(brd.sys = "initramfs", mem,
           IF brd.sys = "initramfs" THEN [brd EXCEPT !.sys = "login"] ELSE brd)
  /\ UNCHANGED <<board, store, starts>>

\* SetupBooting: reboot is typed, even if burning the fuses was not answered.
Reboot ==
  /\ On("reboot")
  /\ Await(brd.sys \in Shells, mem,
           IF brd.sys \in Shells THEN [brd EXCEPT !.sys = "login"] ELSE brd)
  /\ UNCHANGED <<board, store, starts>>

\* LoginToRegiboard: the prompt is switched; "root" is typed at the login, or at
\* the shell of a board that is logged in.
Login ==
  /\ On("root")
  /\ IF mem.tmo
       THEN mem' = [mem EXCEPT !.prompt = "regigraf"] /\ UNCHANGED faults
            /\ Step(brd, FALSE, TRUE, step + 1)
       ELSE \E heard \in BOOLEAN :
              /\ Hear(brd.sys \in {"login", "regigraf"}, heard)
              /\ mem' = [mem EXCEPT !.prompt = "regigraf", !.tmo = ~heard]
              /\ Step([brd EXCEPT !.sys = IF @ = "login" THEN "regigraf" ELSE @],
                      heard, TRUE, step + 1)
  /\ UNCHANGED <<board, store, starts>>

-----------------------------------------------------------------------------
(* The steps: registration and tests *)

\* RegisterBoard writes the board's number to its NOR flash ...
WriteId ==
  /\ On("id")
  /\ SendTo(mem.prompt, [brd EXCEPT !.conf = Updated(@, [board_id |-> number])])
  /\ UNCHANGED <<board, store, starts>>

\* ... and sets the password, whether or not the number was written.
NewPassword ==
  /\ On("new") \/ On("retype")
  /\ Await(brd.sys = "regigraf", mem, brd)
  /\ UNCHANGED <<board, store, starts>>

\* Mutant: the board is registered after its number was increased.
WriteJsonLate ==
  /\ On("json")
  /\ registered' = registered \cup
       {[board |-> board, number |-> Registry!Succ(number), hw |-> brd.hw]}
  /\ Step(brd, TRUE, TRUE, step + 1)
  /\ UNCHANGED <<mem, number, file, counted, board, faults, starts>>

\* Mutants: the new number is not saved, or CheckBatchCapacity is not called.
CountUnsaved ==
  /\ On("count")
  /\ counted' = counted \cup {[board |-> board, number |-> number]}
  /\ number' = Registry!Succ(number)
  /\ UNCHANGED mem
  /\ Step(brd, TRUE, TRUE, step + 1)
  /\ UNCHANGED <<registered, file, board, faults, starts>>

CountPast ==
  /\ On("count")
  /\ counted' = counted \cup {[board |-> board, number |-> number]}
  /\ number' = [number EXCEPT !.device = @ + 1] /\ file' = number'
  /\ UNCHANGED mem
  /\ Step(brd, TRUE, TRUE, step + 1)
  /\ UNCHANGED <<registered, board, faults, starts>>

\* Then the board is registered, ...
WriteJson ==
  /\ On("json")
  /\ registered' = registered \cup
       {[board |-> board, number |-> number, hw |-> brd.hw]}
  /\ Step(brd, TRUE, TRUE, step + 1)
  /\ UNCHANGED <<mem, number, file, counted, board, faults, starts>>

\* ... and the next number is made and saved, unless the program is stopped
\* in between.
Count ==
  /\ On("count")
  /\ counted' = counted \cup {[board |-> board, number |-> number]}
  /\ number' = Registry!Succ(number) /\ file' = number'
  /\ UNCHANGED mem
  /\ Step(brd, TRUE, TRUE, step + 1)
  /\ UNCHANGED <<registered, board, faults, starts>>

\* ValidateHardware: the messages of the boot named all devices, or did not.
Validate ==
  /\ On("validate")
  /\ \E good \in BOOLEAN :
       /\ UNCHANGED mem
       /\ Step(brd, good /\ mem.known, good /\ mem.known, step + 1)
       /\ faulty' = (faulty \/ ~good)
  /\ UNCHANGED <<board, store, late, refused, complaints, starts>>

\* TestHardware is not written yet and answers true.
Test ==
  /\ On("test")
  /\ UNCHANGED <<mem, faults>>
  /\ Step(brd, TRUE, TRUE, step + 1)
  /\ UNCHANGED <<board, store, starts>>

\* The settings of the act were not given: DoAction answers false.
Nothing ==
  /\ On("nothing")
  /\ UNCHANGED <<mem, faults>>
  /\ Step(brd, FALSE, FALSE, step)
  /\ UNCHANGED <<board, store, starts>>

-----------------------------------------------------------------------------
(* Boards come and go, the program starts and stops *)

\* The same board again, or the next one.
Candidates == {board, board + 1} \cap 1 .. MaxBoards

\* Board b is put to the stand, jumpered and powered, for a new recipe.
PutBoard(b) ==
  /\ board' = b
  /\ brd' = IF b = board THEN [brd EXCEPT !.sys = "rom", !.net = FALSE, !.done = {}]
                         ELSE NewBoard
  /\ mode' = "act" /\ at' = 1 /\ step' = 1 /\ whole' = TRUE
  /\ result' = "none" /\ faulty' = FALSE

\* main: the state is read from its file, and the first board comes.
Start ==
  /\ mode = "off" /\ starts < MaxStarts
  /\ starts' = starts + 1
  /\ number' = file
  /\ spoiled' = FALSE
  /\ mem' = Fresh
  /\ \E b \in Candidates : PutBoard(b)
  /\ UNCHANGED <<job, file, registered, counted, late, refused, complaints>>

\* The operator wants the recipe once more, for the next board or, if it
\* failed, for the same: g_sys_inf and the timeout are reset, nothing else.
NextBoard ==
  /\ mode = "asked"
  /\ mem' = [mem EXCEPT !.wait = FALSE, !.nand = FALSE, !.known = FALSE, !.tmo = FALSE]
  /\ \E b \in Candidates : (result = "done" => b # board) /\ PutBoard(b)
  /\ spoiled' = (spoiled \/ result = "failed")
  /\ UNCHANGED <<job, store, late, refused, complaints, starts>>

\* The operator answers no, or interrupts the program.
Stop ==
  /\ mode # "off"
  /\ mode' = "off"
  /\ UNCHANGED <<job, at, step, whole, result, spoiled, mem, board, brd, store, faults, starts>>

-----------------------------------------------------------------------------
Work ==
  \/ Sdp \/ WelcomeSkipped \/ WelcomeMissed \/ WelcomeHeard \/ UBoot \/ Save \/ Reload
  \/ Nand \/ Conf \/ LoadY \/ Dhcp \/ Boot
  \/ Shell \/ SetupNet \/ (\E f \in Downloads : Get(f)) \/ Parts \/ Find \/ MkFs \/ MkVol
  \/ HwAddr \/ Panel \/ Switch \/ Reboot \/ Login
  \/ WriteId \/ NewPassword \/ WriteJson \/ Count \/ Validate \/ Test \/ Nothing

Next == Work \/ PowerCycle \/ Start \/ NextBoard \/ Stop

Spec == Init /\ [][Next]_vars

\* The program goes on by itself, and the operator does press Enter.
FairSpec == Spec /\ WF_vars(Work) /\ WF_vars(PowerCycle)

-----------------------------------------------------------------------------
(* Properties *)

\* A recipe makes a board's MAC address (unpack_rootfs) before it registers the
\* board, once more for every time it does, as those of rb_upload_os.sh do.
AddressFirst ==
  \A j \in Jobs : \A k \in DOMAIN j.acts :
    Plan[j][k] = "register" =>
      \E i \in 1 .. k - 1 : /\ Plan[j][i] = "unpack_rootfs"
                            /\ \A m \in i + 1 .. k - 1 : Plan[j][m] # "register"

\* Acts that start a kernel, and those that need U-Boot's prompt to go on.
Kernels    == {"kernel_uart", "kernel_eth", "kernel_dbg", "kernel_old_sys"}
UBootUsers == Kernels \cup {"setup_nor"}

\* Each act has its settings, or it is "nothing": no case of DoAction falls
\* through to another act.
SettingsGiven ==
  \A j \in Jobs : \A k \in DOMAIN j.acts : Plan[j][k] \in {j.acts[k], "nothing"}

\* A board is registered last, and once; its NOR flash is set up before U-Boot is
\* installed.
RegisterLast ==
  \A j \in Jobs : \A k, m \in DOMAIN j.acts : k < m =>
    /\ Plan[j][k] = "register" => Plan[j][m] \notin {"register", "unpack_rootfs", "setup_nor"}
    /\ Plan[j][k] = "install_uboot" => Plan[j][m] # "setup_nor"

\* enter_uboot, which skips a welcome that another board has said, is not the
\* last act that needs U-Boot.
UBootUsed ==
  \A j \in Jobs : \A k \in DOMAIN j.acts :
    Plan[j][k] = "enter_uboot" => \E m \in DOMAIN j.acts : k < m /\ Plan[j][m] \in UBootUsers

\* Where a board is between two acts: in its boot ROM, at U-Boot's countdown or
\* prompt ("boot"), at its prompt ("ready"), perhaps power-cycled ("cycled"), in a
\* Linux, or "off" or "lost" if the recipe ends there.
Stages == {"rom", "boot", "ready", "cycled", "initramfs", "login", "regigraf", "off", "lost"}

\* From where an act can be executed, and where it leads a board that answers.
Leads(a) ==
  LET same(stages) == {<<s, s>> : s \in stages}
      uboot == {"boot", "ready", "cycled"}
      linux == {"initramfs", "regigraf"}
  IN  CASE a = "uboot" -> {<<"rom", "boot">>}
        [] a = "enter_uboot" -> {"boot", "ready"} \X {"ready"}
        [] a = "setup_nor" -> uboot \X {"cycled"}
        [] a \in {"kernel_uart", "kernel_eth"} -> uboot \X {"initramfs"}
        [] a = "kernel_dbg" -> {"boot", "ready"} \X {"initramfs"}
        [] a = "kernel_old_sys" -> uboot \X {"off"}
        [] a = "install_regigraf" -> {<<"initramfs", "regigraf">>}
        [] a = "setup_booting" -> linux \X {"login"}
        [] a = "register" -> {"login", "regigraf"} \X {"regigraf"}
        [] a \in {"validate_hw", "test_hw"} -> same(linux \cup {"login"})
        [] a = "nothing" -> Stages \X {"lost"}
        [] OTHER -> same(linux)

\* A recipe leads a board from its boot ROM through these stages, an act executed
\* at each, and it boots a kernel or ends before.
Itinerary(j, stage) ==
  /\ stage[1] = "rom"
  /\ \A k \in DOMAIN j.acts :
       \/ <<stage[k], stage[k + 1]>> \in Leads(Plan[j][k])
       \/ stage[k] = "lost" /\ stage[k + 1] = "lost"
  /\ stage[Len(j.acts) + 1] \in {"initramfs", "login", "regigraf", "off", "lost"}

\* Recipes name their acts in an order that a board can follow, as those of
\* rb_upload_os.sh do that boot a kernel.
RecipesInOrder == \A j \in Jobs : \E stage \in Seq(Stages) : Itinerary(j, stage)

\* uboot_conf finds row k of an environment: it fits and no long one is before it.
Found(conf, k, i) == /\ conf[i].key = k /\ conf[i].size = "fits"
                     /\ \A m \in 1 .. i - 1 : conf[m].size # "long"

Keeps(conf) == \A k \in {"panel", "board_id"} : \E i \in DOMAIN conf : Found(conf, k, i)

\* A recipe that is reported as finished was executed in full on the board that
\* is at the stand: nothing was skipped after a timeout (SendToUBoot,
\* SendToShell) or under a flag left by another board, the board is registered
\* under the number its MAC address and its NOR flash carry, and its flash names
\* the panel of the stand if U-Boot was installed.
DoneIsComplete ==
  mode = "asked" /\ result = "done" =>
    /\ brd.done = Range(job.acts)
    /\ "register" \in brd.done =>
         \E r \in registered : /\ r.board = board /\ r.hw = brd.hw
                              /\ Says(brd, "board_id", r.number)
    /\ "install_uboot" \in brd.done => Says(brd, "panel", StandPanel)

\* A board gets a number only after its own MAC address was made of it: a
\* failure before RegisterBoard keeps a board out of the registry.
RegisteredHasAddress == \A r \in registered : r.hw = r.number

\* Two boards never get the same number, even if the program is interrupted and
\* started again.
NumbersAreUnique ==
  \A r, s \in counted : r.number = s.number => r.board = s.board

\* Numbers are given out in order, as module BoardRegistry promises.
RegistryKept == Registry!Spec

\* A recipe fails only on a board that was late or refused something itself.
FailureIsOwn == mode = "asked" /\ result = "failed" => faulty

\* The same, as long as no earlier recipe has failed since the program was
\* started and the recipe boots a kernel: what it leaves in the globals when it
\* is finished (UploadKernelEnd resets them) does no harm to the next board.
\* Two acts fail on every board: one without its settings, and kernel_old_sys,
\* which starts the system in NAND and awaits the prompt of the initramfs.
FirstFailureIsOwn ==
  mode = "asked" /\ result = "failed" =>
    faulty \/ spoiled \/ Act \in {"nothing", "kernel_old_sys"}

\* A recipe ends, if no recipe has failed before it: the loops of setup_nor and
\* of kernel_eth do not go on for ever.
RecipeEnds ==
  (mode \in {"act", "enter", "reload"} /\ ~spoiled) ~> mode \in {"off", "asked"}
=============================================================================
