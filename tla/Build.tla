--------------------------------- MODULE Build ---------------------------------
(***************************************************************************)
(* rb_build.sh: runs of the build scripts, each of which may be stopped at *)
(* any step: by the user, or by PrintAndDie and LogIt when make, a tool or *)
(* a file fails it (src/rb_build.sh, rb_helpers.sh, rb_kernel.sh,          *)
(* rb_rootfs.sh, rb_uboot.sh, rb_packet.sh).                               *)
(*                                                                         *)
(* What the scripts know of earlier runs are the files they find: a        *)
(* directory that is there counts as unpacked, patched and, for a packet,  *)
(* built; a .config.swap says that the registered configuration is in use. *)
(* todo is what a run has left to do.  git, tar, patch, make and           *)
(* menuconfig are external.                                                *)
(***************************************************************************)
EXTENDS Naturals, Sequences, Functions

CONSTANTS Terminals,    \* where rb_build.sh may be started, one run in each
          Others,       \* the units that are built besides kernel and rootfs
          MaxEdits,     \* bound: how many configurations are edited
          MaxInterrupts \* bound: how many runs are stopped before their end

ASSUME BuildAssumption ==
  Others \subseteq {"uboot", "packet"} /\ MaxEdits \in Nat /\ MaxInterrupts \in Nat

\* The units with a source tree; those with a registered configuration; those
\* whose sources come from a repository, if it can be reached.
Units      == {"kernel", "rootfs"} \cup Others
Configured == {"kernel", "rootfs"}
Cloned     == {"kernel", "uboot"}
Args       == {"build", "config", "mkpatch", "clean"}

VARIABLES
  todo,   \* what the run of a terminal has left to do: steps [do, of]
  edited, \* the edit it has made, or 0
  fresh,  \* PacketBuild: unpacked
  tmp,    \* what is unpacked before it is moved
  tree,   \* the build directories
  dot, swap, reg, \* .config, .config.swap and the registered configuration
  kept,   \* history: the last edit of a config run that put back what it swapped
  own,    \* history: the tree's configuration that was last put aside
  left,   \* history: what a stopped run has left undone: <<unit, what>>
  edits, interrupts

runs    == <<todo, edited, fresh>>
files   == <<tmp, tree>>
configs == <<dot, swap, reg>>
history == <<kept, own, left, edits, interrupts>>
vars    == <<runs, files, configs, history>>

\* right: the patches are in, or the wanted branch is checked out; built: make
\* came to its end.
Tree   == [there : {"none", "part", "whole"}, right : BOOLEAN, built : BOOLEAN]
NoTree == [there |-> "none", right |-> FALSE, built |-> FALSE]
Built  == [there |-> "whole", right |-> TRUE, built |-> TRUE]

\* A tree's own configuration, or the registered one after edit n.
Config   == [of : {"none", "part", "tree", "reg"}, n : 0 .. MaxEdits]
NoConfig == [of |-> "none", n |-> 0]
Part     == [of |-> "part", n |-> 0]

\* The steps of the scripts.
StepNames ==
  {"sources", "clone", "checkout", "unpack", "patch", "unpackAside", "patchAside",
   "rename", "makeDir", "copy", "cancel", "swap", "putAside", "takeOver", "register",
   "putBack", "edit", "rebuild", "make", "diff", "output"}

Steps(u, ds) == [i \in DOMAIN ds |-> [do |-> ds[i], of |-> u]]

TypeOK ==
  /\ todo \in [Terminals -> Seq([do : StepNames, of : Units])]
  /\ edited \in [Terminals -> 0 .. MaxEdits] /\ fresh \in [Terminals -> BOOLEAN]
  /\ tmp \in [Units -> Tree] /\ tree \in [Units -> Tree]
  /\ dot \in [Configured -> Config] /\ swap \in [Configured -> Config]
  /\ reg \in [Configured -> Config] /\ \A u \in Configured : reg[u].of = "reg"
  /\ kept \in [Configured -> 0 .. MaxEdits] /\ own \in [Configured -> Config]
  /\ left \subseteq Units \X {"sources", "make"}
  /\ edits \in 0 .. MaxEdits /\ interrupts \in 0 .. MaxInterrupts

\* A clean checkout, or with trees that somebody has configured by hand.
Init ==
  /\ todo = [t \in Terminals |-> <<>>]
  /\ edited = [t \in Terminals |-> 0] /\ fresh = [t \in Terminals |-> FALSE]
  /\ tmp = [u \in Units |-> NoTree]
  /\ \E c \in SUBSET Configured :
       /\ tree = [u \in Units |-> IF u \in c THEN [Built EXCEPT !.built = FALSE] ELSE NoTree]
       /\ dot = [u \in Configured |-> [of |-> IF u \in c THEN "tree" ELSE "none", n |-> 0]]
  /\ swap = [u \in Configured |-> NoConfig]
  /\ reg = [u \in Configured |-> [of |-> "reg", n |-> 0]]
  /\ kept = [u \in Configured |-> 0] /\ own = [u \in Configured |-> NoConfig]
  /\ left = {} /\ edits = 0 /\ interrupts = 0

-----------------------------------------------------------------------------
(* The scripts, as rows of steps *)

\* How the source tree of u is made when there is none.
Sources(u) == CASE u \in Cloned  -> <<"clone">>
                [] u = "rootfs"  -> <<"unpackAside", "rename", "patch">>
                [] u = "packet"  -> <<"unpackAside", "patchAside", "makeDir", "copy">>

\* BuildKernel, BuildRootFS, BuildUBoot and PacketBuild.  The configuration of
\* U-Boot is a file of its tree; a packet has none and is built.
Work(u, a) ==
  CASE a = "mkpatch" -> IF u \in Configured THEN <<"swap", "diff">> ELSE <<"diff">>
    [] a = "config" /\ u \in Configured -> <<"swap", "edit", "swap">>
    [] a = "config" /\ u = "uboot"      -> <<>>
    [] a \in {"build", "clean"} /\ u = "kernel" -> <<"swap", "make", "output", "swap">>
    [] a \in {"build", "clean"} /\ u = "rootfs" -> <<"swap", "make", "swap", "output">>
    [] a \in {"build", "clean"} /\ u = "uboot"  -> <<"make", "output">>
    [] a \in {"build", "config"} /\ u = "packet" -> <<"rebuild", "output">>
    [] a = "clean" /\ u = "packet"               -> <<"make", "output">>

\* Mutant: what a stopped run has left swapped is not put back.
CancelNothing == <<>>

\* CancelKernel and CancelRootFS, whatever unit is run.
Cancel == Steps("kernel", <<"cancel">>) \o Steps("rootfs", <<"cancel">>)

\* rb_build.sh: ConfigurateKernel looks for the kernel's sources in every run.
Script(u, a) ==
  Steps("kernel", <<"sources">>) \o Cancel
  \o (IF u = "kernel" THEN <<>> ELSE Steps(u, <<"sources">>)) \o Steps(u, Work(u, a))

Start(t, u, a) ==
  /\ todo[t] = <<>>
  /\ todo' = [todo EXCEPT ![t] = Script(u, a)]
  /\ edited' = [edited EXCEPT ![t] = 0] /\ fresh' = [fresh EXCEPT ![t] = FALSE]
  /\ UNCHANGED <<files, configs, history>>

\* Step d of unit u is next; the rest follows, or the steps ds before it.
On(t, d, u)    == todo[t] # <<>> /\ Head(todo[t]) = [do |-> d, of |-> u]
Then(t, u, ds) == todo' = [todo EXCEPT ![t] = Steps(u, ds) \o Tail(@)]

-----------------------------------------------------------------------------
(* Sources *)

\* A directory that is there is taken for the sources.
LookForSources(t, u) ==
  /\ On(t, "sources", u)
  /\ Then(t, u, IF tree[u].there = "none" THEN Sources(u) ELSE <<>>)
  /\ UNCHANGED <<edited, fresh, files, configs, history>>

\* git clone and then git checkout; or else the archive.
Clone(t, u) ==
  /\ On(t, "clone", u)
  /\ \/ /\ tree' = [tree EXCEPT ![u] = [NoTree EXCEPT !.there = "whole"]]
        /\ Then(t, u, <<"checkout">>)
     \/ Then(t, u, <<"unpack", "patch">>) /\ UNCHANGED tree
  /\ UNCHANGED <<edited, fresh, tmp, configs, history>>

\* UnpackArchive, into the tree itself.
Unpack(t, u) ==
  /\ On(t, "unpack", u)
  /\ tree' = [tree EXCEPT ![u] = [NoTree EXCEPT !.there = "whole"]]
  /\ Then(t, u, <<>>)
  /\ UNCHANGED <<edited, fresh, tmp, configs, history>>

\* ApplyAllPatchesFor; git checkout.
Patch(t, u) ==
  /\ On(t, "patch", u) \/ On(t, "checkout", u)
  /\ tree' = [tree EXCEPT ![u].right = TRUE]
  /\ Then(t, u, <<>>)
  /\ UNCHANGED <<edited, fresh, tmp, configs, history>>

\* UnpackArchive beside the tree, over what is left there; ApplyAllPatchesFor.
UnpackAside(t, u) ==
  /\ On(t, "unpackAside", u)
  /\ tmp' = [tmp EXCEPT ![u] = [NoTree EXCEPT !.there = "whole"]]
  /\ Then(t, u, <<>>)
  /\ UNCHANGED <<edited, fresh, tree, configs, history>>

PatchAside(t, u) ==
  /\ On(t, "patchAside", u)
  /\ tmp' = [tmp EXCEPT ![u].right = TRUE]
  /\ Then(t, u, <<>>)
  /\ UNCHANGED <<edited, fresh, tree, configs, history>>

\* BuildRootFS: mv.
Rename(t, u) ==
  /\ On(t, "rename", u)
  /\ tree' = [tree EXCEPT ![u] = tmp[u]] /\ tmp' = [tmp EXCEPT ![u] = NoTree]
  /\ Then(t, u, <<>>)
  /\ UNCHANGED <<edited, fresh, configs, history>>

\* MoveDir: the directory is made, and then its contents are copied.
MakeDir(t, u) ==
  /\ On(t, "makeDir", u)
  /\ tree' = [tree EXCEPT ![u].there = IF @ = "none" THEN "part" ELSE @]
  /\ Then(t, u, <<>>)
  /\ UNCHANGED <<edited, fresh, tmp, configs, history>>

Copy(t, u) ==
  /\ On(t, "copy", u)
  /\ tree' = [tree EXCEPT ![u] = IF tmp[u].there = "none" THEN @ ELSE tmp[u]]
  /\ tmp' = [tmp EXCEPT ![u] = NoTree]
  /\ fresh' = [fresh EXCEPT ![t] = TRUE]
  /\ Then(t, u, <<>>)
  /\ UNCHANGED <<edited, configs, history>>

-----------------------------------------------------------------------------
(* Configurations *)

\* SwapConfig: there or back again.
Swap(t, u) ==
  /\ On(t, "swap", u)
  /\ Then(t, u, IF swap[u] = NoConfig THEN <<"putAside", "takeOver">>
                                      ELSE <<"register", "putBack">>)
  /\ UNCHANGED <<edited, fresh, files, configs, history>>

\* mv of .config to .config.swap, if there is a .config.
PutAside(t, u) ==
  /\ On(t, "putAside", u)
  /\ IF dot[u] = NoConfig
       THEN UNCHANGED <<dot, swap, own>>
       ELSE /\ swap' = [swap EXCEPT ![u] = dot[u]] /\ dot' = [dot EXCEPT ![u] = NoConfig]
            /\ own' = [own EXCEPT ![u] = dot[u]]
  /\ Then(t, u, <<>>)
  /\ UNCHANGED <<edited, fresh, files, reg, kept, left, edits, interrupts>>

\* cp of the registered configuration.
TakeOver(t, u) ==
  /\ On(t, "takeOver", u)
  /\ dot' = [dot EXCEPT ![u] = reg[u]]
  /\ Then(t, u, <<>>)
  /\ UNCHANGED <<edited, fresh, files, swap, reg, history>>

\* Mutant: the files are mixed up.
RegisterSwapped(t, u) ==
  /\ On(t, "register", u)
  /\ reg' = [reg EXCEPT ![u] = swap[u]]
  /\ Then(t, u, <<>>)
  /\ UNCHANGED <<edited, fresh, files, dot, swap, history>>

\* mv of .config to the registered configuration.
Register(t, u) ==
  /\ On(t, "register", u)
  /\ reg' = [reg EXCEPT ![u] = IF dot[u] = NoConfig THEN @ ELSE dot[u]]
  /\ dot' = [dot EXCEPT ![u] = NoConfig]
  /\ Then(t, u, <<>>)
  /\ UNCHANGED <<edited, fresh, files, swap, history>>

\* Mutant: the tree's configuration is removed instead of put back.
PutBackNot(t, u) ==
  /\ On(t, "putBack", u)
  /\ swap' = [swap EXCEPT ![u] = NoConfig]
  /\ Then(t, u, <<>>)
  /\ UNCHANGED <<edited, fresh, files, dot, reg, history>>

\* mv of .config.swap to .config, if it is still there.
PutBack(t, u) ==
  /\ On(t, "putBack", u)
  /\ IF swap[u] = NoConfig
       THEN UNCHANGED <<dot, swap>>
       ELSE dot' = [dot EXCEPT ![u] = swap[u]] /\ swap' = [swap EXCEPT ![u] = NoConfig]
  /\ kept' = [kept EXCEPT ![u] = IF edited[t] > 0 THEN edited[t] ELSE @]
  /\ Then(t, u, <<>>)
  /\ UNCHANGED <<edited, fresh, files, reg, own, left, edits, interrupts>>

\* CancelSwapConfig.
CancelSwap(t, u) ==
  /\ On(t, "cancel", u)
  /\ IF swap[u] = NoConfig
       THEN UNCHANGED <<dot, swap>>
       ELSE dot' = [dot EXCEPT ![u] = swap[u]] /\ swap' = [swap EXCEPT ![u] = NoConfig]
  /\ Then(t, u, <<>>)
  /\ UNCHANGED <<edited, fresh, files, reg, history>>

\* menuconfig, left with or without saving.
Edit(t, u) ==
  /\ On(t, "edit", u)
  /\ \/ /\ edits < MaxEdits
        /\ edits' = edits + 1
        /\ dot' = [dot EXCEPT ![u].n = edits + 1]
        /\ edited' = [edited EXCEPT ![t] = edits + 1]
     \/ UNCHANGED <<edited, dot, edits>>
  /\ Then(t, u, <<>>)
  /\ UNCHANGED <<fresh, files, swap, reg, kept, own, left, interrupts>>

-----------------------------------------------------------------------------
(* Building *)

\* Mutant: a packet is built only on demand.
RebuildNot(t, u) ==
  /\ On(t, "rebuild", u)
  /\ Then(t, u, <<>>)
  /\ UNCHANGED <<edited, fresh, files, configs, history>>

\* PacketBuild: a packet is built if it was unpacked in this run.
Rebuild(t, u) ==
  /\ On(t, "rebuild", u)
  /\ Then(t, u, IF fresh[t] THEN <<"make">> ELSE <<>>)
  /\ UNCHANGED <<edited, fresh, files, configs, history>>

\* TcTargetMakeSources comes to its end.
Make(t, u) ==
  /\ On(t, "make", u)
  /\ tree' = [tree EXCEPT ![u].built = TRUE]
  /\ left' = left \ {<<u, "make">>}
  /\ Then(t, u, <<>>)
  /\ UNCHANGED <<edited, fresh, tmp, configs, kept, own, edits, interrupts>>

\* CreatePatch; a packet that was unpacked for it is not built any more.
Diff(t, u) ==
  /\ On(t, "diff", u)
  /\ left' = IF fresh[t] THEN left \cup {<<u, "make">>} ELSE left
  /\ Then(t, u, <<>>)
  /\ UNCHANGED <<edited, fresh, files, configs, kept, own, edits, interrupts>>

\* The image goes to the output directory; MakeIpkg.
Output(t, u) ==
  /\ On(t, "output", u)
  /\ Then(t, u, <<>>)
  /\ UNCHANGED <<edited, fresh, files, configs, history>>

\* What is left when the step s is stopped before its end, or in the midst.
Midst(s) ==
  CASE s.do = "unpack"    -> /\ tree' = [tree EXCEPT ![s.of].there = "part"]
                             /\ UNCHANGED dot
    [] s.do = "takeOver" -> dot' = [dot EXCEPT ![s.of] = Part] /\ UNCHANGED tree
    [] s.do = "make"      -> tree' = [tree EXCEPT ![s.of].built = FALSE] /\ UNCHANGED dot
    [] s.do \notin {"unpack", "takeOver", "make"} -> UNCHANGED <<tree, dot>>

\* The step after which a unit's directory is there, but unfinished: the
\* sources, or, for a packet, what is made of them.
Unfinished(t, s) ==
  CASE s.do \in {"unpack", "patch", "checkout", "copy"} -> {<<s.of, "sources">>}
    [] s.do = "make" \/ (s.do \in {"rebuild", "diff"} /\ fresh[t]) -> {<<s.of, "make">>}
    [] OTHER -> {}

Interrupt(t) ==
  /\ todo[t] # <<>> /\ interrupts < MaxInterrupts
  /\ interrupts' = interrupts + 1
  /\ todo' = [todo EXCEPT ![t] = <<>>]
  /\ left' = left \cup Unfinished(t, Head(todo[t]))
  /\ Midst(Head(todo[t])) \/ UNCHANGED <<tree, dot>>
  /\ UNCHANGED <<edited, fresh, tmp, swap, reg, kept, own, edits>>

-----------------------------------------------------------------------------
Step(t, u) ==
  \/ LookForSources(t, u) \/ Clone(t, u) \/ Unpack(t, u) \/ Patch(t, u)
  \/ UnpackAside(t, u) \/ PatchAside(t, u) \/ Rename(t, u) \/ MakeDir(t, u) \/ Copy(t, u)
  \/ Rebuild(t, u) \/ Make(t, u) \/ Diff(t, u) \/ Output(t, u)

StepOfConfig(t, u) ==
  \/ Swap(t, u) \/ PutAside(t, u) \/ TakeOver(t, u) \/ Register(t, u) \/ PutBack(t, u)
  \/ CancelSwap(t, u) \/ Edit(t, u)

Next ==
  \E t \in Terminals :
    \/ \E u \in Units, a \in Args : Start(t, u, a)
    \/ \E u \in Units : Step(t, u)
    \/ \E u \in Configured : StepOfConfig(t, u)
    \/ Interrupt(t)

Spec == Init /\ [][Next]_vars

-----------------------------------------------------------------------------
(* Properties *)

\* What was edited in a config run that has put back what it swapped stays
\* registered, whatever later runs do and wherever they are stopped.
EditsKept == \A u \in Configured : reg[u].n >= kept[u]

\* A tree's own configuration, put aside by SwapConfig, is never lost: it is in
\* .config.swap or in .config again.
OwnKept == \A u \in Configured : own[u] # NoConfig => own[u] \in {dot[u], swap[u]}

\* Kernel and root file system are made with the registered configuration, and
\* menuconfig edits it: never with what the tree or a stopped run has left.
ConfigInUse ==
  \A t \in Terminals, u \in Configured :
    On(t, "make", u) \/ On(t, "edit", u) => dot[u] = reg[u]

\* What goes to the output directory was made of whole and patched sources, and
\* make came to its end, unless a run was stopped after the unit's directory was
\* made: the scripts do not look into a directory that is there.
OutputIsWhole ==
  \A t \in Terminals, u \in Units :
    On(t, "output", u) => tree[u] = Built \/ \E w \in {"sources", "make"} : <<u, w>> \in left
=============================================================================
