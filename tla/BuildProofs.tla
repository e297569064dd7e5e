----------------------------- MODULE BuildProofs -----------------------------
(***************************************************************************)
(* Proofs about Build: the runs of rb_build.sh, one after the other, each  *)
(* run to its end or stopped at any step.                                  *)
(*                                                                         *)
(* What is left of a run is a row of steps (todo).  The inductive          *)
(* invariant says of every row a run can have come to (Place), the way an  *)
(* annotated program does, what holds there of the configurations, and     *)
(* with it what holds between the steps whether a run goes on or not: own  *)
(* is in .config or in .config.swap (OwnIsThere), what is registered is    *)
(* not older than what was edited (EditsCounted), and a directory that is  *)
(* there is whole unless a run was stopped in it (TreesRight,              *)
(* PacketsBuilt).                                                          *)
(*                                                                         *)
(* All of it is about one terminal (OneTerminal): every start of           *)
(* rb_build.sh cancels the swap of a run that is under way in another one, *)
(* after which the registered configuration is not in use.                 *)
(***************************************************************************)
EXTENDS Build, SequenceTheorems, TLAPS

-----------------------------------------------------------------------------
(* Rows of steps *)

\* Step d of unit u, and K after it.
Do(u, d, K) == <<[do |-> d, of |-> u]>> \o K

StepSet == [do : StepNames, of : Units]

\* The names of the steps are among StepNames.
LEMMA Names ==
  /\ "sources" \in StepNames /\ "clone" \in StepNames /\ "checkout" \in StepNames
  /\ "unpack" \in StepNames /\ "patch" \in StepNames /\ "unpackAside" \in StepNames
  /\ "patchAside" \in StepNames /\ "rename" \in StepNames /\ "makeDir" \in StepNames
  /\ "copy" \in StepNames /\ "cancel" \in StepNames /\ "swap" \in StepNames
  /\ "putAside" \in StepNames /\ "takeOver" \in StepNames /\ "register" \in StepNames
  /\ "putBack" \in StepNames /\ "edit" \in StepNames /\ "rebuild" \in StepNames
  /\ "make" \in StepNames /\ "diff" \in StepNames /\ "output" \in StepNames
  BY DEF StepNames

\* A step before a row makes a row.
LEMMA DoRow ==
  ASSUME NEW u \in Units, NEW d \in StepNames, NEW K \in Seq(StepSet)
  PROVE  Do(u, d, K) \in Seq(StepSet)
  BY DEF Do, StepSet

\* Head and rest of a row.
LEMMA DoHead ==
  ASSUME NEW u, NEW d, NEW K \in Seq(StepSet)
  PROVE  /\ Do(u, d, K) # <<>> /\ Tail(Do(u, d, K)) = K
         /\ Head(Do(u, d, K)).do = d /\ Head(Do(u, d, K)).of = u
<1>1. Do(u, d, K) # <<>> /\ Tail(Do(u, d, K)) = K /\ Head(Do(u, d, K)) = [do |-> d, of |-> u]
  BY DEF Do, StepSet
<1> QED BY <1>1

\* Rows of the scripts, written step by step: none, one, ...
LEMMA NoSteps == ASSUME NEW u, NEW K \in Seq(StepSet) PROVE Steps(u, <<>>) \o K = K
<1>1. Steps(u, <<>>) = <<>>
  BY DEF Steps
<1> QED BY <1>1, ConcatEmptySeq

\* ... one before a row ...
LEMMA OneStep == ASSUME NEW u, NEW d, NEW K PROVE Steps(u, <<d>>) \o K = Do(u, d, K)
  BY DEF Steps, Do

\* Appending rows is associative.
LEMMA RowsAssociative ==
  ASSUME NEW q \in Seq(StepSet), NEW r \in Seq(StepSet), NEW s \in Seq(StepSet)
  PROVE  (q \o r) \o s = q \o (r \o s)
  BY ConcatAssociative

\* What follows the first step may be put together first.
LEMMA StepsApart ==
  ASSUME NEW S, NEW x \in S, NEW r \in Seq(S), NEW K \in Seq(S)
  PROVE  (<<x>> \o r) \o K = <<x>> \o (r \o K)
<1> DEFINE q == <<x>>
<1>1. q \in Seq(S)
  OBVIOUS
<1> HIDE DEF q
<1>2. (q \o r) \o K = q \o (r \o K)
  BY <1>1, ConcatAssociative
<1> QED BY <1>2 DEF q

\* ... two ...
LEMMA TwoSteps ==
  ASSUME NEW u, NEW c, NEW d, NEW K \in Seq(StepSet)
  PROVE  Steps(u, <<c, d>>) \o K = Do(u, c, Do(u, d, K))
<1> DEFINE x == [do |-> c, of |-> u]
            r == Steps(u, <<d>>)
            S == StepSet \cup {[do |-> y, of |-> u] : y \in {c, d}}
<1>1. x \in S /\ r \in Seq(S) /\ K \in Seq(S)
  BY DEF Steps
<1>2. Steps(u, <<c, d>>) = <<x>> \o r
  BY DEF Steps
<1>3. r \o K = Do(u, d, K)
  BY OneStep
<1> HIDE DEF r, S
<1>4. (<<x>> \o r) \o K = <<x>> \o (r \o K)
  <2> HIDE DEF x
  <2> QED BY <1>1, StepsApart
<1> QED BY <1>2, <1>3, <1>4 DEF Do

\* ... three ...
LEMMA ThreeSteps ==
  ASSUME NEW u, NEW c, NEW d, NEW e, NEW K \in Seq(StepSet)
  PROVE  Steps(u, <<c, d, e>>) \o K = Do(u, c, Do(u, d, Do(u, e, K)))
<1> DEFINE x == [do |-> c, of |-> u]
            r == Steps(u, <<d, e>>)
            S == StepSet \cup {[do |-> y, of |-> u] : y \in {c, d, e}}
<1>1. x \in S /\ r \in Seq(S) /\ K \in Seq(S)
  BY DEF Steps
<1>2. Steps(u, <<c, d, e>>) = <<x>> \o r
  BY DEF Steps
<1>3. r \o K = Do(u, d, Do(u, e, K))
  BY TwoSteps
<1> HIDE DEF r, S
<1>4. (<<x>> \o r) \o K = <<x>> \o (r \o K)
  <2> HIDE DEF x
  <2> QED BY <1>1, StepsApart
<1> QED BY <1>2, <1>3, <1>4 DEF Do

\* ... four.
LEMMA FourSteps ==
  ASSUME NEW u, NEW c, NEW d, NEW e, NEW f, NEW K \in Seq(StepSet)
  PROVE  Steps(u, <<c, d, e, f>>) \o K = Do(u, c, Do(u, d, Do(u, e, Do(u, f, K))))
<1> DEFINE x == [do |-> c, of |-> u]
            r == Steps(u, <<d, e, f>>)
            S == StepSet \cup {[do |-> y, of |-> u] : y \in {c, d, e, f}}
<1>1. x \in S /\ r \in Seq(S) /\ K \in Seq(S)
  BY DEF Steps
<1>2. Steps(u, <<c, d, e, f>>) = <<x>> \o r
  BY DEF Steps
<1>3. r \o K = Do(u, d, Do(u, e, Do(u, f, K)))
  BY ThreeSteps, SMTT(30)
<1> HIDE DEF r, S
<1>4. (<<x>> \o r) \o K = <<x>> \o (r \o K)
  <2> HIDE DEF x
  <2> QED BY <1>1, StepsApart
<1> QED BY <1>2, <1>3, <1>4 DEF Do

\* The same at the end of a row.
LEMMA LastOneStep ==
  ASSUME NEW u, NEW c
  PROVE  Steps(u, <<c>>) = Do(u, c, <<>>)
  BY DEF Steps, Do

\* Two, ...
LEMMA LastTwoSteps ==
  ASSUME NEW u, NEW c, NEW d
  PROVE  Steps(u, <<c, d>>) = Do(u, c, Do(u, d, <<>>))
  BY DEF Steps, Do

\* ... three ...
LEMMA LastThreeSteps ==
  ASSUME NEW u, NEW c, NEW d, NEW e
  PROVE  Steps(u, <<c, d, e>>) = Do(u, c, Do(u, d, Do(u, e, <<>>)))
  BY DEF Steps, Do

\* ... and four of them.
LEMMA LastFourSteps ==
  ASSUME NEW u, NEW c, NEW d, NEW e, NEW f
  PROVE  Steps(u, <<c, d, e, f>>) = Do(u, c, Do(u, d, Do(u, e, Do(u, f, <<>>))))
  BY DEF Steps, Do

-----------------------------------------------------------------------------
(* Where a run is *)

\* What is left to do after the kernel's sources were looked for; when the
\* swapped configurations are cancelled; and when the unit's sources are there.
WorkOf(u, a) == Steps(u, Work(u, a))
Unswapped(u, a) == IF u = "kernel" THEN WorkOf(u, a) ELSE Do(u, "sources", WorkOf(u, a))
Cancelling(u, a) == Do("kernel", "cancel", Do("rootfs", "cancel", Unswapped(u, a)))

\* What follows the sources of v.
AfterSources(v) ==
  IF v = "kernel" THEN {Cancelling(u, a) : u \in Units, a \in Args} ELSE {WorkOf(v, a) : a \in Args}

Found(u) == tree[u].there # "none"
Whole(T) == T.there = "whole"
Right(T) == T.there = "whole" /\ T.right

\* The sources of v are made, and then K is done.
MakingCloned(s, v, K) ==
  \/ s = Do(v, "clone", K)
  \/ s = Do(v, "checkout", K) /\ Whole(tree[v])
  \/ s = Do(v, "unpack", Do(v, "patch", K))
  \/ s = Do(v, "patch", K) /\ Whole(tree[v])

MakingRootfs(s, v, K) ==
  \/ s = Do(v, "unpackAside", Do(v, "rename", Do(v, "patch", K)))
  \/ s = Do(v, "rename", Do(v, "patch", K)) /\ Whole(tmp[v])
  \/ s = Do(v, "patch", K) /\ Whole(tree[v])

MakingPacket(s, v, K) ==
  \/ s = Do(v, "unpackAside", Do(v, "patchAside", Do(v, "makeDir", Do(v, "copy", K))))
  \/ s = Do(v, "patchAside", Do(v, "makeDir", Do(v, "copy", K))) /\ Whole(tmp[v])
  \/ s = Do(v, "makeDir", Do(v, "copy", K)) /\ Right(tmp[v])
  \/ s = Do(v, "copy", K) /\ Right(tmp[v])

Making(s, v, K) ==
  \/ s = Do(v, "sources", K)
  \/ v \in Cloned /\ MakingCloned(s, v, K)
  \/ v = "rootfs" /\ MakingRootfs(s, v, K)
  \/ v = "packet" /\ MakingPacket(s, v, K)

NothingSwapped == \A u \in Configured : swap[u] = NoConfig

AtSources(s, v) ==
  /\ \E K \in AfterSources(v) : Making(s, v, K)
  /\ v # "kernel" => NothingSwapped

AtCancel(s) ==
  /\ Found("kernel")
  /\ \E u \in Units, a \in Args :
       \/ s = Cancelling(u, a)
       \/ s = Do("rootfs", "cancel", Unswapped(u, a)) /\ swap["kernel"] = NoConfig

\* A .config that is there is aside, or there was none of the tree's own.
Aside(u) == swap[u] # NoConfig \/ own[u] = NoConfig

\* What takes place under the registered configuration.
Bodies(u) ==
  {Do(u, "diff", <<>>), Do(u, "edit", Do(u, "swap", <<>>))}
  \cup (IF u = "kernel" THEN {Do(u, "make", Do(u, "output", Do(u, "swap", <<>>)))}
                        ELSE {Do(u, "make", Do(u, "swap", Do(u, "output", <<>>)))})

\* u is about to be swapped there ...
Opening(s, u, K) ==
  \/ s = Do(u, "swap", K) /\ swap[u] = NoConfig
  \/ s = Do(u, "putAside", Do(u, "takeOver", K)) /\ swap[u] = NoConfig
  \/ s = Do(u, "takeOver", K) /\ Aside(u)
  \/ s = K /\ Aside(u) /\ dot[u] = reg[u]

\* ... and back again: .config is the registered one, with the last edit.
InUse(t, u) ==
  dot[u].of = "reg" /\ dot[u].n >= kept[u] /\ dot[u].n >= edited[t]

Closing(t, s, u, K) ==
  \/ s = Do(u, "swap", K) /\ (swap[u] # NoConfig => InUse(t, u))
  \/ s = Do(u, "putAside", Do(u, "takeOver", K)) /\ swap[u] = NoConfig
  \/ s = Do(u, "takeOver", K) /\ Aside(u)
  \/ s = Do(u, "register", Do(u, "putBack", K)) /\ swap[u] # NoConfig /\ InUse(t, u)
  \/ s = Do(u, "putBack", K) /\ swap[u] # NoConfig /\ reg[u].n >= edited[t]
  \/ s = K

WorkConfigured(t, s, u) ==
  \/ edited[t] = 0 /\ \E K \in Bodies(u) : Opening(s, u, K)
  \/ Closing(t, s, u, <<>>)
  \/ u = "kernel" /\ tree[u].built /\ s = Do(u, "output", Do(u, "swap", <<>>))
     /\ (swap[u] # NoConfig => InUse(t, u))
  \/ u = "rootfs" /\ tree[u].built /\ Closing(t, s, u, Do(u, "output", <<>>))

WorkOther(s, u) ==
  \/ s = <<>> \/ s = Do(u, "diff", <<>>)
  \/ s = Do(u, "make", Do(u, "output", <<>>))
  \/ u = "packet" /\ s = Do(u, "rebuild", Do(u, "output", <<>>))
  \/ (u = "uboot" => tree[u].built) /\ s = Do(u, "output", <<>>)

AtWork(t, s, u) ==
  /\ Found(u)
  /\ IF u \in Configured THEN WorkConfigured(t, s, u) ELSE WorkOther(s, u)

Begun(t) == edited[t] = 0 /\ ~fresh[t]

Place(t) ==
  LET s == todo[t]
  IN  \/ s = <<>>
      \/ Begun(t) /\ \E v \in Units : AtSources(s, v)
      \/ Begun(t) /\ AtCancel(s)
      \/ \E u \in Units : AtWork(t, s, u)

-----------------------------------------------------------------------------
(* What holds between the steps *)

\* own is where it was put last.
OwnIsThere ==
  \A u \in Configured :
    /\ swap[u] # NoConfig => own[u] = swap[u]
    /\ swap[u] = NoConfig /\ own[u] # NoConfig => dot[u] = own[u]

EditsCounted ==
  /\ \A u \in Configured : reg[u].n >= kept[u] /\ kept[u] <= edits
  /\ \A t \in Terminals : edited[t] <= edits

IsNext(t, ds, u) == todo[t] # <<>> /\ Head(todo[t]).do \in ds /\ Head(todo[t]).of = u

\* A directory that is there is whole and right, unless a run was stopped ...
TreeRight(t, u) ==
  \/ ~Found(u) \/ Right(tree[u]) \/ <<u, "sources">> \in left
  \/ IsNext(t, {"patch", "checkout", "copy"}, u)

TreesRight == \A t \in Terminals, u \in Units : TreeRight(t, u)

\* ... and a packet is built, or was unpacked in this run.
PacketIsBuilt(t, u) ==
  \/ ~Found(u) \/ tree[u].built \/ (\E w \in {"sources", "make"} : <<u, w>> \in left)
  \/ IsNext(t, {"copy"}, u)
  \/ fresh[t] /\ IsNext(t, {"rebuild", "diff", "make"}, u)

PacketsBuilt == \A t \in Terminals : \A u \in Units \cap {"packet"} : PacketIsBuilt(t, u)

Inv == /\ TypeOK /\ OwnIsThere /\ EditsCounted /\ TreesRight /\ PacketsBuilt
       /\ \A t \in Terminals : Place(t)

-----------------------------------------------------------------------------
(* The rows of the scripts *)

\* The rows of Work: under the registered configuration ...
LEMMA WorkConfiguredRow ==
  ASSUME NEW u \in Configured, NEW a \in Args
  PROVE  \E K \in Bodies(u) : WorkOf(u, a) = Do(u, "swap", K)
<1>1. u \in Units
  BY DEF Configured, Units
<1>2. <<>> \in Seq(StepSet)
  OBVIOUS
<1>3. CASE a = "mkpatch"
  <2>1. Work(u, a) = <<"swap", "diff">>
    BY <1>3 DEF Work
  <2>2. WorkOf(u, a) = Do(u, "swap", Do(u, "diff", <<>>))
    BY <2>1, LastTwoSteps DEF WorkOf
  <2> QED BY <2>2 DEF Bodies
<1>4. CASE a = "config"
  <2>1. Work(u, a) = <<"swap", "edit", "swap">>
    BY <1>4 DEF Work, Configured
  <2>2. WorkOf(u, a) = Do(u, "swap", Do(u, "edit", Do(u, "swap", <<>>)))
    BY <2>1, LastThreeSteps DEF WorkOf
  <2> QED BY <2>2 DEF Bodies
<1>5. CASE a \in {"build", "clean"} /\ u = "kernel"
  <2>1. Work(u, a) = <<"swap", "make", "output", "swap">>
    BY <1>5 DEF Work
  <2>2. WorkOf(u, a) = Do(u, "swap", Do(u, "make", Do(u, "output", Do(u, "swap", <<>>))))
    BY <2>1, LastFourSteps DEF WorkOf
  <2> QED BY <1>5, <2>2 DEF Bodies
<1>6. CASE a \in {"build", "clean"} /\ u = "rootfs"
  <2>1. Work(u, a) = <<"swap", "make", "swap", "output">>
    BY <1>6 DEF Work
  <2>2. WorkOf(u, a) = Do(u, "swap", Do(u, "make", Do(u, "swap", Do(u, "output", <<>>))))
    BY <2>1, LastFourSteps DEF WorkOf
  <2> QED BY <1>6, <2>2 DEF Bodies
<1> QED BY <1>3, <1>4, <1>5, <1>6 DEF Args, Configured

\* ... and without one.
LEMMA WorkOtherRow ==
  ASSUME NEW u \in Units \ Configured, NEW a \in Args
  PROVE  \/ WorkOf(u, a) = Do(u, "diff", <<>>)
         \/ WorkOf(u, a) = Do(u, "make", Do(u, "output", <<>>))
         \/ u = "uboot" /\ WorkOf(u, a) = <<>>
         \/ u = "packet" /\ WorkOf(u, a) = Do(u, "rebuild", Do(u, "output", <<>>))
<1>1. u = "uboot" \/ u = "packet"
  BY BuildAssumption DEF Units, Configured
<1>2. <<>> \in Seq(StepSet)
  OBVIOUS
<1>3. CASE a = "mkpatch"
  <2>1. Work(u, a) = <<"diff">>
    BY <1>1, <1>3 DEF Work, Configured
  <2> QED BY <2>1, LastOneStep DEF WorkOf
<1>4. CASE a = "config" /\ u = "uboot"
  <2>1. Work(u, a) = <<>>
    BY <1>4 DEF Work, Configured
  <2> QED BY <1>4, <2>1 DEF WorkOf, Steps
<1>5. CASE (a \in {"build", "clean"} /\ u = "uboot") \/ (a = "clean" /\ u = "packet")
  <2>1. Work(u, a) = <<"make", "output">>
    BY <1>5 DEF Work, Configured
  <2> QED BY <2>1, LastTwoSteps DEF WorkOf
<1>6. CASE a \in {"build", "config"} /\ u = "packet"
  <2>1. Work(u, a) = <<"rebuild", "output">>
    BY <1>6 DEF Work, Configured
  <2> QED BY <1>6, <2>1, LastTwoSteps DEF WorkOf
<1>7. \/ a = "mkpatch"
      \/ a = "config" /\ u = "uboot"
      \/ (a \in {"build", "clean"} /\ u = "uboot") \/ (a = "clean" /\ u = "packet")
      \/ a \in {"build", "config"} /\ u = "packet"
  BY <1>1 DEF Args
<1> QED BY <1>3, <1>4, <1>5, <1>6, <1>7, Zenon

\* What takes place under the registered configuration is a row, ...
LEMMA BodyRow == ASSUME NEW u \in Units PROVE Bodies(u) \subseteq Seq(StepSet)
<1>1. <<>> \in Seq(StepSet)
  OBVIOUS
<1> QED BY <1>1, Names, DoRow, ZenonT(60) DEF Bodies

\* ... what a run is for, ...
LEMMA WorkRow == ASSUME NEW u \in Units, NEW a \in Args PROVE WorkOf(u, a) \in Seq(StepSet)
<1>1. <<>> \in Seq(StepSet)
  OBVIOUS
<1>2. CASE u \in Configured
  BY <1>2, BodyRow, Names, DoRow, WorkConfiguredRow
<1>3. CASE u \notin Configured
  <2>1. Do(u, "output", <<>>) \in Seq(StepSet) /\ Do(u, "diff", <<>>) \in Seq(StepSet)
    BY <1>1, Names, DoRow
  <2>2. /\ Do(u, "make", Do(u, "output", <<>>)) \in Seq(StepSet)
        /\ Do(u, "rebuild", Do(u, "output", <<>>)) \in Seq(StepSet)
    BY <2>1, Names, DoRow
  <2> QED BY <1>1, <1>3, <2>1, <2>2, WorkOtherRow
<1> QED BY <1>2, <1>3

\* ... what comes after the cancelling ...
LEMMA AfterRow ==
  ASSUME NEW u \in Units, NEW a \in Args
  PROVE  Unswapped(u, a) \in Seq(StepSet) /\ Cancelling(u, a) \in Seq(StepSet)
<1>1. Unswapped(u, a) \in Seq(StepSet)
  BY WorkRow, Names, DoRow DEF Unswapped
<1> QED BY <1>1, Names, DoRow DEF Cancelling, Units

\* ... and what comes after the sources.
LEMMA AfterSourcesRow == ASSUME NEW v \in Units PROVE AfterSources(v) \subseteq Seq(StepSet)
  BY WorkRow, AfterRow DEF AfterSources

\* Start: every run looks for the kernel's sources first.
LEMMA ScriptRow ==
  ASSUME NEW u \in Units, NEW a \in Args
  PROVE  Script(u, a) = Do("kernel", "sources", Cancelling(u, a))
<1> DEFINE k == Steps("kernel", <<"sources">>)
            c == Steps("kernel", <<"cancel">>)
            r == Steps("rootfs", <<"cancel">>)
            w == IF u = "kernel" THEN <<>> ELSE Steps(u, <<"sources">>)
<1>1. /\ k \in Seq(StepSet) /\ c \in Seq(StepSet) /\ r \in Seq(StepSet) /\ w \in Seq(StepSet)
      /\ WorkOf(u, a) \in Seq(StepSet)
  <2>1. \A v \in Units, d \in StepNames : Steps(v, <<d>>) \in Seq(StepSet)
    BY DEF Steps, StepSet
  <2>2. k \in Seq(StepSet) /\ c \in Seq(StepSet) /\ r \in Seq(StepSet)
    BY <2>1, Names DEF Units
  <2>3. w \in Seq(StepSet)
    <3>1. Steps(u, <<"sources">>) \in Seq(StepSet)
      BY <2>1, Names
    <3> QED BY <3>1
  <2> QED BY <2>2, <2>3, WorkRow
<1>2. w \o WorkOf(u, a) = Unswapped(u, a)
  BY WorkRow, OneStep, NoSteps, ConcatEmptySeq DEF Unswapped
<1>3. r \o Unswapped(u, a) = Do("rootfs", "cancel", Unswapped(u, a))
  BY OneStep
<1>4. c \o Do("rootfs", "cancel", Unswapped(u, a)) = Cancelling(u, a)
  BY OneStep DEF Cancelling
<1>5. k \o Cancelling(u, a) = Do("kernel", "sources", Cancelling(u, a))
  BY OneStep
<1>6. Script(u, a) = ((k \o (c \o r)) \o w) \o WorkOf(u, a)
  BY DEF Script, Cancel, WorkOf
<1> HIDE DEF k, c, r, w
<1>7. c \o r \in Seq(StepSet) /\ k \o (c \o r) \in Seq(StepSet) /\ w \o WorkOf(u, a) \in Seq(StepSet)
  BY <1>1, ConcatProperties
<1>8. Script(u, a) = (k \o (c \o r)) \o (w \o WorkOf(u, a))
  <2> DEFINE q == k \o (c \o r)
              z == WorkOf(u, a)
  <2>1. q \in Seq(StepSet) /\ z \in Seq(StepSet)
    BY <1>1, <1>7
  <2>2. Script(u, a) = (q \o w) \o z
    BY <1>6
  <2>3. w \in Seq(StepSet)
    BY <1>1
  <2> HIDE DEF q, z
  <2>4. (q \o w) \o z = q \o (w \o z)
    BY <2>1, <2>3, RowsAssociative
  <2> QED BY <2>2, <2>4 DEF q, z
<1>9. Script(u, a) = k \o ((c \o r) \o (w \o WorkOf(u, a)))
  BY <1>1, <1>7, <1>8, RowsAssociative, ZenonT(60)
<1>10. (c \o r) \o (w \o WorkOf(u, a)) = c \o (r \o (w \o WorkOf(u, a)))
  BY <1>1, <1>7, RowsAssociative, SMTT(30)
<1> QED BY <1>2, <1>3, <1>4, <1>5, <1>9, <1>10

-----------------------------------------------------------------------------
(* What a step that is next says of the rest *)

SourceSteps == {"sources", "clone", "checkout", "unpack", "patch", "unpackAside",
                "patchAside", "rename", "makeDir", "copy"}

\* In the sources of v.
MakingNext(s, v, K) ==
  LET d == Head(s).do
  IN  /\ s # <<>> /\ Head(s).of = v /\ d \in SourceSteps
      /\ d \in {"sources", "clone", "checkout", "patch", "copy"} => Tail(s) = K
      /\ d \in {"clone", "checkout", "unpack"} => v \in Cloned
      /\ d \in {"checkout", "patch"} => v # "packet" /\ Whole(tree[v])
      /\ d \in {"unpack", "rename"} => Tail(s) = Do(v, "patch", K)
      /\ d = "rename" => v = "rootfs" /\ Whole(tmp[v])
      /\ d = "unpackAside" =>
           \/ v = "rootfs" /\ Tail(s) = Do(v, "rename", Do(v, "patch", K))
           \/ v = "packet" /\ Tail(s) = Do(v, "patchAside", Do(v, "makeDir", Do(v, "copy", K)))
      /\ d = "patchAside" =>
           v = "packet" /\ Whole(tmp[v]) /\ Tail(s) = Do(v, "makeDir", Do(v, "copy", K))
      /\ d = "makeDir" => v = "packet" /\ Right(tmp[v]) /\ Tail(s) = Do(v, "copy", K)
      /\ d = "copy" => v = "packet" /\ Right(tmp[v])

\* A step that makes sources, and what follows it.
LEMMA MakingHead ==
  ASSUME NEW s, NEW v \in Units, NEW K \in Seq(StepSet), Making(s, v, K)
  PROVE  MakingNext(s, v, K)
<1> DEFINE p == Do(v, "patch", K)
            q == Do(v, "rename", p)
            c == Do(v, "copy", K)
            m == Do(v, "makeDir", c)
            n == Do(v, "patchAside", m)
<1>1. p \in Seq(StepSet) /\ c \in Seq(StepSet)
  BY Names, DoRow
<1>2. q \in Seq(StepSet) /\ m \in Seq(StepSet)
  BY <1>1, Names, DoRow
<1>3. n \in Seq(StepSet)
  BY <1>2, Names, DoRow
<1> HIDE DEF p, q, c, m, n
<1>4. CASE s = Do(v, "sources", K)
  <2>1. s # <<>> /\ Head(s).do = "sources" /\ Head(s).of = v /\ Tail(s) = K
    BY <1>4, DoHead
  <2> QED BY <2>1 DEF MakingNext, SourceSteps, p, q, c, m, n
<1>5. CASE v \in Cloned /\ MakingCloned(s, v, K)
  <2>1. CASE s = Do(v, "clone", K)
    <3>1. s # <<>> /\ Head(s).do = "clone" /\ Head(s).of = v /\ Tail(s) = K
      BY <2>1, DoHead
    <3> QED BY <1>5, <2>1, <3>1 DEF MakingNext, SourceSteps, Cloned, p, q, c, m, n
  <2>2. CASE s = Do(v, "checkout", K) /\ Whole(tree[v])
    <3>1. s # <<>> /\ Head(s).do = "checkout" /\ Head(s).of = v /\ Tail(s) = K
      BY <2>2, DoHead
    <3> QED BY <1>5, <2>2, <3>1 DEF MakingNext, SourceSteps, Cloned, p, q, c, m, n
  <2>3. CASE s = Do(v, "unpack", p)
    <3>1. s # <<>> /\ Head(s).do = "unpack" /\ Head(s).of = v /\ Tail(s) = p
      BY <1>1, <2>3, DoHead
    <3> QED BY <1>5, <2>3, <3>1 DEF MakingNext, SourceSteps, Cloned, p, q, c, m, n
  <2>4. CASE s = Do(v, "patch", K) /\ Whole(tree[v])
    <3>1. s # <<>> /\ Head(s).do = "patch" /\ Head(s).of = v /\ Tail(s) = K
      BY <2>4, DoHead
    <3> QED BY <1>5, <2>4, <3>1 DEF MakingNext, SourceSteps, Cloned, p, q, c, m, n
  <2> QED BY <1>5, <2>1, <2>2, <2>3, <2>4 DEF MakingCloned, p
<1>6. CASE v = "rootfs" /\ MakingRootfs(s, v, K)
  <2>1. CASE s = Do(v, "unpackAside", q)
    <3>1. s # <<>> /\ Head(s).do = "unpackAside" /\ Head(s).of = v /\ Tail(s) = q
      BY <1>2, <2>1, DoHead
    <3> QED BY <1>6, <2>1, <3>1 DEF MakingNext, SourceSteps, p, q, c, m, n
  <2>2. CASE s = Do(v, "rename", p) /\ Whole(tmp[v])
    <3>1. s # <<>> /\ Head(s).do = "rename" /\ Head(s).of = v /\ Tail(s) = p
      BY <1>1, <2>2, DoHead
    <3> QED BY <1>6, <2>2, <3>1 DEF MakingNext, SourceSteps, p, q, c, m, n
  <2>3. CASE s = Do(v, "patch", K) /\ Whole(tree[v])
    <3>1. s # <<>> /\ Head(s).do = "patch" /\ Head(s).of = v /\ Tail(s) = K
      BY <2>3, DoHead
    <3> QED BY <1>6, <2>3, <3>1 DEF MakingNext, SourceSteps, p, q, c, m, n
  <2> QED BY <1>6, <2>1, <2>2, <2>3 DEF MakingRootfs, p, q
<1>7. CASE v = "packet" /\ MakingPacket(s, v, K)
  <2>1. CASE s = Do(v, "unpackAside", n)
    <3>1. s # <<>> /\ Head(s).do = "unpackAside" /\ Head(s).of = v /\ Tail(s) = n
      BY <1>3, <2>1, DoHead
    <3> QED BY <1>7, <2>1, <3>1 DEF MakingNext, SourceSteps, p, q, c, m, n
  <2>2. CASE s = Do(v, "patchAside", m) /\ Whole(tmp[v])
    <3>1. s # <<>> /\ Head(s).do = "patchAside" /\ Head(s).of = v /\ Tail(s) = m
      BY <1>2, <2>2, DoHead
    <3> QED BY <1>7, <2>2, <3>1 DEF MakingNext, SourceSteps, p, q, c, m, n
  <2>3. CASE s = Do(v, "makeDir", c) /\ Right(tmp[v])
    <3>1. s # <<>> /\ Head(s).do = "makeDir" /\ Head(s).of = v /\ Tail(s) = c
      BY <1>1, <2>3, DoHead
    <3> QED BY <1>7, <2>3, <3>1 DEF MakingNext, SourceSteps, p, q, c, m, n
  <2>4. CASE s = Do(v, "copy", K) /\ Right(tmp[v])
    <3>1. s # <<>> /\ Head(s).do = "copy" /\ Head(s).of = v /\ Tail(s) = K
      BY <2>4, DoHead
    <3> QED BY <1>7, <2>4, <3>1 DEF MakingNext, SourceSteps, p, q, c, m, n
  <2> QED BY <1>7, <2>1, <2>2, <2>3, <2>4 DEF MakingPacket, c, m, n
<1> QED BY <1>4, <1>5, <1>6, <1>7 DEF Making

\* Under the registered configuration.
WorkSteps == {"swap", "putAside", "takeOver", "register", "putBack", "edit", "make", "diff",
              "rebuild", "output"}

Last(u, K) ==
  \/ K = <<>>
  \/ u = "rootfs" /\ tree[u].built /\ K = Do(u, "output", <<>>)

OfBody(t, u, K) == edited[t] = 0 /\ K \in Bodies(u)

WorkNext(t, s, u) ==
  LET d == Head(s).do
      K == Tail(s)
  IN  /\ Head(s).of = u /\ d \in WorkSteps \ {"rebuild"}
      /\ d = "swap" => \/ swap[u] = NoConfig /\ OfBody(t, u, K)
                       \/ Last(u, K) /\ (swap[u] # NoConfig => InUse(t, u))
      /\ d = "putAside" =>
           /\ swap[u] = NoConfig
           /\ \E L : K = Do(u, "takeOver", L) /\ (OfBody(t, u, L) \/ Last(u, L))
      /\ d = "takeOver" => Aside(u) /\ (OfBody(t, u, K) \/ Last(u, K))
      /\ d = "register" =>
           /\ swap[u] # NoConfig /\ InUse(t, u)
           /\ \E L : K = Do(u, "putBack", L) /\ Last(u, L)
      /\ d = "putBack" => swap[u] # NoConfig /\ reg[u].n >= edited[t] /\ Last(u, K)
      /\ d \in {"edit", "make", "diff"} => Aside(u) /\ dot[u] = reg[u] /\ edited[t] = 0
      /\ d = "diff" => K = <<>>
      /\ d = "edit" => K = Do(u, "swap", <<>>)
      /\ d = "make" => K = IF u = "kernel" THEN Do(u, "output", Do(u, "swap", <<>>))
                                           ELSE Do(u, "swap", Do(u, "output", <<>>))
      /\ d = "output" =>
           /\ tree[u].built
           /\ \/ K = <<>>
              \/ u = "kernel" /\ K = Do(u, "swap", <<>>) /\ (swap[u] # NoConfig => InUse(t, u))

\* A step of a unit with a registered configuration, ...
LEMMA WorkHead ==
  ASSUME NEW t, NEW s, NEW u \in Configured, WorkConfigured(t, s, u), s # <<>>
  PROVE  WorkNext(t, s, u)
<1> DEFINE e == <<>>
            w == Do(u, "swap", e)
            o == Do(u, "output", e)
            ow == Do(u, "output", w)
            wo == Do(u, "swap", o)
<1>1. u \in Units /\ e \in Seq(StepSet)
  BY DEF Configured, Units
<1>2. w \in Seq(StepSet) /\ o \in Seq(StepSet)
  BY <1>1, Names, DoRow
<1>3. ow \in Seq(StepSet) /\ wo \in Seq(StepSet)
  BY <1>1, <1>2, Names, DoRow
<1> HIDE DEF e, w, o, ow, wo
<1>4. ASSUME NEW K \in Bodies(u), edited[t] = 0, Opening(s, u, K) PROVE WorkNext(t, s, u)
  <2>1. K \in Seq(StepSet)
    BY <1>1, BodyRow
  <2>2. Do(u, "takeOver", K) \in Seq(StepSet)
    BY <1>1, <2>1, Names, DoRow
  <2>3. CASE s = Do(u, "swap", K) /\ swap[u] = NoConfig
    <3>1. s # <<>> /\ Head(s).do = "swap" /\ Head(s).of = u /\ Tail(s) = K
      BY <2>1, <2>3, DoHead
    <3> QED BY <1>4, <2>3, <3>1 DEF WorkNext, WorkSteps, OfBody
  <2>4. CASE s = Do(u, "putAside", Do(u, "takeOver", K)) /\ swap[u] = NoConfig
    <3>1. s # <<>> /\ Head(s).do = "putAside" /\ Head(s).of = u /\ Tail(s) = Do(u, "takeOver", K)
      BY <2>2, <2>4, DoHead
    <3> QED BY <1>4, <2>4, <3>1 DEF WorkNext, WorkSteps, OfBody
  <2>5. CASE s = Do(u, "takeOver", K) /\ Aside(u)
    <3>1. s # <<>> /\ Head(s).do = "takeOver" /\ Head(s).of = u /\ Tail(s) = K
      BY <2>1, <2>5, DoHead
    <3> QED BY <1>4, <2>5, <3>1 DEF WorkNext, WorkSteps, OfBody
  <2>6. CASE s = K /\ Aside(u) /\ dot[u] = reg[u]
    <3>1. CASE K = Do(u, "diff", e)
      <4>1. s # <<>> /\ Head(s).do = "diff" /\ Head(s).of = u /\ Tail(s) = e
        BY <1>1, <2>6, <3>1, DoHead
      <4> QED BY <1>4, <2>6, <3>1, <4>1 DEF WorkNext, WorkSteps, e
    <3>2. CASE K = Do(u, "edit", w)
      <4>1. s # <<>> /\ Head(s).do = "edit" /\ Head(s).of = u /\ Tail(s) = w
        BY <1>2, <2>6, <3>2, DoHead
      <4> QED BY <1>4, <2>6, <3>2, <4>1 DEF WorkNext, WorkSteps, w, e
    <3>3. CASE u = "kernel" /\ K = Do(u, "make", ow)
      <4>1. s # <<>> /\ Head(s).do = "make" /\ Head(s).of = u /\ Tail(s) = ow
        BY <1>3, <2>6, <3>3, DoHead
      <4> QED BY <1>4, <2>6, <3>3, <4>1 DEF WorkNext, WorkSteps, ow, w, e
    <3>4. CASE u # "kernel" /\ K = Do(u, "make", wo)
      <4>1. s # <<>> /\ Head(s).do = "make" /\ Head(s).of = u /\ Tail(s) = wo
        BY <1>3, <2>6, <3>4, DoHead
      <4> QED BY <1>4, <2>6, <3>4, <4>1 DEF WorkNext, WorkSteps, wo, o, e
    <3> QED BY <1>4, <3>1, <3>2, <3>3, <3>4 DEF Bodies, e, w, o, ow, wo
  <2> QED BY <1>4, <2>3, <2>4, <2>5, <2>6 DEF Opening
<1>5. ASSUME NEW L, Last(u, L), Closing(t, s, u, L) PROVE WorkNext(t, s, u)
  <2>1. L \in Seq(StepSet)
    BY <1>1, <1>2, <1>5 DEF Last, o, e
  <2>2. Do(u, "takeOver", L) \in Seq(StepSet) /\ Do(u, "putBack", L) \in Seq(StepSet)
    BY <1>1, <2>1, Names, DoRow
  <2>3. CASE s = Do(u, "swap", L) /\ (swap[u] # NoConfig => InUse(t, u))
    <3>1. s # <<>> /\ Head(s).do = "swap" /\ Head(s).of = u /\ Tail(s) = L
      BY <2>1, <2>3, DoHead
    <3> QED BY <1>5, <2>3, <3>1 DEF WorkNext, WorkSteps
  <2>4. CASE s = Do(u, "putAside", Do(u, "takeOver", L)) /\ swap[u] = NoConfig
    <3>1. s # <<>> /\ Head(s).do = "putAside" /\ Head(s).of = u /\ Tail(s) = Do(u, "takeOver", L)
      BY <2>2, <2>4, DoHead
    <3> QED BY <1>5, <2>4, <3>1 DEF WorkNext, WorkSteps
  <2>5. CASE s = Do(u, "takeOver", L) /\ Aside(u)
    <3>1. s # <<>> /\ Head(s).do = "takeOver" /\ Head(s).of = u /\ Tail(s) = L
      BY <2>1, <2>5, DoHead
    <3> QED BY <1>5, <2>5, <3>1 DEF WorkNext, WorkSteps
  <2>6. CASE s = Do(u, "register", Do(u, "putBack", L)) /\ swap[u] # NoConfig /\ InUse(t, u)
    <3>1. s # <<>> /\ Head(s).do = "register" /\ Head(s).of = u /\ Tail(s) = Do(u, "putBack", L)
      BY <2>2, <2>6, DoHead
    <3> QED BY <1>5, <2>6, <3>1 DEF WorkNext, WorkSteps
  <2>7. CASE s = Do(u, "putBack", L) /\ swap[u] # NoConfig /\ reg[u].n >= edited[t]
    <3>1. s # <<>> /\ Head(s).do = "putBack" /\ Head(s).of = u /\ Tail(s) = L
      BY <2>1, <2>7, DoHead
    <3> QED BY <1>5, <2>7, <3>1 DEF WorkNext, WorkSteps
  <2>8. CASE s = L
    <3>1. u = "rootfs" /\ tree[u].built /\ s = o
      BY <1>5, <2>8 DEF Last, o, e
    <3>2. s # <<>> /\ Head(s).do = "output" /\ Head(s).of = u /\ Tail(s) = e
      BY <1>1, <3>1, DoHead DEF o
    <3> QED BY <3>1, <3>2 DEF WorkNext, WorkSteps, e
  <2> QED BY <1>5, <2>3, <2>4, <2>5, <2>6, <2>7, <2>8 DEF Closing
<1>6. CASE u = "kernel" /\ tree[u].built /\ s = Do(u, "output", w) /\ (swap[u] # NoConfig => InUse(t, u))
  <2>1. s # <<>> /\ Head(s).do = "output" /\ Head(s).of = u /\ Tail(s) = w
    BY <1>2, <1>6, DoHead
  <2> QED BY <1>6, <2>1 DEF WorkNext, WorkSteps, w, e
<1> QED BY <1>4, <1>5, <1>6 DEF WorkConfigured, Last, w, e

\* Without a configuration.
OtherNext(s, u) ==
  LET d == Head(s).do
      K == Tail(s)
  IN  /\ Head(s).of = u /\ d \in {"diff", "make", "rebuild", "output"}
      /\ d = "diff" => K = <<>>
      /\ d = "make" => K = Do(u, "output", <<>>)
      /\ d = "rebuild" => u = "packet" /\ K = Do(u, "output", <<>>)
      /\ d = "output" => K = <<>> /\ (u = "uboot" => tree[u].built)

\* ... of a unit without one, ...
LEMMA OtherHead ==
  ASSUME NEW s, NEW u \in Units, WorkOther(s, u), s # <<>>
  PROVE  OtherNext(s, u)
<1> DEFINE e == <<>>
            o == Do(u, "output", e)
<1>1. e \in Seq(StepSet)
  OBVIOUS
<1>2. o \in Seq(StepSet)
  BY <1>1, Names, DoRow
<1> HIDE DEF e, o
<1>3. CASE s = Do(u, "diff", e)
  <2>1. s # <<>> /\ Head(s).do = "diff" /\ Head(s).of = u /\ Tail(s) = e
    BY <1>1, <1>3, DoHead
  <2> QED BY <1>3, <2>1 DEF OtherNext, e
<1>4. CASE s = Do(u, "make", o)
  <2>1. s # <<>> /\ Head(s).do = "make" /\ Head(s).of = u /\ Tail(s) = o
    BY <1>2, <1>4, DoHead
  <2> QED BY <1>4, <2>1 DEF OtherNext, o, e
<1>5. CASE u = "packet" /\ s = Do(u, "rebuild", o)
  <2>1. s # <<>> /\ Head(s).do = "rebuild" /\ Head(s).of = u /\ Tail(s) = o
    BY <1>2, <1>5, DoHead
  <2> QED BY <1>5, <2>1 DEF OtherNext, o, e
<1>6. CASE (u = "uboot" => tree[u].built) /\ s = Do(u, "output", e)
  <2>1. s # <<>> /\ Head(s).do = "output" /\ Head(s).of = u /\ Tail(s) = e
    BY <1>1, <1>6, DoHead
  <2> QED BY <1>6, <2>1 DEF OtherNext, e
<1> QED BY <1>3, <1>4, <1>5, <1>6 DEF WorkOther, o, e

\* Between the sources of the kernel and those of the unit.
CancelNext(s) ==
  /\ Head(s).do = "cancel"
  /\ \E u \in Units, a \in Args :
       \/ Head(s).of = "kernel" /\ Tail(s) = Do("rootfs", "cancel", Unswapped(u, a))
       \/ Head(s).of = "rootfs" /\ Tail(s) = Unswapped(u, a) /\ swap["kernel"] = NoConfig

\* ... and the cancelling of a swap that a stopped run has left.
LEMMA CancelHead ==
  ASSUME NEW s, AtCancel(s)
  PROVE  s # <<>> /\ CancelNext(s)
<1>1. PICK u \in Units, a \in Args :
        \/ s = Cancelling(u, a)
        \/ s = Do("rootfs", "cancel", Unswapped(u, a)) /\ swap["kernel"] = NoConfig
  BY DEF AtCancel
<1> DEFINE x == Unswapped(u, a)
            c == Do("rootfs", "cancel", x)
<1>2. x \in Seq(StepSet)
  BY AfterRow
<1>3. c \in Seq(StepSet)
  BY <1>2, Names, DoRow DEF Units
<1> HIDE DEF x, c
<1>4. CASE s = Do("kernel", "cancel", c)
  <2>1. s # <<>> /\ Head(s).do = "cancel" /\ Head(s).of = "kernel" /\ Tail(s) = c
    BY <1>3, <1>4, DoHead
  <2> QED BY <2>1 DEF CancelNext, c, x
<1>5. CASE s = c /\ swap["kernel"] = NoConfig
  <2>1. s # <<>> /\ Head(s).do = "cancel" /\ Head(s).of = "rootfs" /\ Tail(s) = x
    BY <1>2, <1>5, DoHead DEF c
  <2> QED BY <1>5, <2>1 DEF CancelNext, x
<1> QED BY <1>1, <1>4, <1>5 DEF Cancelling, c, x

\* The next step of a run says in which part of the script the run is.
LEMMA PlaceHead ==
  ASSUME NEW t \in Terminals, Place(t), todo[t] # <<>>
  PROVE  LET s == todo[t]
             d == Head(s).do
             u == Head(s).of
         IN  \/ /\ d \in SourceSteps /\ u \in Units /\ Begun(t) /\ (u # "kernel" => NothingSwapped)
                /\ \E K \in AfterSources(u) : MakingNext(s, u, K)
             \/ d = "cancel" /\ Begun(t) /\ Found("kernel") /\ CancelNext(s)
             \/ /\ d \in WorkSteps /\ u \in Units /\ Found(u)
                /\ IF u \in Configured THEN WorkNext(t, s, u) ELSE OtherNext(s, u)
<1> DEFINE s == todo[t]
<1>1. ASSUME Begun(t), NEW v \in Units, AtSources(s, v)
      PROVE  /\ Head(s).do \in SourceSteps /\ Head(s).of \in Units
             /\ Begun(t) /\ (Head(s).of # "kernel" => NothingSwapped)
             /\ \E K \in AfterSources(Head(s).of) : MakingNext(s, Head(s).of, K)
  <2>1. PICK K \in AfterSources(v) : Making(s, v, K)
    BY <1>1 DEF AtSources
  <2>2. K \in Seq(StepSet)
    BY AfterSourcesRow
  <2>3. MakingNext(s, v, K)
    BY <2>1, <2>2, MakingHead
  <2>4. Head(s).of = v /\ Head(s).do \in SourceSteps
    BY <2>3 DEF MakingNext
  <2> QED BY <1>1, <2>3, <2>4 DEF AtSources
<1>2. ASSUME Begun(t), AtCancel(s)
      PROVE  Head(s).do = "cancel" /\ Begun(t) /\ Found("kernel") /\ CancelNext(s)
  BY <1>2, CancelHead DEF AtCancel, CancelNext
<1>3. ASSUME NEW v \in Units, AtWork(t, s, v)
      PROVE  /\ Head(s).do \in WorkSteps /\ Head(s).of \in Units /\ Found(Head(s).of)
             /\ IF Head(s).of \in Configured THEN WorkNext(t, s, Head(s).of)
                                             ELSE OtherNext(s, Head(s).of)
  <2>1. CASE v \in Configured
    <3>1. WorkNext(t, s, v)
      BY <1>3, <2>1, WorkHead DEF AtWork
    <3>2. Head(s).of = v /\ Head(s).do \in WorkSteps
      BY <3>1 DEF WorkNext
    <3> QED BY <1>3, <2>1, <3>1, <3>2 DEF AtWork
  <2>2. CASE v \notin Configured
    <3>1. OtherNext(s, v)
      BY <1>3, <2>2, OtherHead DEF AtWork
    <3>2. Head(s).of = v /\ Head(s).do \in WorkSteps
      BY <3>1 DEF OtherNext, WorkSteps
    <3> QED BY <1>3, <2>2, <3>1, <3>2 DEF AtWork
  <2> QED BY <2>1, <2>2
<1> HIDE DEF s
<1>4. \/ Begun(t) /\ \E v \in Units : AtSources(s, v)
      \/ Begun(t) /\ AtCancel(s)
      \/ \E v \in Units : AtWork(t, s, v)
  BY DEF Place, s
<1> QED BY <1>1, <1>2, <1>3, <1>4 DEF s

\* The same of a step that is known to be next.
LEMMA OnHead ==
  ASSUME NEW t, NEW d, NEW u, On(t, d, u)
  PROVE  todo[t] # <<>> /\ Head(todo[t]).do = d /\ Head(todo[t]).of = u
  BY DEF On

\* On(t, d, u) for the steps that make sources, ...
LEMMA SourcesOn ==
  ASSUME NEW t \in Terminals, NEW u \in Units, NEW d \in SourceSteps, Place(t), On(t, d, u)
  PROVE  /\ Begun(t) /\ (u # "kernel" => NothingSwapped)
         /\ \E K \in AfterSources(u) : MakingNext(todo[t], u, K)
         /\ Head(todo[t]).do = d
<1>1. todo[t] # <<>> /\ Head(todo[t]).do = d /\ Head(todo[t]).of = u
  BY DEF On
<1>2. d # "cancel" /\ d \notin WorkSteps
  BY DEF SourceSteps, WorkSteps
<1> QED BY <1>1, <1>2, PlaceHead

\* ... for CancelSwapConfig ...
LEMMA CancelOn ==
  ASSUME NEW t \in Terminals, NEW u \in Units, Place(t), On(t, "cancel", u)
  PROVE  Begun(t) /\ Found("kernel") /\ CancelNext(todo[t]) /\ Head(todo[t]).of = u
<1>1. todo[t] # <<>> /\ Head(todo[t]).do = "cancel" /\ Head(todo[t]).of = u
  BY DEF On
<1>2. "cancel" \notin SourceSteps /\ "cancel" \notin WorkSteps
  BY DEF SourceSteps, WorkSteps
<1> QED BY <1>1, <1>2, PlaceHead

\* ... and for all others.
LEMMA WorkOn ==
  ASSUME NEW t \in Terminals, NEW u \in Units, NEW d \in WorkSteps, Place(t), On(t, d, u)
  PROVE  /\ Found(u) /\ Head(todo[t]).do = d
         /\ IF u \in Configured THEN WorkNext(t, todo[t], u) ELSE OtherNext(todo[t], u)
<1>1. todo[t] # <<>> /\ Head(todo[t]).do = d /\ Head(todo[t]).of = u
  BY DEF On
<1>2. d # "cancel" /\ d \notin SourceSteps
  BY DEF SourceSteps, WorkSteps
<1> QED BY <1>1, <1>2, PlaceHead

-----------------------------------------------------------------------------
(* Where a run is after a step *)

\* rb_build.sh is run in one terminal, as often as one likes.
OneTerminal == \A s, t \in Terminals : s = t

\* What is left to do is a row of steps.
LEMMA TodoType == TypeOK => todo \in [Terminals -> Seq(StepSet)]
  BY DEF TypeOK, StepSet

\* A step of a script is followed by the ones it puts before the rest.
LEMMA ThenTodo ==
  ASSUME TypeOK, NEW t \in Terminals, NEW u \in Units, NEW ds \in Seq(StepNames),
         todo[t] # <<>>, Then(t, u, ds)
  PROVE  /\ todo'[t] = Steps(u, ds) \o Tail(todo[t])
         /\ todo' \in [Terminals -> Seq(StepSet)]
<1>1. todo[t] \in Seq(StepSet) /\ Tail(todo[t]) \in Seq(StepSet)
  BY TodoType
<1>2. Steps(u, ds) \in Seq(StepSet)
  <2>1. DOMAIN ds = 1 .. Len(ds) /\ Len(ds) \in Nat /\ \A i \in 1 .. Len(ds) : ds[i] \in StepNames
    OBVIOUS
  <2>2. \A i \in 1 .. Len(ds) : [do |-> ds[i], of |-> u] \in StepSet
    BY <2>1 DEF StepSet
  <2>3. Steps(u, ds) = [i \in 1 .. Len(ds) |-> [do |-> ds[i], of |-> u]]
    BY <2>1 DEF Steps
  <2> QED BY <2>1, <2>2, <2>3, IsASeq
<1>3. Steps(u, ds) \o Tail(todo[t]) \in Seq(StepSet)
  BY <1>1, <1>2, ConcatProperties
<1> QED BY <1>3, TodoType DEF Then

\* The script goes on with what it is run for.
LEMMA WorkBegins ==
  ASSUME NEW t \in Terminals, NEW u \in Units, NEW a \in Args, todo'[t] = WorkOf(u, a),
         Found(u)', edited'[t] = 0, NothingSwapped'
  PROVE  Place(t)'
<1>1. AtWork(t, todo[t], u)'
  <2>1. CASE u \in Configured
    <3>1. PICK K \in Bodies(u) : todo'[t] = Do(u, "swap", K)
      BY <2>1, WorkConfiguredRow
    <3>2. Opening(todo[t], u, K)'
      BY <2>1, <3>1 DEF Opening, NothingSwapped
    <3>3. WorkConfigured(t, todo[t], u)'
      BY <3>2 DEF WorkConfigured
    <3> QED BY <2>1, <3>3 DEF AtWork
  <2>2. CASE u \notin Configured
    <3>1. u # "uboot" \/ u # "packet"
      OBVIOUS
    <3>2. WorkOther(todo[t], u)'
      BY <2>2, WorkOtherRow DEF WorkOther
    <3> QED BY <2>2, <3>2 DEF AtWork
  <2> QED BY <2>1, <2>2
<1> QED BY <1>1 DEF Place

\* The sources of u are there: the kernel's for every run.
LEMMA SourcesDone ==
  ASSUME NEW t \in Terminals, NEW u \in Units, NEW K \in AfterSources(u), todo'[t] = K,
         Found(u)', edited'[t] = 0, u = "kernel" => ~fresh'[t], u # "kernel" => NothingSwapped'
  PROVE  Place(t)'
<1>1. CASE u = "kernel"
  <2>1. PICK v \in Units, a \in Args : K = Cancelling(v, a)
    BY <1>1 DEF AfterSources
  <2>2. AtCancel(todo[t])'
    BY <1>1, <2>1 DEF AtCancel
  <2>3. Begun(t)'
    BY <1>1 DEF Begun
  <2> QED BY <2>2, <2>3 DEF Place
<1>2. CASE u # "kernel"
  <2>1. PICK a \in Args : K = WorkOf(u, a)
    BY <1>2 DEF AfterSources
  <2> QED BY <1>2, <2>1, WorkBegins
<1> QED BY <1>1, <1>2

\* The sources are not there yet: the script goes on with making them.
LEMMA SourcesGoOn ==
  ASSUME NEW t \in Terminals, NEW u \in Units, NEW K \in AfterSources(u),
         Making(todo[t], u, K)', Begun(t)', u # "kernel" => NothingSwapped'
  PROVE  Place(t)'
<1>1. AtSources(todo[t], u)'
  BY DEF AtSources
<1> QED BY <1>1 DEF Place

-----------------------------------------------------------------------------
(* Steps that make the sources *)

\* Nothing is put before the rest.
LEMMA ThenRest ==
  ASSUME TypeOK, NEW t \in Terminals, NEW u \in Units, todo[t] # <<>>, Then(t, u, <<>>)
  PROVE  /\ todo'[t] = Tail(todo[t]) /\ todo'[t] \in Seq(StepSet)
         /\ todo' \in [Terminals -> Seq(StepSet)]
<1>1. <<>> \in Seq(StepNames)
  OBVIOUS
<1>2. Tail(todo[t]) \in Seq(StepSet)
  BY TodoType
<1> QED BY <1>1, <1>2, ThenTodo, NoSteps

\* They leave the configurations alone: what is to be shown of them.
LEMMA SourcesKeep ==
  ASSUME Inv, NEW t \in Terminals, OneTerminal,
         UNCHANGED <<edited, configs, history>>,
         todo' \in [Terminals -> Seq(StepSet)], fresh' \in [Terminals -> BOOLEAN],
         tmp' \in [Units -> Tree], tree' \in [Units -> Tree],
         TreesRight', PacketsBuilt', Place(t)'
  PROVE  Inv'
<1>1. TypeOK'
  BY DEF Inv, TypeOK, configs, history, StepSet
<1>2. OwnIsThere' /\ EditsCounted'
  BY DEF Inv, OwnIsThere, EditsCounted, configs, history
<1>3. \A s \in Terminals : Place(s)'
  BY DEF OneTerminal
<1> QED BY <1>1, <1>2, <1>3 DEF Inv

\* A step of u changes the tree of u only.
LEMMA TreesAfter ==
  ASSUME Inv, OneTerminal, NEW t \in Terminals, NEW u \in Units,
         todo[t] # <<>>, Head(todo[t]).of = u,
         \A v \in Units \ {u} : tree'[v] = tree[v] /\ \A w : <<v, w>> \in left => <<v, w>> \in left',
         TreeRight(t, u)', u = "packet" => PacketIsBuilt(t, u)'
  PROVE  TreesRight' /\ PacketsBuilt'
<1>1. ASSUME NEW v \in Units \ {u} PROVE TreeRight(t, v)'
  BY DEF Inv, TreesRight, TreeRight, IsNext, Found
<1>2. ASSUME NEW v \in (Units \cap {"packet"}) \ {u} PROVE PacketIsBuilt(t, v)'
  BY DEF Inv, PacketsBuilt, PacketIsBuilt, IsNext, Found
<1>3. TreesRight'
  BY <1>1 DEF TreesRight, OneTerminal
<1>4. PacketsBuilt'
  BY <1>2 DEF PacketsBuilt, OneTerminal
<1> QED BY <1>3, <1>4

\* A tree that does not change stays right if nothing was going on in it.
LEMMA TreeStays ==
  ASSUME Inv, NEW t \in Terminals, NEW u \in Units, todo[t] # <<>>,
         tree'[u] = tree[u], \A w : <<u, w>> \in left => <<u, w>> \in left',
         Head(todo[t]).do \notin {"patch", "checkout", "copy", "rebuild", "diff", "make"}
  PROVE  TreeRight(t, u)' /\ (u = "packet" => PacketIsBuilt(t, u)')
<1>1. TreeRight(t, u)'
  BY DEF Inv, TreesRight, TreeRight, IsNext, Found
<1>2. u = "packet" => PacketIsBuilt(t, u)'
  BY DEF Inv, PacketsBuilt, PacketIsBuilt, IsNext, Found
<1> QED BY <1>1, <1>2

\* Looking for the directory: it is there, or the steps that make it come next.
LEMMA LookForSourcesKeeps ==
  ASSUME Inv, OneTerminal, NEW t \in Terminals, NEW u \in Units, LookForSources(t, u)
  PROVE  Inv'
<1>1. PICK K \in AfterSources(u) : MakingNext(todo[t], u, K)
  BY SourcesOn DEF LookForSources, SourceSteps, Inv
<1>2. /\ Begun(t) /\ (u # "kernel" => NothingSwapped)
      /\ todo[t] # <<>> /\ Head(todo[t]).do = "sources" /\ Head(todo[t]).of = u
  BY SourcesOn, OnHead DEF LookForSources, SourceSteps, Inv
<1>3. Tail(todo[t]) = K /\ K \in Seq(StepSet)
  BY <1>1, <1>2, AfterSourcesRow DEF MakingNext
<1>4. UNCHANGED <<edited, fresh, tmp, tree, configs, history, swap>>
  BY DEF LookForSources, files, configs
<1>5. Begun(t)' /\ (u # "kernel" => NothingSwapped')
  BY <1>2, <1>4 DEF Begun, NothingSwapped
<1>6. TreesRight' /\ PacketsBuilt'
  BY <1>2, <1>4, TreeStays, TreesAfter DEF history
<1>7. Place(t)' /\ todo' \in [Terminals -> Seq(StepSet)]
  <2>1. CASE Found(u)
    <3>1. Then(t, u, <<>>)
      BY <2>1 DEF LookForSources, Found
    <3>2. todo'[t] = K /\ todo' \in [Terminals -> Seq(StepSet)]
      BY <1>2, <1>3, <3>1, ThenRest DEF Inv
    <3> QED BY <1>4, <1>5, <2>1, <3>2, SourcesDone DEF Begun, Found
  <2>2. CASE ~Found(u)
    <3>1. Then(t, u, Sources(u))
      BY <2>2 DEF LookForSources, Found
    <3>2. CASE u \in Cloned
      <4>1. Sources(u) = <<"clone">> /\ <<"clone">> \in Seq(StepNames)
        BY <3>2, Names DEF Sources, Cloned
      <4>2. todo'[t] = Do(u, "clone", K) /\ todo' \in [Terminals -> Seq(StepSet)]
        BY <1>2, <1>3, <3>1, <4>1, ThenTodo, OneStep, ZenonT(60) DEF Inv
      <4>3. Making(todo[t], u, K)'
        BY <3>2, <4>2 DEF Making, MakingCloned
      <4> QED BY <1>5, <4>2, <4>3, SourcesGoOn
    <3>3. CASE u = "rootfs"
      <4>1. Sources(u) = <<"unpackAside", "rename", "patch">>
        BY <3>3 DEF Sources, Cloned
      <4>2. <<"unpackAside", "rename", "patch">> \in Seq(StepNames)
        BY Names
      <4>3. /\ todo'[t] = Do(u, "unpackAside", Do(u, "rename", Do(u, "patch", K)))
            /\ todo' \in [Terminals -> Seq(StepSet)]
        <5>1. /\ todo'[t] = Steps(u, <<"unpackAside", "rename", "patch">>) \o K
              /\ todo' \in [Terminals -> Seq(StepSet)]
          BY <1>2, <1>3, <3>1, <4>1, <4>2, ThenTodo DEF Inv
        <5> QED BY <1>3, <5>1, ThreeSteps
      <4>4. Making(todo[t], u, K)'
        BY <3>3, <4>3 DEF Making, MakingRootfs
      <4> QED BY <1>5, <4>3, <4>4, SourcesGoOn
    <3>4. CASE u = "packet"
      <4>1. Sources(u) = <<"unpackAside", "patchAside", "makeDir", "copy">>
        BY <3>4 DEF Sources, Cloned
      <4>2. <<"unpackAside", "patchAside", "makeDir", "copy">> \in Seq(StepNames)
        BY Names
      <4>3. /\ todo'[t] = Do(u, "unpackAside", Do(u, "patchAside", Do(u, "makeDir", Do(u, "copy", K))))
            /\ todo' \in [Terminals -> Seq(StepSet)]
        <5>1. /\ todo'[t] = Steps(u, <<"unpackAside", "patchAside", "makeDir", "copy">>) \o K
              /\ todo' \in [Terminals -> Seq(StepSet)]
          BY <1>2, <1>3, <3>1, <4>1, <4>2, ThenTodo DEF Inv
        <5> QED BY <1>3, <5>1, FourSteps
      <4>4. Making(todo[t], u, K)'
        BY <3>4, <4>3 DEF Making, MakingPacket
      <4> QED BY <1>5, <4>3, <4>4, SourcesGoOn
    <3> QED BY <3>2, <3>3, <3>4, BuildAssumption DEF Units, Cloned
  <2> QED BY <2>1, <2>2
<1> QED BY <1>4, <1>6, <1>7, SourcesKeep DEF Inv, TypeOK

\* git clone, before the checkout.
LEMMA CloneKeeps ==
  ASSUME Inv, OneTerminal, NEW t \in Terminals, NEW u \in Units, Clone(t, u)
  PROVE  Inv'
<1>1. PICK K \in AfterSources(u) : MakingNext(todo[t], u, K)
  BY SourcesOn DEF Clone, SourceSteps, Inv
<1>2. /\ Begun(t) /\ (u # "kernel" => NothingSwapped)
      /\ todo[t] # <<>> /\ Head(todo[t]).do = "clone" /\ Head(todo[t]).of = u
  BY SourcesOn, OnHead DEF Clone, SourceSteps, Inv
<1>3. u \in Cloned /\ Tail(todo[t]) = K /\ K \in Seq(StepSet)
  BY <1>1, <1>2, AfterSourcesRow DEF MakingNext
<1>4. UNCHANGED <<edited, fresh, tmp, configs, history, swap>>
  BY DEF Clone, configs
<1>5. Begun(t)' /\ (u # "kernel" => NothingSwapped')
  BY <1>2, <1>4 DEF Begun, NothingSwapped
<1>6. u \in Units /\ tree \in [Units -> Tree] /\ u # "packet"
  BY <1>3 DEF Inv, TypeOK, Cloned
<1>7. CASE Then(t, u, <<"checkout">>) /\ tree' = [tree EXCEPT ![u] = [NoTree EXCEPT !.there = "whole"]]
  <2>1. <<"checkout">> \in Seq(StepNames)
    BY Names
  <2>2. todo'[t] = Do(u, "checkout", K) /\ todo' \in [Terminals -> Seq(StepSet)]
    BY <1>2, <1>3, <1>7, <2>1, ThenTodo, OneStep DEF Inv
  <2>3. Whole(tree'[u]) /\ tree' \in [Units -> Tree]
    BY <1>6, <1>7 DEF Whole, NoTree, Tree
  <2>4. Place(t)'
    <3>1. Making(todo[t], u, K)'
      BY <1>3, <2>2, <2>3 DEF Making, MakingCloned, Whole
    <3> QED BY <1>5, <3>1, SourcesGoOn
  <2>5. TreeRight(t, u)'
    <3>1. todo'[t] # <<>> /\ Head(todo'[t]).do = "checkout" /\ Head(todo'[t]).of = u
      BY <1>3, <2>2, DoHead
    <3> QED BY <3>1 DEF TreeRight, IsNext
  <2>6. TreesRight' /\ PacketsBuilt'
    BY <1>2, <1>4, <1>6, <1>7, <2>5, TreesAfter DEF history
  <2> QED BY <1>4, <2>2, <2>3, <2>4, <2>6, SourcesKeep DEF Inv, TypeOK
<1>8. CASE Then(t, u, <<"unpack", "patch">>) /\ UNCHANGED tree
  <2>1. <<"unpack", "patch">> \in Seq(StepNames)
    BY Names
  <2>2. todo'[t] = Do(u, "unpack", Do(u, "patch", K)) /\ todo' \in [Terminals -> Seq(StepSet)]
    <3>1. todo'[t] = Steps(u, <<"unpack", "patch">>) \o K /\ todo' \in [Terminals -> Seq(StepSet)]
      BY <1>2, <1>3, <1>8, <2>1, ThenTodo DEF Inv
    <3> QED BY <1>3, <3>1, TwoSteps
  <2>3. Place(t)'
    <3>1. Making(todo[t], u, K)'
      BY <1>3, <2>2 DEF Making, MakingCloned
    <3> QED BY <1>5, <3>1, SourcesGoOn
  <2>4. TreesRight' /\ PacketsBuilt'
    BY <1>2, <1>4, <1>8, TreeStays, TreesAfter DEF history
  <2> QED BY <1>4, <1>8, <2>2, <2>3, <2>4, SourcesKeep DEF Inv, TypeOK
<1> QED BY <1>7, <1>8 DEF Clone

\* UnpackArchive: not patched yet.
LEMMA UnpackKeeps ==
  ASSUME Inv, OneTerminal, NEW t \in Terminals, NEW u \in Units, Unpack(t, u)
  PROVE  Inv'
<1>1. PICK K \in AfterSources(u) : MakingNext(todo[t], u, K)
  BY SourcesOn DEF Unpack, SourceSteps, Inv
<1>2. /\ Begun(t) /\ (u # "kernel" => NothingSwapped)
      /\ todo[t] # <<>> /\ Head(todo[t]).do = "unpack" /\ Head(todo[t]).of = u
  BY SourcesOn, OnHead DEF Unpack, SourceSteps, Inv
<1>3. K \in Seq(StepSet) /\ Tail(todo[t]) = Do(u, "patch", K) /\ u \in Cloned
  BY <1>1, <1>2, AfterSourcesRow DEF MakingNext
<1>4. UNCHANGED <<edited, fresh, tmp, configs, history, swap>>
  BY DEF Unpack, configs
<1>5. Begun(t)' /\ (u # "kernel" => NothingSwapped')
  BY <1>2, <1>4 DEF Begun, NothingSwapped
<1>6. todo'[t] = Do(u, "patch", K) /\ todo' \in [Terminals -> Seq(StepSet)]
  BY <1>2, <1>3, ThenRest DEF Inv, Unpack
<1>7. Whole(tree'[u]) /\ tree' \in [Units -> Tree]
  BY DEF Unpack, Inv, TypeOK, Whole, NoTree, Tree
<1>8. Place(t)'
  <2>1. Making(todo[t], u, K)'
    BY <1>3, <1>6, <1>7 DEF Making, MakingCloned, Whole
  <2> QED BY <1>5, <2>1, SourcesGoOn
<1>9. TreesRight' /\ PacketsBuilt'
  <2>1. K \in Seq(StepSet)
    BY <1>3
  <2>2. todo'[t] # <<>> /\ Head(todo'[t]).do = "patch" /\ Head(todo'[t]).of = u
    BY <1>6, <2>1, DoHead
  <2>3. TreeRight(t, u)'
    BY <1>3, <2>2 DEF TreeRight, IsNext
  <2>4. \A v \in Units \ {u} : tree'[v] = tree[v]
    BY DEF Unpack, Inv, TypeOK
  <2> QED BY <1>2, <1>4, <1>3, <2>3, <2>4, TreesAfter DEF history, Cloned
<1> QED BY <1>4, <1>6, <1>7, <1>8, <1>9, SourcesKeep DEF Inv, TypeOK

\* UnpackArchive beside the tree.
LEMMA UnpackAsideKeeps ==
  ASSUME Inv, OneTerminal, NEW t \in Terminals, NEW u \in Units, UnpackAside(t, u)
  PROVE  Inv'
<1>1. PICK K \in AfterSources(u) : MakingNext(todo[t], u, K)
  BY SourcesOn DEF UnpackAside, SourceSteps, Inv
<1>2. /\ Begun(t) /\ (u # "kernel" => NothingSwapped)
      /\ todo[t] # <<>> /\ Head(todo[t]).do = "unpackAside" /\ Head(todo[t]).of = u
  BY SourcesOn, OnHead DEF UnpackAside, SourceSteps, Inv
<1>3. /\ K \in Seq(StepSet)
      /\ \/ u = "rootfs" /\ Tail(todo[t]) = Do(u, "rename", Do(u, "patch", K))
         \/ u = "packet" /\ Tail(todo[t]) = Do(u, "patchAside", Do(u, "makeDir", Do(u, "copy", K)))
  BY <1>1, <1>2, AfterSourcesRow DEF MakingNext
<1>4. UNCHANGED <<edited, fresh, tree, configs, history, swap>>
  BY DEF UnpackAside, configs
<1>5. Begun(t)' /\ (u # "kernel" => NothingSwapped')
  BY <1>2, <1>4 DEF Begun, NothingSwapped
<1>6. todo'[t] = Tail(todo[t]) /\ todo' \in [Terminals -> Seq(StepSet)]
  BY <1>2, ThenRest DEF Inv, UnpackAside
<1>7. Whole(tmp'[u]) /\ tmp' \in [Units -> Tree]
  BY DEF UnpackAside, Inv, TypeOK, Whole, NoTree, Tree
<1>8. Place(t)'
  <2>1. Making(todo[t], u, K)'
    <3>1. u = "rootfs" => MakingRootfs(todo[t], u, K)'
      BY <1>3, <1>6, <1>7 DEF MakingRootfs, Whole
    <3>2. u = "packet" => MakingPacket(todo[t], u, K)'
      BY <1>3, <1>6, <1>7 DEF MakingPacket, Whole
    <3> QED BY <1>3, <3>1, <3>2 DEF Making
  <2> QED BY <1>5, <2>1, SourcesGoOn
<1>9. TreesRight' /\ PacketsBuilt'
  BY <1>2, <1>4, TreeStays, TreesAfter DEF history
<1> QED BY <1>4, <1>6, <1>7, <1>8, <1>9, SourcesKeep DEF Inv, TypeOK

\* ApplyPatch beside the tree.
LEMMA PatchAsideKeeps ==
  ASSUME Inv, OneTerminal, NEW t \in Terminals, NEW u \in Units, PatchAside(t, u)
  PROVE  Inv'
<1>1. PICK K \in AfterSources(u) : MakingNext(todo[t], u, K)
  BY SourcesOn DEF PatchAside, SourceSteps, Inv
<1>2. /\ Begun(t) /\ (u # "kernel" => NothingSwapped)
      /\ todo[t] # <<>> /\ Head(todo[t]).do = "patchAside" /\ Head(todo[t]).of = u
  BY SourcesOn, OnHead DEF PatchAside, SourceSteps, Inv
<1>3. K \in Seq(StepSet) /\ Tail(todo[t]) = Do(u, "makeDir", Do(u, "copy", K)) /\ u = "packet" /\ Whole(tmp[u])
  BY <1>1, <1>2, AfterSourcesRow DEF MakingNext
<1>4. UNCHANGED <<edited, fresh, tree, configs, history, swap>>
  BY DEF PatchAside, configs
<1>5. Begun(t)' /\ (u # "kernel" => NothingSwapped')
  BY <1>2, <1>4 DEF Begun, NothingSwapped
<1>6. todo'[t] = Do(u, "makeDir", Do(u, "copy", K)) /\ todo' \in [Terminals -> Seq(StepSet)]
  BY <1>2, <1>3, ThenRest DEF Inv, PatchAside
<1>7. Right(tmp'[u]) /\ tmp' \in [Units -> Tree]
  BY <1>3, ZenonT(60) DEF PatchAside, Inv, TypeOK, Whole, Right, Tree
<1>8. Place(t)'
  <2>1. Making(todo[t], u, K)'
    BY <1>3, <1>6, <1>7 DEF Making, MakingPacket, Right
  <2> QED BY <1>5, <2>1, SourcesGoOn
<1>9. TreesRight' /\ PacketsBuilt'
  BY <1>2, <1>4, TreeStays, TreesAfter DEF history
<1> QED BY <1>4, <1>6, <1>7, <1>8, <1>9, SourcesKeep DEF Inv, TypeOK

\* mv: the tree is there at once.
LEMMA RenameKeeps ==
  ASSUME Inv, OneTerminal, NEW t \in Terminals, NEW u \in Units, Rename(t, u)
  PROVE  Inv'
<1>1. PICK K \in AfterSources(u) : MakingNext(todo[t], u, K)
  BY SourcesOn DEF Rename, SourceSteps, Inv
<1>2. /\ Begun(t) /\ (u # "kernel" => NothingSwapped)
      /\ todo[t] # <<>> /\ Head(todo[t]).do = "rename" /\ Head(todo[t]).of = u
  BY SourcesOn, OnHead DEF Rename, SourceSteps, Inv
<1>3. K \in Seq(StepSet) /\ Tail(todo[t]) = Do(u, "patch", K) /\ u = "rootfs" /\ Whole(tmp[u])
  BY <1>1, <1>2, AfterSourcesRow DEF MakingNext
<1>4. UNCHANGED <<edited, fresh, edited, configs, history, swap>>
  BY DEF Rename, configs
<1>5. Begun(t)' /\ (u # "kernel" => NothingSwapped')
  BY <1>2, <1>4 DEF Begun, NothingSwapped
<1>6. todo'[t] = Do(u, "patch", K) /\ todo' \in [Terminals -> Seq(StepSet)]
  BY <1>2, <1>3, ThenRest DEF Inv, Rename
<1>7. Whole(tree'[u]) /\ tree' \in [Units -> Tree] /\ tmp' \in [Units -> Tree]
  BY <1>3 DEF Rename, Inv, TypeOK, Whole, NoTree, Tree
<1>8. Place(t)'
  <2>1. Making(todo[t], u, K)'
    BY <1>3, <1>6, <1>7 DEF Making, MakingRootfs, Whole
  <2> QED BY <1>5, <2>1, SourcesGoOn
<1>9. TreesRight' /\ PacketsBuilt'
  <2>1. K \in Seq(StepSet)
    BY <1>3
  <2>2. todo'[t] # <<>> /\ Head(todo'[t]).do = "patch" /\ Head(todo'[t]).of = u
    BY <1>6, <2>1, DoHead
  <2>3. TreeRight(t, u)'
    BY <1>3, <2>2 DEF TreeRight, IsNext
  <2>4. \A v \in Units \ {u} : tree'[v] = tree[v]
    BY DEF Rename, Inv, TypeOK
  <2> QED BY <1>2, <1>4, <1>3, <2>3, <2>4, TreesAfter DEF history
<1> QED BY <1>4, <1>6, <1>7, <1>8, <1>9, SourcesKeep DEF Inv, TypeOK

\* CreateDirIfNotExists: from here on the directory is there.
LEMMA MakeDirKeeps ==
  ASSUME Inv, OneTerminal, NEW t \in Terminals, NEW u \in Units, MakeDir(t, u)
  PROVE  Inv'
<1>1. PICK K \in AfterSources(u) : MakingNext(todo[t], u, K)
  BY SourcesOn DEF MakeDir, SourceSteps, Inv
<1>2. /\ Begun(t) /\ (u # "kernel" => NothingSwapped)
      /\ todo[t] # <<>> /\ Head(todo[t]).do = "makeDir" /\ Head(todo[t]).of = u
  BY SourcesOn, OnHead DEF MakeDir, SourceSteps, Inv
<1>3. K \in Seq(StepSet) /\ Tail(todo[t]) = Do(u, "copy", K) /\ u = "packet" /\ Right(tmp[u])
  BY <1>1, <1>2, AfterSourcesRow DEF MakingNext
<1>4. UNCHANGED <<edited, fresh, tmp, configs, history, swap>>
  BY DEF MakeDir, configs
<1>5. Begun(t)' /\ (u # "kernel" => NothingSwapped')
  BY <1>2, <1>4 DEF Begun, NothingSwapped
<1>6. todo'[t] = Do(u, "copy", K) /\ todo' \in [Terminals -> Seq(StepSet)]
  BY <1>2, <1>3, ThenRest DEF Inv, MakeDir
<1>7. tree' \in [Units -> Tree]
  BY DEF MakeDir, Inv, TypeOK, Tree
<1>8. Place(t)'
  <2>1. Making(todo[t], u, K)'
    BY <1>3, <1>4, <1>6 DEF Making, MakingPacket, Right
  <2> QED BY <1>5, <2>1, SourcesGoOn
<1>9. TreesRight' /\ PacketsBuilt'
  <2>1. K \in Seq(StepSet)
    BY <1>3
  <2>2. todo'[t] # <<>> /\ Head(todo'[t]).do = "copy" /\ Head(todo'[t]).of = u
    BY <1>6, <2>1, DoHead
  <2>3. TreeRight(t, u)' /\ PacketIsBuilt(t, u)'
    BY <1>3, <2>2 DEF TreeRight, IsNext, PacketIsBuilt
  <2>4. \A v \in Units \ {u} : tree'[v] = tree[v]
    BY DEF MakeDir, Inv, TypeOK
  <2> QED BY <1>2, <1>4, <1>3, <2>3, <2>4, TreesAfter DEF history
<1> QED BY <1>4, <1>6, <1>7, <1>8, <1>9, SourcesKeep DEF Inv, TypeOK

\* ApplyAllPatchesFor, or checkout.
LEMMA PatchKeeps ==
  ASSUME Inv, OneTerminal, NEW t \in Terminals, NEW u \in Units, Patch(t, u)
  PROVE  Inv'
<1>1. PICK d \in {"patch", "checkout"} : On(t, d, u)
  BY DEF Patch
<1>2. d \in SourceSteps
  BY DEF SourceSteps
<1>3. PICK K \in AfterSources(u) : MakingNext(todo[t], u, K)
  BY <1>1, <1>2, SourcesOn DEF Inv
<1>4. /\ Begun(t) /\ (u # "kernel" => NothingSwapped)
      /\ todo[t] # <<>> /\ Head(todo[t]).do = d /\ Head(todo[t]).of = u
  BY <1>1, <1>2, SourcesOn, OnHead DEF Inv
<1>5. K \in Seq(StepSet) /\ Tail(todo[t]) = K /\ Whole(tree[u])
  BY <1>3, <1>4, AfterSourcesRow DEF MakingNext
<1>6. UNCHANGED <<edited, fresh, tmp, configs, history, swap>>
  BY DEF Patch, configs
<1>7. todo'[t] = K /\ todo' \in [Terminals -> Seq(StepSet)]
  BY <1>4, <1>5, ThenRest DEF Inv, Patch
<1>8. Right(tree'[u]) /\ tree' \in [Units -> Tree] /\ tree'[u].built = tree[u].built
  BY <1>5 DEF Patch, Inv, TypeOK, Whole, Right, Tree
<1>9. Place(t)'
  <2>1. Found(u)'
    BY <1>8 DEF Right, Found
  <2>2. edited'[t] = 0 /\ ~fresh'[t] /\ (u # "kernel" => NothingSwapped')
    BY <1>4, <1>6 DEF Begun, NothingSwapped
  <2> QED BY <1>7, <2>1, <2>2, SourcesDone
<1>10. TreesRight' /\ PacketsBuilt'
  <2>1. TreeRight(t, u)'
    BY <1>8 DEF TreeRight
  <2>2. u # "packet"
    BY <1>3, <1>4 DEF MakingNext
  <2>3. \A v \in Units \ {u} : tree'[v] = tree[v]
    BY DEF Patch, Inv, TypeOK
  <2> QED BY <1>4, <1>6, <2>1, <2>2, <2>3, TreesAfter DEF history
<1> QED BY <1>6, <1>7, <1>8, <1>9, <1>10, SourcesKeep DEF Inv, TypeOK

\* MoveDir has copied: the tree is whole.
LEMMA CopyKeeps ==
  ASSUME Inv, OneTerminal, NEW t \in Terminals, NEW u \in Units, Copy(t, u)
  PROVE  Inv'
<1>1. PICK K \in AfterSources(u) : MakingNext(todo[t], u, K)
  BY SourcesOn DEF Copy, SourceSteps, Inv
<1>2. /\ Begun(t) /\ (u # "kernel" => NothingSwapped)
      /\ todo[t] # <<>> /\ Head(todo[t]).do = "copy" /\ Head(todo[t]).of = u
  BY SourcesOn, OnHead DEF Copy, SourceSteps, Inv
<1>3. K \in Seq(StepSet) /\ Tail(todo[t]) = K /\ u = "packet" /\ Right(tmp[u])
  BY <1>1, <1>2, AfterSourcesRow DEF MakingNext
<1>4. UNCHANGED <<edited, configs, history, swap>> /\ fresh' = [fresh EXCEPT ![t] = TRUE]
  BY DEF Copy, configs
<1>5. todo'[t] = K /\ todo' \in [Terminals -> Seq(StepSet)]
  BY <1>2, <1>3, ThenRest DEF Inv, Copy
<1>6. /\ Right(tree'[u]) /\ tree' \in [Units -> Tree] /\ tmp' \in [Units -> Tree]
      /\ \A v \in Units \ {u} : tree'[v] = tree[v]
  BY <1>3 DEF Copy, Inv, TypeOK, Right, NoTree, Tree
<1>7. fresh'[t] /\ fresh' \in [Terminals -> BOOLEAN]
  BY <1>4 DEF Inv, TypeOK
<1>8. Place(t)'
  <2>1. Found(u)'
    BY <1>6 DEF Right, Found
  <2>2. edited'[t] = 0 /\ NothingSwapped'
    BY <1>2, <1>3, <1>4 DEF Begun, NothingSwapped
  <2> QED BY <1>3, <1>5, <2>1, <2>2, SourcesDone
\* What a packet is unpacked for is done to it next.
<1>9. IsNext(t, {"rebuild", "diff", "make"}, u)'
  <2>1. PICK a \in Args : K = WorkOf(u, a)
    BY <1>3 DEF AfterSources
  <2> DEFINE e == <<>>
             o == Do(u, "output", e)
  <2>2. e \in Seq(StepSet)
    OBVIOUS
  <2>3. o \in Seq(StepSet)
    BY <2>2, Names, DoRow
  <2>4. K = Do(u, "diff", e) \/ K = Do(u, "make", o) \/ K = Do(u, "rebuild", o)
    BY <1>3, <2>1, WorkOtherRow DEF Configured
  <2> HIDE DEF e, o
  <2>5. K # <<>> /\ Head(K).do \in {"rebuild", "diff", "make"} /\ Head(K).of = u
    BY <2>2, <2>3, <2>4, DoHead
  <2> QED BY <1>5, <2>5 DEF IsNext
<1>10. TreesRight' /\ PacketsBuilt'
  <2>1. TreeRight(t, u)'
    BY <1>6 DEF TreeRight
  <2>2. PacketIsBuilt(t, u)'
    BY <1>7, <1>9 DEF PacketIsBuilt
  <2> QED BY <1>2, <1>4, <1>6, <2>1, <2>2, TreesAfter DEF history
<1> QED BY <1>4, <1>5, <1>6, <1>7, <1>8, <1>10, SourcesKeep DEF Inv, TypeOK

-----------------------------------------------------------------------------
(* Steps of configurations *)

\* They leave the trees alone: what is to be shown of them.
LEMMA ConfigKeep ==
  ASSUME Inv, OneTerminal, NEW t \in Terminals, NEW u \in Configured,
         todo[t] # <<>>, Head(todo[t]).of = u,
         Head(todo[t]).do \notin {"patch", "checkout", "copy", "rebuild", "diff", "make"},
         UNCHANGED <<fresh, files, left, interrupts>>,
         todo' \in [Terminals -> Seq(StepSet)], edited' \in [Terminals -> 0 .. MaxEdits],
         dot' \in [Configured -> Config], swap' \in [Configured -> Config],
         reg' \in [Configured -> Config], \A v \in Configured : reg'[v].of = "reg",
         kept' \in [Configured -> 0 .. MaxEdits], own' \in [Configured -> Config],
         edits' \in 0 .. MaxEdits,
         OwnIsThere', EditsCounted', Place(t)'
  PROVE  Inv'
<1>1. TypeOK'
  BY DEF Inv, TypeOK, files, StepSet
<1>2. TreesRight' /\ PacketsBuilt'
  BY TreeStays, TreesAfter DEF files, Configured, Units
<1>3. \A s \in Terminals : Place(s)'
  BY DEF OneTerminal
<1> QED BY <1>1, <1>2, <1>3 DEF Inv

\* The body is still to come ...
LEMMA BeforeBody ==
  ASSUME NEW t \in Terminals, NEW u \in Configured, NEW K \in Bodies(u),
         edited'[t] = 0, Found(u)', Opening(todo[t], u, K)'
  PROVE  Place(t)'
<1>1. WorkConfigured(t, todo[t], u)'
  BY DEF WorkConfigured
<1> QED BY <1>1 DEF AtWork, Place, Configured, Units

\* ... or over.
LEMMA AfterBody ==
  ASSUME NEW t \in Terminals, NEW u \in Configured, NEW K,
         Last(u, K)', Found(u)', Closing(t, todo[t], u, K)'
  PROVE  Place(t)'
<1>1. WorkConfigured(t, todo[t], u)'
  BY DEF WorkConfigured, Last
<1> QED BY <1>1 DEF AtWork, Place, Configured, Units

\* SwapConfig decides by .config.swap.
LEMMA SwapKeeps ==
  ASSUME Inv, OneTerminal, NEW t \in Terminals, NEW u \in Configured, Swap(t, u)
  PROVE  Inv'
<1>1. u \in Units
  BY DEF Configured, Units
<1>2. /\ Found(u) /\ WorkNext(t, todo[t], u)
      /\ todo[t] # <<>> /\ Head(todo[t]).do = "swap" /\ Head(todo[t]).of = u
  BY <1>1, WorkOn, OnHead DEF Swap, WorkSteps, Inv
<1>3. PICK K \in Seq(StepSet) : K = Tail(todo[t])
  <2>1. todo[t] \in Seq(StepSet)
    BY TodoType DEF Inv
  <2>2. Tail(todo[t]) \in Seq(StepSet)
    BY <1>2, <2>1
  <2> QED BY <2>2
<1>4. UNCHANGED <<edited, fresh, tree, files, dot, swap, reg, kept, own, edits, history>>
  BY DEF Swap, configs, files, history
<1>5. CASE swap[u] = NoConfig
  <2>1. Then(t, u, <<"putAside", "takeOver">>) /\ <<"putAside", "takeOver">> \in Seq(StepNames)
    BY <1>5, Names DEF Swap
  <2>2. todo'[t] = Do(u, "putAside", Do(u, "takeOver", K)) /\ todo' \in [Terminals -> Seq(StepSet)]
    <3>1. todo'[t] = Steps(u, <<"putAside", "takeOver">>) \o K /\ todo' \in [Terminals -> Seq(StepSet)]
      BY <1>1, <1>2, <2>1, <1>3, ThenTodo DEF Inv
    <3> QED BY <1>3, <3>1, TwoSteps
  <2>3. Place(t)'
    <3>1. CASE OfBody(t, u, K)
      <4>1. Opening(todo[t], u, K)'
        BY <1>4, <1>5, <2>2 DEF Opening
      <4> QED BY <1>2, <1>4, <3>1, <4>1, BeforeBody DEF OfBody, Found
    <3>2. CASE Last(u, K)
      <4>1. Closing(t, todo[t], u, K)'
        BY <1>4, <1>5, <2>2 DEF Closing
      <4> QED BY <1>2, <1>4, <3>2, <4>1, AfterBody DEF Last, Found
    <3> QED BY <1>2, <1>3, <1>5, <3>1, <3>2 DEF WorkNext
  <2> QED BY <1>2, <1>4, <2>2, <2>3, ConfigKeep DEF Inv, TypeOK, history, OwnIsThere, EditsCounted
<1>6. CASE swap[u] # NoConfig
  <2>1. Then(t, u, <<"register", "putBack">>) /\ <<"register", "putBack">> \in Seq(StepNames)
    BY <1>6, Names DEF Swap
  <2>2. todo'[t] = Do(u, "register", Do(u, "putBack", K)) /\ todo' \in [Terminals -> Seq(StepSet)]
    <3>1. todo'[t] = Steps(u, <<"register", "putBack">>) \o K /\ todo' \in [Terminals -> Seq(StepSet)]
      BY <1>1, <1>2, <2>1, <1>3, ThenTodo DEF Inv
    <3> QED BY <1>3, <3>1, TwoSteps
  <2>3. Last(u, K) /\ InUse(t, u)
    BY <1>2, <1>3, <1>6 DEF WorkNext
  <2>4. Closing(t, todo[t], u, K)'
    BY <1>4, <1>6, <2>2, <2>3 DEF Closing, InUse
  <2>5. Place(t)'
    BY <1>2, <1>4, <2>3, <2>4, AfterBody DEF Last, Found
  <2> QED BY <1>2, <1>4, <2>2, <2>5, ConfigKeep DEF Inv, TypeOK, history, OwnIsThere, EditsCounted
<1> QED BY <1>5, <1>6

\* SwapConfig: .config to .config.swap ...
LEMMA PutAsideKeeps ==
  ASSUME Inv, OneTerminal, NEW t \in Terminals, NEW u \in Configured, PutAside(t, u)
  PROVE  Inv'
<1>1. u \in Units
  BY DEF Configured, Units
<1>2. /\ Found(u) /\ WorkNext(t, todo[t], u)
      /\ todo[t] # <<>> /\ Head(todo[t]).do = "putAside" /\ Head(todo[t]).of = u
  BY <1>1, WorkOn, OnHead DEF PutAside, WorkSteps, Inv
<1>3. PICK L : Tail(todo[t]) = Do(u, "takeOver", L) /\ (OfBody(t, u, L) \/ Last(u, L))
  BY <1>2 DEF WorkNext
<1>4. UNCHANGED <<edited, fresh, tree, files, reg, kept, left, edits, interrupts>>
  BY DEF PutAside, files
<1>5. todo'[t] = Do(u, "takeOver", L) /\ todo' \in [Terminals -> Seq(StepSet)]
  BY <1>1, <1>2, <1>3, ThenRest DEF Inv, PutAside
<1>6. swap[u] = NoConfig
  BY <1>2 DEF WorkNext
<1>7. /\ dot' \in [Configured -> Config] /\ swap' \in [Configured -> Config]
      /\ own' \in [Configured -> Config]
  <2>1. NoConfig \in Config
    BY BuildAssumption DEF Config, NoConfig
  <2>2. dot \in [Configured -> Config] /\ swap \in [Configured -> Config]
        /\ own \in [Configured -> Config]
    BY DEF Inv, TypeOK
  <2> QED BY <2>1, <2>2 DEF PutAside
<1>8. OwnIsThere' /\ Aside(u)'
  BY <1>6, SMTT(30) DEF PutAside, Inv, OwnIsThere, TypeOK, Aside
<1>9. Place(t)'
  <2>1. CASE OfBody(t, u, L)
    <3>1. Opening(todo[t], u, L)'
      BY <1>5, <1>8 DEF Opening
    <3> QED BY <1>2, <1>4, <2>1, <3>1, BeforeBody DEF OfBody, Found
  <2>2. CASE Last(u, L)
    <3>1. Closing(t, todo[t], u, L)'
      BY <1>5, <1>8 DEF Closing
    <3> QED BY <1>2, <1>4, <2>2, <3>1, AfterBody DEF Last, Found
  <2> QED BY <1>3, <2>1, <2>2
<1>10. EditsCounted'
  BY <1>4 DEF Inv, EditsCounted
<1> QED BY <1>2, <1>4, <1>5, <1>7, <1>8, <1>9, <1>10, ConfigKeep DEF Inv, TypeOK

\* ... and the registered one to .config.
LEMMA TakeOverKeeps ==
  ASSUME Inv, OneTerminal, NEW t \in Terminals, NEW u \in Configured, TakeOver(t, u)
  PROVE  Inv'
<1>1. u \in Units
  BY DEF Configured, Units
<1>2. /\ Found(u) /\ WorkNext(t, todo[t], u)
      /\ todo[t] # <<>> /\ Head(todo[t]).do = "takeOver" /\ Head(todo[t]).of = u
  BY <1>1, WorkOn, OnHead DEF TakeOver, WorkSteps, Inv
<1>3. PICK K : K = Tail(todo[t]) /\ Aside(u) /\ (OfBody(t, u, K) \/ Last(u, K))
  BY <1>2 DEF WorkNext
<1>4. /\ UNCHANGED <<edited, fresh, tree, files, swap, reg, history>>
      /\ UNCHANGED <<kept, own, left, edits, interrupts>>
  BY DEF TakeOver, files, history
<1>5. todo'[t] = K /\ todo' \in [Terminals -> Seq(StepSet)]
  BY <1>1, <1>2, <1>3, ThenRest DEF Inv, TakeOver
<1>6. dot' \in [Configured -> Config] /\ dot'[u] = reg[u] /\ \A v \in Configured \ {u} : dot'[v] = dot[v]
  BY DEF TakeOver, Inv, TypeOK
<1>7. OwnIsThere' /\ Aside(u)'
  BY <1>3, <1>4, <1>6 DEF Inv, OwnIsThere, Aside
<1>8. Place(t)'
  <2>1. CASE OfBody(t, u, K)
    <3>1. Opening(todo[t], u, K)'
      BY <1>4, <1>5, <1>6, <1>7 DEF Opening
    <3> QED BY <1>2, <1>4, <2>1, <3>1, BeforeBody DEF OfBody, Found
  <2>2. CASE Last(u, K)
    <3>1. Closing(t, todo[t], u, K)'
      BY <1>5 DEF Closing
    <3> QED BY <1>2, <1>4, <2>2, <3>1, AfterBody DEF Last, Found
  <2> QED BY <1>3, <2>1, <2>2
<1>9. EditsCounted'
  BY <1>4 DEF Inv, EditsCounted
<1> QED BY <1>2, <1>4, <1>5, <1>6, <1>7, <1>8, <1>9, ConfigKeep DEF Inv, TypeOK

\* SwapConfig back: .config is registered ...
LEMMA RegisterKeeps ==
  ASSUME Inv, OneTerminal, NEW t \in Terminals, NEW u \in Configured, Register(t, u)
  PROVE  Inv'
<1>1. u \in Units
  BY DEF Configured, Units
<1>2. /\ Found(u) /\ WorkNext(t, todo[t], u)
      /\ todo[t] # <<>> /\ Head(todo[t]).do = "register" /\ Head(todo[t]).of = u
  BY <1>1, WorkOn, OnHead DEF Register, WorkSteps, Inv
<1>3. PICK L : Tail(todo[t]) = Do(u, "putBack", L) /\ Last(u, L)
  BY <1>2 DEF WorkNext
<1>4. swap[u] # NoConfig /\ InUse(t, u)
  BY <1>2 DEF WorkNext
<1>5. /\ UNCHANGED <<edited, fresh, tree, files, swap, history>>
      /\ UNCHANGED <<kept, own, left, edits, interrupts>>
  BY DEF Register, files, history
<1>6. todo'[t] = Do(u, "putBack", L) /\ todo' \in [Terminals -> Seq(StepSet)]
  BY <1>1, <1>2, <1>3, ThenRest DEF Inv, Register
<1>7. dot[u] # NoConfig
  BY <1>4 DEF InUse, NoConfig
<1>8. /\ reg' \in [Configured -> Config] /\ reg'[u] = dot[u]
      /\ \A v \in Configured \ {u} : reg'[v] = reg[v]
  BY <1>7 DEF Register, Inv, TypeOK
<1>9. dot' \in [Configured -> Config] /\ \A v \in Configured \ {u} : dot'[v] = dot[v]
  <2>1. NoConfig \in Config
    BY BuildAssumption DEF Config, NoConfig
  <2>2. dot \in [Configured -> Config]
    BY DEF Inv, TypeOK
  <2> QED BY <2>1, <2>2 DEF Register
<1>10. \A v \in Configured : reg'[v].of = "reg"
  BY <1>4, <1>8 DEF InUse, Inv, TypeOK
<1>11. OwnIsThere'
  BY <1>4, <1>5, <1>9 DEF Inv, OwnIsThere
<1>12. EditsCounted'
  BY <1>4, <1>5, <1>8 DEF Inv, EditsCounted, InUse
<1>13. Place(t)'
  <2>1. Closing(t, todo[t], u, L)'
    BY <1>4, <1>5, <1>6, <1>8 DEF Closing, InUse
  <2> QED BY <1>2, <1>3, <1>5, <2>1, AfterBody DEF Last, Found
<1> QED BY <1>2, <1>5, <1>6, <1>8, <1>9, <1>10, <1>11, <1>12, <1>13, ConfigKeep DEF Inv, TypeOK

\* ... and .config.swap put back.
LEMMA PutBackKeeps ==
  ASSUME Inv, OneTerminal, NEW t \in Terminals, NEW u \in Configured, PutBack(t, u)
  PROVE  Inv'
<1>1. u \in Units
  BY DEF Configured, Units
<1>2. /\ Found(u) /\ WorkNext(t, todo[t], u)
      /\ todo[t] # <<>> /\ Head(todo[t]).do = "putBack" /\ Head(todo[t]).of = u
  BY <1>1, WorkOn, OnHead DEF PutBack, WorkSteps, Inv
<1>3. PICK L : Tail(todo[t]) = L /\ Last(u, L)
  BY <1>2 DEF WorkNext
<1>4. swap[u] # NoConfig /\ reg[u].n >= edited[t]
  BY <1>2 DEF WorkNext
<1>5. UNCHANGED <<edited, fresh, tree, files, reg, own, left, edits, interrupts>>
  BY DEF PutBack, files
<1>6. todo'[t] = L /\ todo' \in [Terminals -> Seq(StepSet)]
  BY <1>1, <1>2, <1>3, ThenRest DEF Inv, PutBack
<1>7. /\ dot' = [dot EXCEPT ![u] = swap[u]] /\ swap' = [swap EXCEPT ![u] = NoConfig]
      /\ kept' = [kept EXCEPT ![u] = IF edited[t] > 0 THEN edited[t] ELSE @]
  BY <1>4 DEF PutBack
<1>8. /\ dot' \in [Configured -> Config] /\ swap' \in [Configured -> Config]
      /\ kept' \in [Configured -> 0 .. MaxEdits]
  <2>1. NoConfig \in Config
    BY BuildAssumption DEF Config, NoConfig
  <2>2. dot \in [Configured -> Config] /\ swap \in [Configured -> Config]
    BY DEF Inv, TypeOK
  <2>3. kept \in [Configured -> 0 .. MaxEdits] /\ edited[t] \in 0 .. MaxEdits
    BY DEF Inv, TypeOK
  <2>4. dot' \in [Configured -> Config] /\ swap' \in [Configured -> Config]
    BY <1>7, <2>1, <2>2
  <2>5. kept' \in [Configured -> 0 .. MaxEdits]
    BY <1>7, <2>3
  <2> QED BY <2>4, <2>5
<1>9. OwnIsThere'
  <2>1. own[u] = swap[u]
    BY <1>4 DEF Inv, OwnIsThere
  <2> QED BY <1>5, <1>7, <2>1 DEF Inv, OwnIsThere, TypeOK
<1>10. EditsCounted'
  <2>1. edited[t] <= edits
    BY DEF Inv, EditsCounted
  <2>2. \A v \in Configured : reg[v].n >= kept'[v] /\ kept'[v] <= edits
    BY <1>4, <1>7, <2>1 DEF Inv, EditsCounted, TypeOK
  <2> QED BY <1>5, <2>2 DEF Inv, EditsCounted
<1>11. Place(t)'
  <2>1. Closing(t, todo[t], u, L)'
    BY <1>6 DEF Closing
  <2> QED BY <1>2, <1>3, <1>5, <2>1, AfterBody DEF Last, Found
<1> QED BY <1>2, <1>5, <1>6, <1>8, <1>9, <1>10, <1>11, ConfigKeep DEF Inv, TypeOK

\* menuconfig: .config is newer than all that is registered.
LEMMA EditKeeps ==
  ASSUME Inv, OneTerminal, NEW t \in Terminals, NEW u \in Configured, Edit(t, u)
  PROVE  Inv'
<1>1. u \in Units
  BY DEF Configured, Units
<1>2. /\ Found(u) /\ WorkNext(t, todo[t], u)
      /\ todo[t] # <<>> /\ Head(todo[t]).do = "edit" /\ Head(todo[t]).of = u
  BY <1>1, WorkOn, OnHead DEF Edit, WorkSteps, Inv
<1>3. Tail(todo[t]) = Do(u, "swap", <<>>) /\ Aside(u) /\ dot[u] = reg[u] /\ edited[t] = 0
  BY <1>2 DEF WorkNext
<1>4. UNCHANGED <<fresh, tree, files, swap, reg, kept, own, left, interrupts>>
  BY DEF Edit, files
<1>5. todo'[t] = Do(u, "swap", <<>>) /\ todo' \in [Terminals -> Seq(StepSet)]
  BY <1>1, <1>2, <1>3, ThenRest DEF Inv, Edit
<1>6. dot[u].of = "reg" /\ dot[u].n >= kept[u] /\ kept[u] <= edits
  BY <1>3 DEF Inv, TypeOK, EditsCounted
<1>7. /\ edits' \in 0 .. MaxEdits /\ edits' >= edits
      /\ edited' \in [Terminals -> 0 .. MaxEdits] /\ \A s \in Terminals : edited'[s] <= edits'
  <2>1. edits \in 0 .. MaxEdits /\ edited \in [Terminals -> 0 .. MaxEdits] /\ MaxEdits \in Nat
    BY BuildAssumption DEF Inv, TypeOK
  <2>2. \A s \in Terminals : edited[s] <= edits
    BY DEF Inv, EditsCounted
  <2> QED BY <2>1, <2>2 DEF Edit
<1>8. /\ dot' \in [Configured -> Config] /\ dot'[u].of = "reg"
      /\ dot'[u].n >= kept[u] /\ dot'[u].n >= edited'[t]
      /\ \A v \in Configured \ {u} : dot'[v] = dot[v]
  <2>1. CASE UNCHANGED <<edited, dot, edits>>
    BY <1>3, <1>6, <2>1 DEF Inv, TypeOK, Config
  <2>2. CASE /\ edits < MaxEdits /\ dot' = [dot EXCEPT ![u].n = edits + 1]
             /\ edited' = [edited EXCEPT ![t] = edits + 1]
    <3>1. dot \in [Configured -> Config] /\ edits + 1 \in 0 .. MaxEdits /\ edits \in Nat
      BY <2>2, BuildAssumption DEF Inv, TypeOK
    <3>2. dot'[u] = [dot[u] EXCEPT !.n = edits + 1] /\ edited'[t] = edits + 1
      BY <2>2, <3>1 DEF Inv, TypeOK
    <3>3. dot'[u] \in Config /\ dot'[u].of = "reg" /\ dot'[u].n = edits + 1
      BY <1>6, <3>1, <3>2 DEF Config
    <3>4. kept[u] \in 0 .. MaxEdits
      BY DEF Inv, TypeOK
    <3> QED BY <1>6, <2>2, <3>1, <3>2, <3>3, <3>4
  <2> QED BY <2>1, <2>2 DEF Edit
<1>9. OwnIsThere'
  BY <1>3, <1>4, <1>8 DEF Inv, OwnIsThere, Aside
<1>10. EditsCounted'
  <2>1. edits \in Nat /\ edits' \in Nat /\ \A v \in Configured : kept[v] \in Nat
    BY <1>7 DEF Inv, TypeOK
  <2> QED BY <1>4, <1>7, <2>1 DEF Inv, EditsCounted
<1>11. Place(t)'
  <2>1. Closing(t, todo[t], u, <<>>)'
    BY <1>4, <1>5, <1>8 DEF Closing, InUse
  <2> QED BY <1>2, <1>4, <2>1, AfterBody DEF Last, Found
<1> QED BY <1>2, <1>4, <1>5, <1>7, <1>8, <1>9, <1>10, <1>11, ConfigKeep DEF Inv, TypeOK

\* CancelSwapConfig, for the kernel and then for the root file system.
LEMMA CancelSwapKeeps ==
  ASSUME Inv, OneTerminal, NEW t \in Terminals, NEW u \in Configured, CancelSwap(t, u)
  PROVE  Inv'
<1>1. u \in Units
  BY DEF Configured, Units
<1>2. /\ Begun(t) /\ Found("kernel") /\ CancelNext(todo[t])
      /\ todo[t] # <<>> /\ Head(todo[t]).do = "cancel" /\ Head(todo[t]).of = u
  BY <1>1, CancelOn, OnHead DEF CancelSwap, Inv
<1>3. PICK v \in Units, a \in Args :
        \/ u = "kernel" /\ Tail(todo[t]) = Do("rootfs", "cancel", Unswapped(v, a))
        \/ u = "rootfs" /\ Tail(todo[t]) = Unswapped(v, a) /\ swap["kernel"] = NoConfig
  BY <1>2 DEF CancelNext
<1>4. /\ UNCHANGED <<edited, fresh, tree, files, reg, history>>
      /\ UNCHANGED <<kept, own, left, edits, interrupts>>
  BY DEF CancelSwap, files, history
<1>5. todo'[t] = Tail(todo[t]) /\ todo' \in [Terminals -> Seq(StepSet)]
  BY <1>1, <1>2, ThenRest DEF Inv, CancelSwap
<1>6. /\ dot' \in [Configured -> Config] /\ swap' \in [Configured -> Config]
      /\ swap'[u] = NoConfig /\ \A x \in Configured \ {u} : swap'[x] = swap[x] /\ dot'[x] = dot[x]
  <2>1. NoConfig \in Config
    BY BuildAssumption DEF Config, NoConfig
  <2>2. dot \in [Configured -> Config] /\ swap \in [Configured -> Config]
    BY DEF Inv, TypeOK
  <2> QED BY <2>1, <2>2 DEF CancelSwap
<1>7. OwnIsThere'
  BY <1>4, <1>6 DEF Inv, OwnIsThere, CancelSwap, TypeOK
<1>8. EditsCounted'
  BY <1>4 DEF Inv, EditsCounted
<1>9. Begun(t)' /\ Found("kernel")'
  BY <1>2, <1>4 DEF Begun, Found
<1>10. Place(t)'
  <2>1. CASE u = "kernel"
    <3>1. AtCancel(todo[t])'
      BY <1>3, <1>5, <1>6, <1>9, <2>1 DEF AtCancel
    <3> QED BY <1>9, <3>1 DEF Place
  <2>2. CASE u = "rootfs"
    <3>1. todo'[t] = Unswapped(v, a) /\ NothingSwapped'
      BY <1>3, <1>5, <1>6, <2>2 DEF NothingSwapped, Configured
    <3>2. CASE v = "kernel"
      BY <1>9, <3>1, <3>2, WorkBegins DEF Unswapped, Begun
    <3>3. CASE v # "kernel"
      <4>1. WorkOf(v, a) \in AfterSources(v)
        BY <3>3 DEF AfterSources
      <4>2. Making(todo[t], v, WorkOf(v, a))'
        BY <3>1, <3>3 DEF Making, Unswapped, WorkOf, Work, Steps
      <4> QED BY <1>9, <3>1, <4>1, <4>2, SourcesGoOn
    <3> QED BY <3>2, <3>3
  <2> QED BY <2>1, <2>2 DEF Configured
<1> QED BY <1>2, <1>4, <1>5, <1>6, <1>7, <1>8, <1>10, ConfigKeep DEF Inv, TypeOK

-----------------------------------------------------------------------------
(* Building *)

\* Steps that leave the configurations alone: what is to be shown of them.
LEMMA BuildKeep ==
  ASSUME Inv, OneTerminal, NEW t \in Terminals,
         UNCHANGED <<edited, fresh, tmp, configs, kept, own, edits, interrupts>>,
         todo' \in [Terminals -> Seq(StepSet)], tree' \in [Units -> Tree],
         left' \subseteq Units \X {"sources", "make"},
         TreesRight', PacketsBuilt', Place(t)'
  PROVE  Inv'
<1>1. TypeOK'
  BY DEF Inv, TypeOK, configs, StepSet
<1>2. OwnIsThere' /\ EditsCounted'
  BY DEF Inv, OwnIsThere, EditsCounted, configs
<1>3. \A s \in Terminals : Place(s)'
  BY DEF OneTerminal
<1> QED BY <1>1, <1>2, <1>3 DEF Inv

\* Where no patch is applied the tree is right or known not to be.
LEMMA TreeIsRight ==
  ASSUME Inv, NEW t \in Terminals, NEW u \in Units,
         todo[t] = <<>> \/ Head(todo[t]).do \notin {"patch", "checkout", "copy"}
                        \/ Head(todo[t]).of # u
  PROVE  ~Found(u) \/ Right(tree[u]) \/ <<u, "sources">> \in left
  BY DEF Inv, TreesRight, TreeRight, IsNext

\* PacketBuild decides by whether the packet was unpacked in this run.
LEMMA RebuildKeeps ==
  ASSUME Inv, OneTerminal, NEW t \in Terminals, NEW u \in Units, Rebuild(t, u)
  PROVE  Inv'
<1>1. /\ Found(u) /\ todo[t] # <<>> /\ Head(todo[t]).do = "rebuild" /\ Head(todo[t]).of = u
      /\ IF u \in Configured THEN WorkNext(t, todo[t], u) ELSE OtherNext(todo[t], u)
  BY WorkOn, OnHead DEF Rebuild, WorkSteps, Inv
<1>2. u \notin Configured /\ u = "packet" /\ Tail(todo[t]) = Do(u, "output", <<>>)
  BY <1>1 DEF WorkNext, OtherNext
<1>3. /\ UNCHANGED <<edited, fresh, tmp, tree, configs, left, history>>
      /\ UNCHANGED <<kept, own, edits, interrupts>>
  BY DEF Rebuild, files, history
<1>4. TreeRight(t, u)'
  BY <1>1, <1>3, TreeIsRight DEF TreeRight, Found
<1>5. CASE fresh[t]
  <2>1. Then(t, u, <<"make">>) /\ <<"make">> \in Seq(StepNames)
    BY <1>5, Names DEF Rebuild
  <2>2. PICK K \in Seq(StepSet) : K = Tail(todo[t])
    <3>1. todo[t] \in Seq(StepSet)
      BY TodoType DEF Inv
    <3>2. Tail(todo[t]) \in Seq(StepSet)
      BY <1>1, <3>1
    <3> QED BY <3>2
  <2>3. todo'[t] = Do(u, "make", K) /\ todo' \in [Terminals -> Seq(StepSet)]
    BY <1>1, <2>1, <2>2, ThenTodo, OneStep DEF Inv
  <2>4. todo'[t] # <<>> /\ Head(todo'[t]).do = "make" /\ Head(todo'[t]).of = u
    BY <2>3, DoHead
  <2>5. PacketIsBuilt(t, u)'
    BY <1>3, <1>5, <2>4 DEF PacketIsBuilt, IsNext
  <2>6. Place(t)'
    <3>1. WorkOther(todo[t], u)'
      BY <1>2, <2>2, <2>3 DEF WorkOther
    <3> QED BY <1>1, <1>2, <1>3, <3>1 DEF Place, AtWork, Found
  <2>7. TreesRight' /\ PacketsBuilt'
    BY <1>1, <1>3, <1>4, <2>5, TreesAfter
  <2> QED BY <1>3, <2>3, <2>6, <2>7, BuildKeep DEF Inv, TypeOK
<1>6. CASE ~fresh[t]
  <2>1. Then(t, u, <<>>)
    BY <1>6 DEF Rebuild
  <2>2. todo'[t] = Do(u, "output", <<>>) /\ todo' \in [Terminals -> Seq(StepSet)]
    BY <1>1, <1>2, <2>1, ThenRest DEF Inv
  <2>3. PacketIsBuilt(t, u)'
    BY <1>1, <1>2, <1>3, <1>6 DEF Inv, PacketsBuilt, PacketIsBuilt, IsNext, Found
  <2>4. Place(t)'
    <3>1. WorkOther(todo[t], u)'
      BY <1>2, <2>2 DEF WorkOther
    <3> QED BY <1>1, <1>2, <1>3, <3>1 DEF Place, AtWork, Found
  <2>5. TreesRight' /\ PacketsBuilt'
    BY <1>1, <1>3, <1>4, <2>3, TreesAfter
  <2> QED BY <1>3, <2>2, <2>4, <2>5, BuildKeep DEF Inv, TypeOK
<1> QED BY <1>5, <1>6

\* make comes to its end.
LEMMA MakeKeeps ==
  ASSUME Inv, OneTerminal, NEW t \in Terminals, NEW u \in Units, Make(t, u)
  PROVE  Inv'
<1>1. /\ Found(u) /\ todo[t] # <<>> /\ Head(todo[t]).do = "make" /\ Head(todo[t]).of = u
      /\ IF u \in Configured THEN WorkNext(t, todo[t], u) ELSE OtherNext(todo[t], u)
  BY WorkOn, OnHead DEF Make, WorkSteps, Inv
<1>2. UNCHANGED <<edited, fresh, tmp, configs, dot, swap, reg, kept, own, edits, interrupts>>
  BY DEF Make, configs
<1>3. todo'[t] = Tail(todo[t]) /\ todo' \in [Terminals -> Seq(StepSet)]
  BY <1>1, ThenRest DEF Inv, Make
<1>4. /\ tree' \in [Units -> Tree] /\ \A v \in Units \ {u} : tree'[v] = tree[v]
      /\ tree'[u].built /\ tree'[u].there = tree[u].there /\ tree'[u].right = tree[u].right
  BY DEF Make, Inv, TypeOK, Tree
<1>5. /\ left' \subseteq Units \X {"sources", "make"}
      /\ \A v \in Units \ {u} : \A w : <<v, w>> \in left => <<v, w>> \in left'
      /\ <<u, "sources">> \in left => <<u, "sources">> \in left'
  BY DEF Make, Inv, TypeOK
<1>6. TreeRight(t, u)'
  BY <1>1, <1>4, <1>5, TreeIsRight DEF TreeRight, Found, Right
<1>7. PacketIsBuilt(t, u)'
  BY <1>4 DEF PacketIsBuilt
<1>8. TreesRight' /\ PacketsBuilt'
  BY <1>1, <1>4, <1>5, <1>6, <1>7, TreesAfter
<1>9. Place(t)'
  <2>1. Found(u)'
    BY <1>1, <1>4 DEF Found
  <2>2. CASE u \in Configured
    <3>1. InUse(t, u)'
      <4>1. dot[u] = reg[u] /\ edited[t] = 0
        BY <1>1, <2>2 DEF WorkNext
      <4>2. reg[u].of = "reg" /\ reg[u].n >= kept[u] /\ reg[u].n >= 0
        BY <2>2 DEF Inv, TypeOK, EditsCounted, Config
      <4> QED BY <1>2, <4>1, <4>2 DEF InUse
    <3>2. CASE u = "kernel"
      <4>1. todo'[t] = Do(u, "output", Do(u, "swap", <<>>))
        BY <1>1, <1>3, <2>2, <3>2 DEF WorkNext
      <4>2. WorkConfigured(t, todo[t], u)'
        BY <1>4, <3>1, <3>2, <4>1 DEF WorkConfigured
      <4> QED BY <2>1, <2>2, <4>2 DEF Place, AtWork
    <3>3. CASE u # "kernel"
      <4>1. todo'[t] = Do(u, "swap", Do(u, "output", <<>>)) /\ u = "rootfs"
        BY <1>1, <1>3, <2>2, <3>3 DEF WorkNext, Configured
      <4>2. Closing(t, todo[t], u, Do(u, "output", <<>>))'
        BY <3>1, <4>1 DEF Closing
      <4>3. WorkConfigured(t, todo[t], u)'
        BY <1>4, <4>1, <4>2 DEF WorkConfigured
      <4> QED BY <2>1, <2>2, <4>3 DEF Place, AtWork
    <3> QED BY <3>2, <3>3
  <2>3. CASE u \notin Configured
    <3>1. todo'[t] = Do(u, "output", <<>>)
      BY <1>1, <1>3, <2>3 DEF OtherNext
    <3>2. WorkOther(todo[t], u)'
      BY <1>4, <3>1 DEF WorkOther
    <3> QED BY <2>1, <2>3, <3>2 DEF Place, AtWork
  <2> QED BY <2>2, <2>3
<1> QED BY <1>2, <1>3, <1>4, <1>5, <1>8, <1>9, BuildKeep DEF Inv, TypeOK

\* CreatePatch changes nothing but the row.
LEMMA DiffKeeps ==
  ASSUME Inv, OneTerminal, NEW t \in Terminals, NEW u \in Units, Diff(t, u)
  PROVE  Inv'
<1>1. /\ Found(u) /\ todo[t] # <<>> /\ Head(todo[t]).do = "diff" /\ Head(todo[t]).of = u
      /\ IF u \in Configured THEN WorkNext(t, todo[t], u) ELSE OtherNext(todo[t], u)
  BY WorkOn, OnHead DEF Diff, WorkSteps, Inv
<1>2. UNCHANGED <<edited, fresh, tmp, tree, configs, kept, own, edits, interrupts>>
  BY DEF Diff, files
<1>3. todo'[t] = <<>> /\ todo' \in [Terminals -> Seq(StepSet)]
  BY <1>1, ThenRest DEF Inv, Diff, WorkNext, OtherNext
<1>4. left' \subseteq Units \X {"sources", "make"} /\ left \subseteq left'
  BY DEF Diff, Inv, TypeOK
<1>5. TreeRight(t, u)'
  BY <1>1, <1>2, <1>4, TreeIsRight DEF TreeRight, Found
<1>6. u = "packet" => PacketIsBuilt(t, u)'
  <2>1. CASE fresh[t]
    BY <2>1 DEF Diff, PacketIsBuilt
  <2>2. CASE ~fresh[t]
    BY <1>1, <1>2, <1>4, <2>2 DEF Inv, PacketsBuilt, PacketIsBuilt, IsNext, Found
  <2> QED BY <2>1, <2>2
<1>7. TreesRight' /\ PacketsBuilt'
  BY <1>1, <1>2, <1>4, <1>5, <1>6, TreesAfter
<1>8. Place(t)'
  BY <1>3 DEF Place
<1> QED BY <1>2, <1>3, <1>4, <1>7, <1>8, BuildKeep DEF Inv, TypeOK

\* The output is made.
LEMMA OutputKeeps ==
  ASSUME Inv, OneTerminal, NEW t \in Terminals, NEW u \in Units, Output(t, u)
  PROVE  Inv'
<1>1. /\ Found(u) /\ todo[t] # <<>> /\ Head(todo[t]).do = "output" /\ Head(todo[t]).of = u
      /\ IF u \in Configured THEN WorkNext(t, todo[t], u) ELSE OtherNext(todo[t], u)
  BY WorkOn, OnHead DEF Output, WorkSteps, Inv
<1>2. /\ UNCHANGED <<edited, fresh, tmp, tree, configs, dot, swap, reg, left, history>>
      /\ UNCHANGED <<kept, own, edits, interrupts>>
  BY DEF Output, files, configs, history
<1>3. todo'[t] = Tail(todo[t]) /\ todo' \in [Terminals -> Seq(StepSet)]
  BY <1>1, ThenRest DEF Inv, Output
<1>4. TreesRight' /\ PacketsBuilt'
  BY <1>1, <1>2, TreeStays, TreesAfter
<1>5. Place(t)'
  <2>1. CASE Tail(todo[t]) = <<>>
    BY <1>3, <2>1 DEF Place
  <2>2. CASE Tail(todo[t]) # <<>>
    <3>1. /\ u = "kernel" /\ u \in Configured /\ Tail(todo[t]) = Do(u, "swap", <<>>)
          /\ (swap[u] # NoConfig => InUse(t, u))
      BY <1>1, <2>2 DEF WorkNext, OtherNext
    <3>2. Closing(t, todo[t], u, <<>>)'
      BY <1>2, <1>3, <3>1 DEF Closing, InUse
    <3> QED BY <1>1, <1>2, <3>1, <3>2, AfterBody DEF Last, Found
  <2> QED BY <2>1, <2>2
<1> QED BY <1>2, <1>3, <1>4, <1>5, BuildKeep DEF Inv, TypeOK

-----------------------------------------------------------------------------
(* Starts and interrupts *)

\* A run begins with the kernel's sources, whatever the run before has left.
LEMMA StartKeeps ==
  ASSUME Inv, OneTerminal, NEW t \in Terminals, NEW u \in Units, NEW a \in Args, Start(t, u, a)
  PROVE  Inv'
<1>1. todo' = [todo EXCEPT ![t] = Do("kernel", "sources", Cancelling(u, a))] /\ todo[t] = <<>>
  BY ScriptRow DEF Start
<1>2. todo' \in [Terminals -> Seq(StepSet)] /\ todo'[t] = Do("kernel", "sources", Cancelling(u, a))
  <2>1. Do("kernel", "sources", Cancelling(u, a)) \in Seq(StepSet)
    BY AfterRow, Names, DoRow DEF Units
  <2> QED BY <1>1, <2>1, TodoType DEF Inv
<1>3. UNCHANGED <<tmp, tree, dot, swap, reg, kept, own, left, edits, interrupts>>
  BY DEF Start, files, configs, history
<1>4. /\ edited' \in [Terminals -> 0 .. MaxEdits] /\ edited'[t] = 0
      /\ fresh' \in [Terminals -> BOOLEAN] /\ fresh'[t] = FALSE
  BY BuildAssumption DEF Start, Inv, TypeOK
<1>5. TypeOK'
  BY <1>2, <1>3, <1>4 DEF Inv, TypeOK, StepSet
<1>6. OwnIsThere'
  BY <1>3 DEF Inv, OwnIsThere
<1>7. EditsCounted'
  <2>1. \A s \in Terminals : s = t
    BY DEF OneTerminal
  <2> QED BY <1>3, <1>4, <2>1 DEF Inv, EditsCounted, TypeOK
<1>8. Place(t)'
  <2>1. Cancelling(u, a) \in AfterSources("kernel")
    BY DEF AfterSources
  <2>2. Making(todo[t], "kernel", Cancelling(u, a))'
    BY <1>2 DEF Making, Cancelling, Unswapped, WorkOf, Work, Steps
  <2>3. "kernel" \in Units
    BY DEF Units
  <2>4. Begun(t)'
    BY <1>4 DEF Begun
  <2> QED BY <2>1, <2>2, <2>3, <2>4, SourcesGoOn
<1>9. TreesRight'
  <2>1. ASSUME NEW v \in Units PROVE TreeRight(t, v)'
    BY <1>1, <1>3, TreeIsRight DEF TreeRight, Found
  <2> QED BY <2>1 DEF TreesRight, OneTerminal
<1>10. PacketsBuilt'
  <2>1. ASSUME NEW v \in Units \cap {"packet"} PROVE PacketIsBuilt(t, v)'
    BY <1>1, <1>3 DEF Inv, PacketsBuilt, PacketIsBuilt, IsNext, Found
  <2> QED BY <2>1 DEF PacketsBuilt, OneTerminal
<1>11. \A s \in Terminals : Place(s)'
  BY <1>8 DEF OneTerminal
<1> QED BY <1>5, <1>6, <1>7, <1>9, <1>10, <1>11 DEF Inv

\* A stopped run leaves at most half a copy where the registered configuration
\* was to be, and notes of a tree that it leaves unfinished.
LEMMA InterruptKeeps ==
  ASSUME Inv, OneTerminal, NEW t \in Terminals, Interrupt(t)
  PROVE  Inv'
<1>0. PICK d, u : d = Head(todo[t]).do /\ u = Head(todo[t]).of
  OBVIOUS
<1>1. /\ todo[t] # <<>> /\ todo' = [todo EXCEPT ![t] = <<>>] /\ interrupts' = interrupts + 1
      /\ interrupts < MaxInterrupts /\ left' = left \cup Unfinished(t, Head(todo[t]))
      /\ UNCHANGED <<edited, fresh, tmp, swap, reg, kept, own, edits>>
  BY DEF Interrupt
<1>2. todo'[t] = <<>> /\ todo' \in [Terminals -> Seq(StepSet)]
  BY <1>1, TodoType DEF Inv
<1>3. u \in Units
  BY <1>0, <1>1, PlaceHead DEF Inv, CancelNext, Units
<1>4. /\ d = "takeOver" => u \in Configured /\ Aside(u)
      /\ d = "unpack" => u # "packet"
      /\ d = "rebuild" => u = "packet"
  <2>1. CASE d \in SourceSteps
    <3>1. PICK K : MakingNext(todo[t], u, K)
      BY <1>0, <1>1, <2>1, PlaceHead DEF Inv, SourceSteps, WorkSteps
    <3> QED BY <1>0, <2>1, <3>1 DEF MakingNext, SourceSteps, Cloned
  <2>2. CASE d = "cancel"
    BY <2>2
  <2>3. CASE d \in WorkSteps
    <3>1. IF u \in Configured THEN WorkNext(t, todo[t], u) ELSE OtherNext(todo[t], u)
      BY <1>0, <1>1, <2>3, PlaceHead DEF Inv, SourceSteps, WorkSteps
    <3> QED BY <1>0, <2>3, <3>1 DEF WorkNext, OtherNext, WorkSteps
  <2> QED BY <1>0, <1>1, <2>1, <2>2, <2>3, PlaceHead DEF Inv
<1>5. \/ UNCHANGED <<tree, dot>>
      \/ d = "unpack" /\ tree' = [tree EXCEPT ![u].there = "part"] /\ UNCHANGED dot
      \/ d = "takeOver" /\ dot' = [dot EXCEPT ![u] = Part] /\ UNCHANGED tree
      \/ d = "make" /\ tree' = [tree EXCEPT ![u].built = FALSE] /\ UNCHANGED dot
  BY <1>0 DEF Interrupt, Midst
<1>6. /\ Unfinished(t, Head(todo[t])) \subseteq Units \X {"sources", "make"}
      /\ d \in {"unpack", "patch", "checkout", "copy"} => <<u, "sources">> \in left'
      /\ d = "make" \/ (d \in {"rebuild", "diff"} /\ fresh[t]) => <<u, "make">> \in left'
  BY <1>0, <1>1, <1>3 DEF Unfinished
<1>7. /\ tree' \in [Units -> Tree] /\ \A v \in Units \ {u} : tree'[v] = tree[v]
      /\ d # "unpack" => tree'[u].there = tree[u].there /\ tree'[u].right = tree[u].right
      /\ d # "unpack" /\ d # "make" => tree'[u] = tree[u]
  <2>1. tree \in [Units -> Tree]
    BY DEF Inv, TypeOK
  <2>2. \A T \in Tree : /\ [T EXCEPT !.there = "part"] \in Tree /\ [T EXCEPT !.built = FALSE] \in Tree
                        /\ [T EXCEPT !.built = FALSE].there = T.there
                        /\ [T EXCEPT !.built = FALSE].right = T.right
    BY DEF Tree
  <2>3. CASE tree' = tree
    BY <2>1, <2>3
  <2>4. CASE d = "unpack" /\ tree' = [tree EXCEPT ![u] = [@ EXCEPT !.there = "part"]]
    BY <1>3, <2>1, <2>2, <2>4
  <2>5. CASE d = "make" /\ tree' = [tree EXCEPT ![u] = [@ EXCEPT !.built = FALSE]]
    BY <1>3, <2>1, <2>2, <2>5
  <2> QED BY <1>5, <2>3, <2>4, <2>5
<1>8. dot' \in [Configured -> Config]
  <2>1. Part \in Config
    BY BuildAssumption DEF Part, Config
  <2>2. dot \in [Configured -> Config]
    BY DEF Inv, TypeOK
  <2> QED BY <1>5, <2>1, <2>2
<1>9. TypeOK'
  <2>1. left' \subseteq Units \X {"sources", "make"}
    BY <1>1, <1>6 DEF Inv, TypeOK
  <2>2. interrupts' \in 0 .. MaxInterrupts
    BY <1>1, BuildAssumption DEF Inv, TypeOK
  <2> QED BY <1>1, <1>2, <1>7, <1>8, <2>1, <2>2 DEF Inv, TypeOK, StepSet
<1>10. OwnIsThere'
  <2>1. CASE dot' = dot
    BY <1>1, <2>1 DEF Inv, OwnIsThere
  <2>2. CASE d = "takeOver" /\ dot' = [dot EXCEPT ![u] = Part]
    BY <1>1, <1>4, <2>2 DEF Inv, OwnIsThere, TypeOK, Aside
  <2> QED BY <1>5, <2>1, <2>2
<1>11. EditsCounted'
  BY <1>1 DEF Inv, EditsCounted
<1>12. TreesRight' /\ PacketsBuilt'
  <2>1. \A v \in Units \ {u} : \A w : <<v, w>> \in left => <<v, w>> \in left'
    BY <1>1
  <2>2. TreeRight(t, u)'
    <3>1. CASE d \in {"unpack", "patch", "checkout", "copy"}
      BY <1>6, <3>1 DEF TreeRight
    <3>2. CASE d \notin {"unpack", "patch", "checkout", "copy"}
      BY <1>0, <1>1, <1>3, <1>7, <3>2, TreeIsRight DEF TreeRight, Found, Right
    <3> QED BY <3>1, <3>2
  <2>3. u = "packet" => PacketIsBuilt(t, u)'
    <3>1. CASE d = "copy"
      BY <1>6, <3>1 DEF PacketIsBuilt
    <3>2. CASE d = "make" \/ (d \in {"rebuild", "diff"} /\ fresh[t])
      BY <1>6, <3>2 DEF PacketIsBuilt
    <3>3. CASE d # "copy" /\ d # "make" /\ ~(d \in {"rebuild", "diff"} /\ fresh[t]) /\ u = "packet"
      <4>1. ~Found(u) \/ tree[u].built \/ \E w \in {"sources", "make"} : <<u, w>> \in left
        BY <1>0, <1>3, <3>3 DEF Inv, PacketsBuilt, PacketIsBuilt, IsNext
      <4>2. tree'[u] = tree[u]
        BY <1>4, <1>7, <3>3
      <4> QED BY <1>1, <4>1, <4>2 DEF PacketIsBuilt, Found
    <3> QED BY <3>1, <3>2, <3>3
  <2> QED BY <1>0, <1>1, <1>3, <1>7, <2>1, <2>2, <2>3, TreesAfter
<1>13. \A s \in Terminals : Place(s)'
  BY <1>2 DEF Place, OneTerminal
<1> QED BY <1>9, <1>10, <1>11, <1>12, <1>13 DEF Inv

-----------------------------------------------------------------------------
(* Every run *)

\* A checked-out repository, with or without trees.
LEMMA InitInv == Init => Inv
<1> SUFFICES ASSUME Init PROVE Inv
  OBVIOUS
<1>1. PICK c \in SUBSET Configured :
        /\ tree = [u \in Units |-> IF u \in c THEN [Built EXCEPT !.built = FALSE] ELSE NoTree]
        /\ dot = [u \in Configured |-> [of |-> IF u \in c THEN "tree" ELSE "none", n |-> 0]]
  BY DEF Init
<1>2. 0 \in 0 .. MaxEdits /\ 0 \in 0 .. MaxInterrupts
  BY BuildAssumption
<1>3. NoConfig \in Config /\ [of |-> "reg", n |-> 0] \in Config
  BY <1>2 DEF NoConfig, Config
<1>4. tree \in [Units -> Tree] /\ tmp \in [Units -> Tree]
  BY <1>1 DEF Init, Tree, NoTree, Built
<1>5. dot \in [Configured -> Config]
  BY <1>1, <1>2 DEF Config
<1>6. TypeOK
  <2>1. todo \in [Terminals -> Seq([do : StepNames, of : Units])]
    BY DEF Init
  <2> QED BY <1>2, <1>3, <1>4, <1>5, <2>1 DEF Init, TypeOK
<1>7. OwnIsThere /\ EditsCounted
  BY DEF Init, OwnIsThere, EditsCounted
<1>8. ASSUME NEW u \in Units PROVE ~Found(u) \/ (u # "packet" /\ Right(tree[u]))
  BY <1>1 DEF Found, Right, NoTree, Built, Configured
<1>9. TreesRight /\ PacketsBuilt
  BY <1>8 DEF TreesRight, TreeRight, PacketsBuilt, PacketIsBuilt
<1>10. \A t \in Terminals : Place(t)
  BY DEF Init, Place
<1> QED BY <1>6, <1>7, <1>9, <1>10 DEF Inv

\* Every step of a script, every start and every interrupt.
LEMMA NextInv == OneTerminal /\ Inv /\ [Next]_vars => Inv'
<1> SUFFICES ASSUME OneTerminal, Inv, [Next]_vars PROVE Inv'
  OBVIOUS
<1>1. ASSUME NEW t \in Terminals, NEW u \in Units, NEW a \in Args, Start(t, u, a) PROVE Inv'
  BY <1>1, StartKeeps
<1>2. ASSUME NEW t \in Terminals, NEW u \in Units, Step(t, u) PROVE Inv'
  BY <1>2, LookForSourcesKeeps, CloneKeeps, UnpackKeeps, PatchKeeps, UnpackAsideKeeps,
     PatchAsideKeeps, RenameKeeps, MakeDirKeeps, CopyKeeps, RebuildKeeps, MakeKeeps, DiffKeeps,
     OutputKeeps DEF Step
<1>3. ASSUME NEW t \in Terminals, NEW u \in Configured, StepOfConfig(t, u) PROVE Inv'
  BY <1>3, SwapKeeps, PutAsideKeeps, TakeOverKeeps, RegisterKeeps, PutBackKeeps,
     CancelSwapKeeps, EditKeeps DEF StepOfConfig
<1>4. ASSUME NEW t \in Terminals, Interrupt(t) PROVE Inv'
  BY <1>4, InterruptKeeps
<1>5. CASE UNCHANGED vars
  <2> USE <1>5 DEF vars, runs, files, configs, history
  <2>1. TypeOK' /\ OwnIsThere' /\ EditsCounted'
    BY DEF Inv, TypeOK, OwnIsThere, EditsCounted
  <2>2. TreesRight' /\ PacketsBuilt'
    BY DEF Inv, TreesRight, TreeRight, PacketsBuilt, PacketIsBuilt, IsNext, Found
  <2>3. ASSUME NEW t \in Terminals PROVE Place(t)'
    BY DEF Inv, Place, Begun, AtSources, AtCancel, AtWork, Making, MakingCloned, MakingRootfs,
           MakingPacket, NothingSwapped, Found, WorkConfigured, WorkOther, Opening, Closing,
           Aside, InUse
  <2> QED BY <2>1, <2>2, <2>3 DEF Inv
<1> QED BY <1>1, <1>2, <1>3, <1>4, <1>5 DEF Next

\* The inductive invariant: wherever rb_build.sh has come to, or was stopped at,
\* the place of the run fits the directories and the configurations.
THEOREM RunsInvariant == ASSUME OneTerminal PROVE Spec => []Inv
  BY OneTerminal, InitInv, NextInv, PTL DEF Spec

\* The steps left to do, the trees, configurations and counters keep to their
\* types, whatever is run in whatever order and wherever it is stopped.
THEOREM TypeCorrect == ASSUME OneTerminal PROVE Spec => []TypeOK
<1>1. Inv => TypeOK
  BY DEF Inv
<1> QED BY <1>1, RunsInvariant, PTL

\* An edit of a configuration that SwapConfig put back is registered for good: no
\* later run, swap, cancel or interrupt registers an older one.
THEOREM EditsAreKept == ASSUME OneTerminal PROVE Spec => []EditsKept
<1>1. Inv => EditsKept
  BY DEF Inv, EditsCounted, EditsKept
<1> QED BY <1>1, RunsInvariant, PTL

\* The configuration a tree came with is never lost: it is in .config or in
\* .config.swap, also when SwapConfig was stopped between its two copies.
THEOREM OwnIsKept == ASSUME OneTerminal PROVE Spec => []OwnKept
<1>1. Inv => OwnKept
  BY DEF Inv, OwnIsThere, OwnKept
<1> QED BY <1>1, RunsInvariant, PTL

\* Where make or the editor of a configuration is started, .config is the
\* registered one, whatever runs were stopped before, and between which steps.
THEOREM RegisteredIsInUse == ASSUME OneTerminal PROVE Spec => []ConfigInUse
<1>1. ASSUME Inv, NEW t \in Terminals, NEW u \in Configured, NEW d \in {"make", "edit"}, On(t, d, u)
      PROVE  dot[u] = reg[u]
  <2>1. u \in Units /\ d \in WorkSteps
    BY DEF Configured, Units, WorkSteps
  <2>2. WorkNext(t, todo[t], u) /\ Head(todo[t]).do = d
    BY <1>1, <2>1, WorkOn DEF Inv
  <2> QED BY <2>2 DEF WorkNext
<1>2. Inv => ConfigInUse
  BY <1>1 DEF ConfigInUse
<1> QED BY <1>2, RunsInvariant, PTL

\* What is made into an image, a kernel or a packet has whole, patched and built
\* sources, unless a run was stopped at one of the steps Unfinished names.
THEOREM OutputsAreWhole == ASSUME OneTerminal PROVE Spec => []OutputIsWhole
<1>1. ASSUME Inv, NEW t \in Terminals, NEW u \in Units, On(t, "output", u)
      PROVE  tree[u] = Built \/ \E w \in {"sources", "make"} : <<u, w>> \in left
  <2>1. /\ Found(u) /\ todo[t] # <<>> /\ Head(todo[t]).do = "output" /\ Head(todo[t]).of = u
        /\ IF u \in Configured THEN WorkNext(t, todo[t], u) ELSE OtherNext(todo[t], u)
    BY <1>1, WorkOn, OnHead DEF Inv, WorkSteps
  <2>2. Right(tree[u]) \/ <<u, "sources">> \in left
    BY <1>1, <2>1, TreeIsRight
  <2>3. tree[u].built \/ \E w \in {"sources", "make"} : <<u, w>> \in left
    <3>1. CASE u = "packet"
      BY <1>1, <2>1, <3>1 DEF Inv, PacketsBuilt, PacketIsBuilt, IsNext
    <3>2. CASE u # "packet"
      BY <2>1, <3>2, BuildAssumption DEF WorkNext, OtherNext, Units, Configured
    <3> QED BY <3>1, <3>2
  <2>4. tree[u] \in Tree
    BY <1>1 DEF Inv, TypeOK
  <2> QED BY <2>2, <2>3, <2>4 DEF Right, Built, Tree
<1>2. Inv => OutputIsWhole
  BY <1>1 DEF OutputIsWhole
<1> QED BY <1>2, RunsInvariant, PTL
=============================================================================
