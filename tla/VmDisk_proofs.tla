---------------------------- MODULE VmDisk_proofs ----------------------------
(***************************************************************************)
(* What VmDisk says of the system disk and its generations holds for every  *)
(* number of generations to keep, of commands and of faults.                *)
(***************************************************************************)
EXTENDS VmDisk, FiniteSetTheorems, TLAPS

-----------------------------------------------------------------------------
(* Sets of generation numbers.                                               *)

(* A finite set has an extreme element under a total order R: a smallest      *)
(* subset without one would lose the defect with any of its elements.         *)
LEMMA ExtremeExists ==
    ASSUME NEW S, IsFiniteSet(S), S # {}, NEW R,
           \A x, y \in S : <<x, y>> \in R \/ <<y, x>> \in R,
           \A x, y, z \in S : <<x, y>> \in R /\ <<y, z>> \in R => <<x, z>> \in R
    PROVE  \E x \in S : \A y \in S : <<x, y>> \in R
<1> DEFINE HasOne(U) == \E x \in U : \A y \in U : <<x, y>> \in R
           Bad == {U \in FiniteSubsetsOf(S) : U # {} /\ ~HasOne(U)}
<1> SUFFICES ASSUME ~HasOne(S) PROVE FALSE
    OBVIOUS
<1>1. FiniteSubsetsOf(S) = SUBSET S
    BY FS_FiniteSubsetsOfFinite
<1>2. Bad \subseteq FiniteSubsetsOf(S) /\ Bad # {}
    BY <1>1
<1>3. IsWellFoundedOn(StrictSubsetOrdering(S), FiniteSubsetsOf(S))
    BY FS_StrictSubsetOrderingWellFounded
<1>4. PICK U \in Bad : \A V \in Bad : <<V, U>> \notin StrictSubsetOrdering(S)
    <2> HIDE DEF Bad
    <2> QED BY <1>2, <1>3, WFMin
<1>5. PICK u \in U : TRUE
    OBVIOUS
<1>6. U \in SUBSET S /\ U \ {u} \in SUBSET S /\ U \ {u} # U
    BY <1>1, <1>5, Zenon
<1>7. <<U \ {u}, U>> \in StrictSubsetOrdering(S)
    BY <1>6, Zenon DEF StrictSubsetOrdering
<1>8. U \ {u} = {} \/ HasOne(U \ {u})
    BY <1>1, <1>4, <1>6, <1>7, Zenon
<1>9. HasOne(U)
    <2>1. u \in S /\ <<u, u>> \in R
      BY <1>5, <1>6
    <2>2. CASE U \ {u} = {}
      <3>1. U = {u}
        BY <1>5, <2>2
      <3> QED BY <2>1, <3>1
    <2>3. CASE HasOne(U \ {u})
      <3>1. PICK m \in U \ {u} : \A y \in U \ {u} : <<m, y>> \in R
        BY <2>3
      <3>2. m \in S
        BY <1>6
      <3>3. CASE <<m, u>> \in R
        BY <3>1, <3>3, Zenon
      <3>4. CASE <<u, m>> \in R
        <4>1. \A y \in U : <<u, y>> \in R
          BY <1>6, <2>1, <3>1, <3>2, <3>4, Zenon
        <4> QED BY <1>5, <4>1
      <3> QED BY <2>1, <3>2, <3>3, <3>4, Zenon
    <2> QED BY <1>8, <2>2, <2>3, Zenon
<1> QED
    BY <1>4, <1>9

(* Max is what its name says. *)
LEMMA MaxIsGreatest ==
    ASSUME NEW S \in SUBSET Nat, IsFiniteSet(S), S # {}
    PROVE  Max(S) \in S /\ \A y \in S : y <= Max(S)
<1> DEFINE R == {e \in Nat \X Nat : e[1] >= e[2]}
<1>1. \A x, y \in Nat : <<x, y>> \in R <=> x >= y
    OBVIOUS
<1>2. /\ \A x, y \in S : <<x, y>> \in R \/ <<y, x>> \in R
      /\ \A x, y, z \in S : <<x, y>> \in R /\ <<y, z>> \in R => <<x, z>> \in R
    <2> HIDE DEF R
    <2>1. \A x, y \in Nat : x >= y \/ y >= x
      OBVIOUS
    <2>2. \A x, y, z \in Nat : x >= y /\ y >= z => x >= z
      OBVIOUS
    <2> QED BY <1>1, <2>1, <2>2
<1>3. \E x \in S : \A y \in S : <<x, y>> \in R
    <2> HIDE DEF R
    <2> QED BY <1>2, ExtremeExists, Zenon
<1>4. \E x \in S : \A y \in S : x >= y
    <2> HIDE DEF R
    <2> QED BY <1>1, <1>3, Zenon
<1>5. Max(S) \in S /\ \A y \in S : Max(S) >= y
    BY <1>4, Zenon DEF Max
<1> QED
    BY <1>5

(* At most k of a set of numbers are its newest k. *)
LEMMA NewestBound ==
    ASSUME NEW S \in SUBSET Nat, IsFiniteSet(S), NEW k \in Nat
    PROVE  /\ Newest(S, k) \subseteq S /\ IsFiniteSet(Newest(S, k))
           /\ Cardinality(Newest(S, k)) <= k
<1> DEFINE N == Newest(S, k)
           R == {e \in Nat \X Nat : e[1] <= e[2]}
<1>1. N \subseteq S
    BY DEF Newest
<1>2. IsFiniteSet(N)
    BY <1>1, FS_Subset
<1>3. CASE N = {}
    BY <1>1, <1>2, <1>3, FS_EmptySet
<1>4. CASE N # {}
    <2>1. \A x, y \in Nat : <<x, y>> \in R <=> x <= y
      OBVIOUS
    <2>2. PICK n \in N : \A m \in N : n <= m
      <3>1. /\ \A x, y \in N : <<x, y>> \in R \/ <<y, x>> \in R
            /\ \A x, y, z \in N : <<x, y>> \in R /\ <<y, z>> \in R => <<x, z>> \in R
        <4> HIDE DEF R, N
        <4>1. \A x, y \in Nat : x <= y \/ y <= x
          OBVIOUS
        <4>2. \A x, y, z \in Nat : x <= y /\ y <= z => x <= z
          OBVIOUS
        <4> QED BY <1>1, <2>1, <4>1, <4>2
      <3>2. \E x \in N : \A y \in N : <<x, y>> \in R
        <4> HIDE DEF R, N
        <4> QED BY <1>2, <1>4, <3>1, ExtremeExists
      <3> HIDE DEF R, N
      <3> QED BY <1>1, <2>1, <3>2, Zenon
    <2> DEFINE above == {m \in S : m > n}
    <2>3. Cardinality(above) < k
      BY <2>2 DEF Newest
    <2>4. above \subseteq S /\ IsFiniteSet(above) /\ Cardinality(above) \in Nat
      BY FS_Subset, FS_CardinalityType
    <2>5. N \ {n} \subseteq above
      <3> HIDE DEF N
      <3>1. \A m \in N \ {n} : m \in S /\ m \in Nat /\ n \in Nat /\ n <= m /\ n # m
        BY <1>1, <2>2
      <3> QED BY <3>1
    <2> HIDE DEF N, above
    <2>6. Cardinality(N \ {n}) = Cardinality(N) - 1 /\ Cardinality(N) \in Nat
      BY <1>2, <2>2, FS_RemoveElement, FS_CardinalityType, Zenon
    <2>7. Cardinality(N \ {n}) <= Cardinality(above)
      BY <2>4, <2>5, FS_Subset
    <2>8. Cardinality(N) <= k
      BY <2>3, <2>4, <2>6, <2>7
    <2> QED BY <1>1, <1>2, <2>8 DEF N
<1> QED
    BY <1>3, <1>4

-----------------------------------------------------------------------------
(* What the operators on the files do.                                       *)

(* The next number of a rotation is one that no generation has. *)
LEMMA NextGenIsNew ==
    ASSUME TypeOK, IsFiniteSet(DOMAIN gens)
    PROVE  NextGen \in Nat \ {0} /\ \A n \in DOMAIN gens : n < NextGen
<1>1. DOMAIN gens \subseteq Nat \ {0}
    BY DEF TypeOK
<1>2. CASE DOMAIN gens = {}
    BY <1>2 DEF NextGen
<1>3. CASE DOMAIN gens # {}
    <2>1. /\ Max(DOMAIN gens) \in DOMAIN gens
          /\ \A n \in DOMAIN gens : n <= Max(DOMAIN gens)
      BY <1>1, <1>3, MaxIsGreatest
    <2>2. NextGen = Max(DOMAIN gens) + 1
      BY <1>3 DEF NextGen
    <2> QED BY <1>1, <2>1, <2>2
<1> QED
    BY <1>2, <1>3

(* A rotation adds the disk under the next number and changes no other. *)
LEMMA RotateOutDoes ==
    ASSUME TypeOK, IsFiniteSet(DOMAIN gens), NEW p \in Processes, RotateOut(p)
    PROVE  /\ NextGen \in Nat \ {0} /\ \A n \in DOMAIN gens : n < NextGen
           /\ DOMAIN gens' = DOMAIN gens \cup {NextGen} /\ NextGen \notin DOMAIN gens
           /\ gens'[NextGen] = sys /\ \A n \in DOMAIN gens : gens'[n] = gens[n]
           /\ sys' = None
           /\ rotated' = [rotated EXCEPT ![p] = NextGen]
           /\ found' = [found EXCEPT ![p] = sys]
<1>1. NextGen \in Nat \ {0} /\ \A n \in DOMAIN gens : n < NextGen
    BY NextGenIsNew
<1>2. DOMAIN gens \subseteq Nat
    BY DEF TypeOK
<1>3. NextGen \notin DOMAIN gens
    BY <1>1, <1>2
<1>4. gens' = [n \in DOMAIN gens \cup {NextGen} |-> IF n = NextGen THEN sys ELSE gens[n]]
    BY DEF RotateOut
<1>5. /\ DOMAIN gens' = DOMAIN gens \cup {NextGen}
      /\ gens'[NextGen] = sys /\ \A n \in DOMAIN gens : gens'[n] = gens[n]
    BY <1>3, <1>4
<1> QED
    BY <1>1, <1>3, <1>5 DEF RotateOut

(* A prune keeps the generation just rotated, changes none, and leaves no     *)
(* more than Keep besides.                                                    *)
LEMMA PruneDoes ==
    ASSUME TypeOK, IsFiniteSet(DOMAIN gens), NEW p \in Processes, Prune(p)
    PROVE  /\ DOMAIN gens' \subseteq DOMAIN gens
           /\ \A n \in DOMAIN gens' : gens'[n] = gens[n]
           /\ rotated[p] \in DOMAIN gens => rotated[p] \in DOMAIN gens'
           /\ IsFiniteSet(DOMAIN gens') /\ Cardinality(DOMAIN gens') <= Keep + 1
<1> DEFINE own == DOMAIN gens \cap {rotated[p]}
           rest == DOMAIN gens \ {rotated[p]}
           old == Newest(rest, Keep)
<1>1. rest \in SUBSET Nat /\ IsFiniteSet(rest) /\ Keep \in Nat
    BY FS_Subset, DiskAssumption DEF TypeOK
<1>2. old \subseteq rest /\ IsFiniteSet(old) /\ Cardinality(old) <= Keep
    <2> HIDE DEF rest
    <2> QED BY <1>1, NewestBound
<1>3. /\ DOMAIN gens' = own \cup old
      /\ \A n \in own \cup old : gens'[n] = gens[n]
    BY DEF Prune, Restrict
<1>4. IsFiniteSet({rotated[p]}) /\ Cardinality({rotated[p]}) = 1
    BY FS_Singleton, Zenon
<1>5. IsFiniteSet(own) /\ Cardinality(own) <= 1
    BY <1>4, FS_Subset
<1>6. DOMAIN gens' \subseteq DOMAIN gens
    BY <1>2, <1>3
<1>7. IsFiniteSet(DOMAIN gens')
    BY <1>6, FS_Subset
<1> HIDE DEF own, rest, old
<1>8. Cardinality(own \cup old) <= Cardinality(own) + Cardinality(old)
    <2>1. Cardinality(own \cup old)
             = Cardinality(own) + Cardinality(old) - Cardinality(own \cap old)
      BY <1>2, <1>5, FS_Union
    <2>2. /\ Cardinality(own \cap old) \in Nat /\ Cardinality(own) \in Nat
          /\ Cardinality(old) \in Nat
      BY <1>2, <1>5, FS_Intersection, FS_CardinalityType
    <2> QED BY <2>1, <2>2
<1>9. Cardinality(DOMAIN gens') <= Keep + 1
    <2>1. /\ Cardinality(own \cup old) \in Nat /\ Cardinality(own) \in Nat
          /\ Cardinality(old) \in Nat
      BY <1>2, <1>3, <1>5, <1>7, FS_CardinalityType
    <2> QED BY <1>1, <1>2, <1>3, <1>5, <1>8, <2>1
<1> QED
    BY <1>3, <1>6, <1>7, <1>9 DEF own

(* Renaming a generation back takes that one away and changes no other. *)
LEMMA RenameBackDoes ==
    ASSUME NEW n \in DOMAIN gens, RenameBack(n)
    PROVE  /\ sys' = gens[n] /\ DOMAIN gens' = DOMAIN gens \ {n}
           /\ \A m \in DOMAIN gens' : gens'[m] = gens[m]
    BY DEF RenameBack, Restrict

-----------------------------------------------------------------------------
(* The inductive invariant.                                                  *)

(* The generations are finitely many files of different disks, none of them   *)
(* system.qcow2, and disks are numbered as they are built.                    *)
GenInv ==
    /\ IsFiniteSet(DOMAIN gens)
    /\ \A m, n \in DOMAIN gens : gens[m] = gens[n] => m = n
    /\ \A n \in DOMAIN gens : gens[n] # sys /\ gens[n] <= builds
    /\ sys <= builds /\ \A p \in Processes : found[p] <= builds

(* The build unit takes its own path through build_disks, and the VM service  *)
(* is not launched while it runs.                                             *)
UnitInv ==
    /\ unit = "running" <=> pc[BuildUnit] # "idle"
    /\ unit = "running" => svc \notin {"launch", "up", "backoff"}
    /\ pc[BuildUnit] \in {"idle", "check", "copy", "copying", "unlink", "restore",
                          "finish", "exit", "failed"}
    /\ pc[BuildUnit] # "idle" => cmd[BuildUnit] = "build"
    /\ rotated[BuildUnit] = 0
    /\ \A q \in Processes : pc[q] = "copying" <=> copying[q] # None

(* A command knows what it rotated: the newest generation, which is the disk  *)
(* of before, and no longer the one a rollback is to swap in.                 *)
KnowsRotated(p) ==
    rotated[p] # 0 => /\ rotated[p] \in DOMAIN gens /\ gens[rotated[p]] = found[p]
                      /\ \A n \in DOMAIN gens : n <= rotated[p]

CommandOK(p) ==
    /\ pc[p] \in {"check", "prune", "copy", "copying", "unlink", "restore", "finish", "restart"}
          => cmd[p] = "update"
    /\ pc[p] \in {"stop", "rotate", "swap", "unswap", "prune2", "start"} => cmd[p] = "rollback"
    /\ pc[p] \in {"idle", "check", "stop", "rotate"} => rotated[p] = 0
    /\ pc[p] \in {"stop", "rotate", "swap"} => target[p] \in DOMAIN gens \ {rotated[p]}
    /\ pc[p] = "prune" => rotated[p] # 0
    /\ pc[p] \in {"prune", "copy", "copying", "unlink", "restore", "swap", "unswap", "prune2",
                  "start"} => KnowsRotated(p)

CommandInv == \A p \in Procs : CommandOK(p)

Busy(p) == pc[p] \notin {"idle", "wait", "exit", "failed"}

(* As long as the build unit has not run beside a command, one writer at a    *)
(* time is at work on system.qcow2, and where that one may remove it the disk *)
(* of before is a generation.                                                 *)
Writing == {"copy", "copying", "unlink", "restore"}

AloneOK(p) ==
    /\ Busy(p) => unit # "running"
    /\ \A q \in Processes : copying[q] # None => copying[q] = sys
    /\ pc[p] \in {"swap", "unswap"} => sys = None
    /\ found[p] \in whole => found[p] \in OnDisk
    /\ found[p] \in whole /\ (\E q \in Processes : pc[q] \in Writing) => found[p] \in Range(gens)

AloneInv == ~overlapped => \A p \in Procs : AloneOK(p)

(* After the restart of an update QEMU has system.qcow2 open. *)
GuestInv ==
    \A p \in Procs : pc[p] \in {"wait", "exit"} /\ cmd[p] = "update" /\ svc = "up"
                       => qemu = sys

-----------------------------------------------------------------------------
(* Types.                                                                    *)

(* The part of TypeOK on the files, the host and the processes. *)
FilesOK ==
    /\ sys \in Disks \cup {None} /\ whole \subseteq Disks
    /\ DOMAIN gens \subseteq Nat \ {0} /\ \A n \in DOMAIN gens : gens[n] \in Disks
HostOK ==
    /\ qemu \in Disks \cup {None}
    /\ svc \in Services /\ unit \in {"inactive", "running", "done"}
LocalOK ==
    /\ pc \in [Processes -> Labels]
    /\ cmd \in [Processes -> {"none", "update", "rollback", "build"}]
    /\ rotated \in [Processes -> Nat] /\ target \in [Processes -> Nat]
    /\ copying \in [Processes -> Disks \cup {None}]
    /\ found \in [Processes -> Disks \cup {None}]
BoundOK == commands \in Nat /\ builds \in Nat /\ faults \in Nat

(* The type invariant, by what the actions change together. *)
LEMMA TypeParts ==
    /\ TypeOK <=> FilesOK /\ HostOK /\ LocalOK /\ BoundOK /\ overlapped \in BOOLEAN
    /\ TypeOK' <=> FilesOK' /\ HostOK' /\ LocalOK' /\ BoundOK' /\ overlapped' \in BOOLEAN
    BY DEF TypeOK, FilesOK, HostOK, LocalOK, BoundOK

(* The end of a command keeps the types of what a process holds. *)
LEMMA FinishTypes ==
    ASSUME LocalOK, NEW p \in Processes, Finish(p) PROVE LocalOK'
    BY DEF LocalOK, Finish, Goto, Labels

(* A fault keeps the types of the counters. *)
LEMMA FaultTypes ==
    ASSUME BoundOK, Fault, UNCHANGED bound PROVE BoundOK'
    BY DEF BoundOK, Fault, bound

(* A step of a process keeps the types. *)
LEMMA TypeStep ==
    ASSUME TypeOK, GenInv, UnitInv, NEW p \in Processes, Step(p) \/ Kill(p)
    PROVE  FilesOK' /\ HostOK' /\ LocalOK' /\ BoundOK'
<1>t. FilesOK /\ HostOK /\ LocalOK /\ BoundOK
    BY TypeParts
<1>goto. ASSUME NEW l \in Labels, Goto(p, l), UNCHANGED local PROVE LocalOK'
    BY <1>goto, <1>t DEF LocalOK, local, Goto
<1>files. ASSUME UNCHANGED files PROVE FilesOK'
    BY <1>files, <1>t DEF FilesOK, files
<1>host. ASSUME UNCHANGED host PROVE HostOK'
    BY <1>host, <1>t DEF HostOK, host
<1>bound. ASSUME UNCHANGED bound, NoFault \/ Fault PROVE BoundOK'
    BY <1>bound, <1>t, FaultTypes DEF NoFault, BoundOK, bound
<1>rotate. ASSUME sys # None, RotateOut(p), UNCHANGED whole,
                  NEW l \in Labels, Goto(p, l), UNCHANGED <<cmd, target, copying>>
           PROVE  FilesOK' /\ LocalOK'
    <2>1. IsFiniteSet(DOMAIN gens)
      BY DEF GenInv
    <2>2. FilesOK'
      BY <1>rotate, <1>t, <2>1, RotateOutDoes DEF FilesOK
    <2>3. /\ NextGen \in Nat /\ rotated' = [rotated EXCEPT ![p] = NextGen]
          /\ found' = [found EXCEPT ![p] = sys]
      BY <1>rotate, <2>1, RotateOutDoes
    <2> QED BY <1>rotate, <1>t, <2>2, <2>3 DEF LocalOK, FilesOK, Goto
<1>rename. ASSUME NEW n \in DOMAIN gens, RenameBack(n), UNCHANGED whole PROVE FilesOK'
    BY <1>rename, <1>t, RenameBackDoes, Zenon DEF FilesOK
<1>prune. ASSUME Prune(p), UNCHANGED <<sys, whole>> PROVE FilesOK'
    <2>1. DOMAIN gens' \subseteq DOMAIN gens /\ \A n \in DOMAIN gens' : gens'[n] = gens[n]
      BY <1>prune, PruneDoes DEF GenInv
    <2> QED BY <1>prune, <1>t, <2>1 DEF FilesOK
<1>1. CASE CheckDisk(p)
    <2>1. HostOK' /\ BoundOK'
      BY <1>1, <1>host, <1>bound DEF CheckDisk, NoFault
    <2>2. CASE sys # None /\ cmd[p] = "update"
      BY <1>1, <2>1, <2>2, <1>rotate DEF CheckDisk, Labels
    <2>3. CASE ~(sys # None /\ cmd[p] = "update")
      <3>1. UNCHANGED <<files, local>> /\ (Goto(p, "finish") \/ Goto(p, "copy"))
        BY <1>1, <2>3 DEF CheckDisk, files, local
      <3> QED BY <2>1, <3>1, <1>files, <1>goto DEF Labels
    <2> QED BY <2>2, <2>3
<1>2. CASE PruneGenerations(p)
    BY <1>2, <1>prune, <1>goto, <1>host, <1>bound DEF PruneGenerations, NoFault, Labels
<1>3. CASE BeginCopy(p)
    <2>1. HostOK'
      BY <1>3, <1>host DEF BeginCopy
    <2>2. builds + 1 \in Disks
      BY <1>t DEF BoundOK, Disks
    <2>3. FilesOK'
      BY <1>3, <1>t, <2>2 DEF BeginCopy, FilesOK
    <2>4. BoundOK'
      BY <1>3, <1>t DEF BeginCopy, BoundOK, Fault
    <2>5. LocalOK'
      <3>1. copying' \in [Processes -> Disks \cup {None}]
        BY <1>3, <1>t, <2>2 DEF BeginCopy, LocalOK, FilesOK
      <3>2. pc' \in [Processes -> Labels]
        BY <1>3, <1>t DEF BeginCopy, LocalOK, Goto, Labels
      <3> QED BY <1>3, <1>t, <3>1, <3>2 DEF BeginCopy, LocalOK
    <2> QED BY <2>1, <2>3, <2>4, <2>5
<1>4. CASE EndCopy(p)
    <2>1. HostOK' /\ BoundOK'
      BY <1>4, <1>host, <1>bound DEF EndCopy
    <2>2. copying[p] # None
      BY <1>4 DEF EndCopy, At, UnitInv
    <2>3. FilesOK'
      BY <1>4, <1>t, <2>2 DEF EndCopy, FilesOK, LocalOK
    <2>4. LocalOK'
      BY <1>4, <1>t DEF EndCopy, LocalOK, Goto, Labels
    <2> QED BY <2>1, <2>3, <2>4
<1>5. CASE UnlinkDisk(p)
    <2>1. FilesOK'
      BY <1>5, <1>t DEF UnlinkDisk, FilesOK
    <2> QED BY <1>5, <2>1, <1>goto, <1>host, <1>bound DEF UnlinkDisk, NoFault, Labels
<1>6. CASE RestoreGeneration(p)
    <2>1. FilesOK'
      BY <1>6, <1>rename, <1>files DEF RestoreGeneration, files
    <2> QED BY <1>6, <2>1, <1>goto, <1>host, <1>bound DEF RestoreGeneration, NoFault, Labels
<1>7. CASE FinishBuild(p)
    BY <1>7, <1>files, <1>goto, <1>host, <1>bound DEF FinishBuild, Labels
<1>8. CASE RestartService(p) \/ StartService(p)
    <2>1. HostOK'
      BY <1>8, <1>t DEF RestartService, StartService, HostOK, Services
    <2> QED BY <1>8, <2>1, <1>files, <1>goto, <1>bound
            DEF RestartService, StartService, NoFault, Labels
<1>9. CASE AwaitService(p)
    BY <1>9, <1>files, <1>goto, <1>host, <1>bound DEF AwaitService, NoFault, Labels
<1>10. CASE StopService(p)
    <2>1. HostOK'
      BY <1>10, <1>t DEF StopService, HostOK, Services
    <2>2. BoundOK'
      BY <1>10, <1>bound DEF StopService
    <2> QED BY <1>10, <2>1, <2>2, <1>files, <1>goto DEF StopService, Labels
<1>11. CASE RotateCurrent(p)
    <2>1. HostOK' /\ BoundOK'
      BY <1>11, <1>host, <1>bound DEF RotateCurrent, NoFault
    <2>2. CASE sys # None
      BY <1>11, <2>1, <2>2, <1>rotate DEF RotateCurrent, Labels
    <2>3. CASE sys = None
      BY <1>11, <2>1, <2>3, <1>files, <1>goto DEF RotateCurrent, files, local, Labels
    <2> QED BY <2>2, <2>3
<1>12. CASE SwapIn(p)
    <2>1. FilesOK' /\ LocalOK'
      BY <1>12, <1>rename, <1>files, <1>goto DEF SwapIn, files, Labels
    <2> QED BY <1>12, <2>1, <1>host, <1>bound DEF SwapIn
<1>13. CASE UndoSwap(p)
    <2>1. FilesOK'
      BY <1>13, <1>rename, <1>files DEF UndoSwap, files
    <2> QED BY <1>13, <2>1, <1>goto, <1>host, <1>bound DEF UndoSwap, NoFault, Labels
<1>14. CASE PruneAfterSwap(p)
    <2>1. FilesOK'
      BY <1>14, <1>prune, <1>files DEF PruneAfterSwap, files
    <2> QED BY <1>14, <2>1, <1>goto, <1>host, <1>bound DEF PruneAfterSwap, NoFault, Labels
<1>15. CASE Exit(p)
    BY <1>15, <1>t, <1>files, <1>host, <1>bound, FinishTypes DEF Exit, NoFault
<1>16. CASE Kill(p)
    <2>1. HostOK'
      BY <1>16, <1>t DEF Kill, HostOK, Services
    <2> QED BY <1>16, <2>1, <1>t, <1>files, <1>bound, FinishTypes DEF Kill
<1> QED
    BY <1>1, <1>2, <1>3, <1>4, <1>5, <1>6, <1>7, <1>8, <1>9, <1>10, <1>11, <1>12, <1>13,
       <1>14, <1>15, <1>16 DEF Step

(* Every step keeps the types. *)
LEMMA TypeNext == TypeOK /\ GenInv /\ UnitInv /\ [Next]_vars => TypeOK'
<1> SUFFICES ASSUME TypeOK, GenInv, UnitInv, [Next]_vars PROVE TypeOK'
    OBVIOUS
<1>t. FilesOK /\ HostOK /\ LocalOK /\ BoundOK /\ overlapped \in BOOLEAN
    BY TypeParts
<1>1. CASE UNCHANGED vars
    BY <1>1 DEF vars, state, files, host, local, bound, TypeOK
<1>2. CASE Next
    <2> SUFFICES FilesOK' /\ HostOK' /\ LocalOK' /\ BoundOK'
      <3>1. overlapped' \in BOOLEAN
        BY <1>2, <1>t DEF Next, Overlapping
      <3> QED BY <3>1, TypeParts
    <2>files. ASSUME UNCHANGED files PROVE FilesOK'
      BY <2>files, <1>t DEF FilesOK, files
    <2>1. ASSUME NEW p \in Processes, Step(p) \/ Kill(p)
          PROVE  FilesOK' /\ HostOK' /\ LocalOK' /\ BoundOK'
      BY <2>1, TypeStep
    <2>2. ASSUME NEW p \in Procs, StartRollback(p)
          PROVE  FilesOK' /\ HostOK' /\ LocalOK' /\ BoundOK'
      <3>1. DOMAIN gens \in SUBSET Nat /\ IsFiniteSet(DOMAIN gens) /\ DOMAIN gens # {}
        BY <2>2, <1>t DEF StartRollback, FilesOK, GenInv
      <3>2. Max(DOMAIN gens) \in Nat
        BY <3>1, MaxIsGreatest
      <3>3. LocalOK'
        BY <2>2, <1>t, <3>2 DEF StartRollback, CommandMayStart, Begin, LocalOK, Labels, Processes
      <3>4. HostOK' /\ BoundOK'
        BY <2>2, <1>t DEF StartRollback, CommandMayStart, host, HostOK, BoundOK
      <3> QED BY <2>2, <2>files, <3>3, <3>4 DEF StartRollback
    <2>3. ASSUME NEW p \in Procs, NEW pet \in BOOLEAN, StartUpdate(p, pet)
          PROVE  FilesOK' /\ HostOK' /\ LocalOK' /\ BoundOK'
      <3>1. LocalOK'
        BY <2>3, <1>t DEF StartUpdate, CommandMayStart, Begin, LocalOK, Labels, Processes
      <3>2. HostOK' /\ BoundOK'
        BY <2>3, <1>t DEF StartUpdate, CommandMayStart, host, HostOK, BoundOK
      <3> QED BY <2>3, <2>files, <3>1, <3>2 DEF StartUpdate
    <2>4. CASE BeginStart
      <3>1. LocalOK'
        BY <2>4, <1>t DEF BeginStart, Begin, LocalOK, Labels, Processes
      <3>2. HostOK' /\ BoundOK'
        BY <2>4, <1>t DEF BeginStart, bound, HostOK, BoundOK, Services
      <3> QED BY <2>4, <2>files, <3>1, <3>2 DEF BeginStart
    <2>5. CASE EndBuild
      <3>1. LocalOK'
        BY <2>5, <1>t, FinishTypes DEF EndBuild, Processes
      <3>2. HostOK' /\ BoundOK'
        BY <2>5, <1>t DEF EndBuild, bound, HostOK, BoundOK, Services
      <3> QED BY <2>5, <2>files, <3>1, <3>2 DEF EndBuild
    <2>6. CASE Launch \/ Relaunch \/ GuestExit \/ OperatorStart \/ OperatorStop
      <3>1. UNCHANGED <<files, pc, local, bound, faults>>
        BY <2>6 DEF Launch, Relaunch, GuestExit, OperatorStart, OperatorStop
      <3>2. HostOK'
        BY <2>6, <1>t DEF Launch, Relaunch, GuestExit, OperatorStart, OperatorStop, HostOK,
                          FilesOK, Services
      <3> QED BY <1>t, <2>files, <3>1, <3>2 DEF LocalOK, BoundOK, local, bound
    <2>7. CASE Reboot
      <3>1. LocalOK'
        BY <2>7, <1>t DEF Reboot, LocalOK, Labels
      <3>2. HostOK' /\ BoundOK'
        BY <2>7, <1>t DEF Reboot, bound, HostOK, BoundOK, Services, Fault
      <3> QED BY <2>7, <2>files, <3>1, <3>2 DEF Reboot
    <2> QED
      BY <1>2, <2>1, <2>2, <2>3, <2>4, <2>5, <2>6, <2>7 DEF Next, Systemd
<1> QED
    BY <1>1, <1>2

-----------------------------------------------------------------------------
(* The generations.                                                          *)

(* A new disk is none of those there; a rotation, a renaming and a prune keep *)
(* the disks of the generations different.                                    *)
LEMMA GenNext == TypeOK /\ GenInv /\ [Next]_vars => GenInv'
<1> SUFFICES ASSUME TypeOK, GenInv, [Next]_vars PROVE GenInv'
    OBVIOUS
<1>t. FilesOK /\ LocalOK /\ builds \in Nat
    BY DEF TypeOK, FilesOK, LocalOK
<1>g. /\ IsFiniteSet(DOMAIN gens)
      /\ \A m, n \in DOMAIN gens : gens[m] = gens[n] => m = n
      /\ \A n \in DOMAIN gens : gens[n] # sys /\ gens[n] <= builds
      /\ sys <= builds /\ \A p \in Processes : found[p] <= builds
    BY DEF GenInv
<1>same. ASSUME UNCHANGED <<sys, gens, builds, found>> PROVE GenInv'
    BY <1>same, <1>g DEF GenInv
<1>rotate. ASSUME NEW p \in Processes, sys # None, RotateOut(p), UNCHANGED builds
           PROVE  GenInv'
    <2>1. /\ DOMAIN gens' = DOMAIN gens \cup {NextGen} /\ NextGen \notin DOMAIN gens
          /\ gens'[NextGen] = sys /\ \A n \in DOMAIN gens : gens'[n] = gens[n]
          /\ sys' = None /\ found' = [found EXCEPT ![p] = sys]
      BY <1>rotate, <1>g, RotateOutDoes, Zenon
    <2>2. IsFiniteSet(DOMAIN gens')
      BY <1>g, <2>1, FS_AddElement
    <2>3. \A m, n \in DOMAIN gens' : gens'[m] = gens'[n] => m = n
      BY <1>g, <2>1
    <2>4. \A n \in DOMAIN gens' : gens'[n] \in Disks /\ gens'[n] <= builds
      BY <1>rotate, <1>g, <1>t, <2>1 DEF FilesOK
    <2>5. \A n \in DOMAIN gens' : gens'[n] # sys'
      BY <2>1, <2>4 DEF Disks, None
    <2>6. sys' <= builds
      BY <1>t, <2>1 DEF None
    <2>7. \A q \in Processes : found'[q] <= builds
      BY <1>t, <1>g, <2>1 DEF LocalOK
    <2> QED BY <1>rotate, <2>2, <2>3, <2>4, <2>5, <2>6, <2>7 DEF GenInv
<1>rename. ASSUME NEW n \in DOMAIN gens, RenameBack(n), UNCHANGED <<builds, found>>
           PROVE  GenInv'
    <2>1. /\ sys' = gens[n] /\ DOMAIN gens' = DOMAIN gens \ {n}
          /\ \A m \in DOMAIN gens' : gens'[m] = gens[m]
      BY <1>rename, RenameBackDoes, Zenon
    <2>2. IsFiniteSet(DOMAIN gens')
      BY <1>g, <2>1, FS_RemoveElement
    <2> QED BY <1>rename, <1>g, <2>1, <2>2 DEF GenInv
<1>prune. ASSUME NEW p \in Processes, Prune(p), UNCHANGED <<sys, builds, found>> PROVE GenInv'
    <2>1. /\ DOMAIN gens' \subseteq DOMAIN gens /\ IsFiniteSet(DOMAIN gens')
          /\ \A n \in DOMAIN gens' : gens'[n] = gens[n]
      BY <1>prune, <1>g, PruneDoes
    <2> QED BY <1>prune, <1>g, <2>1 DEF GenInv
<1>1. ASSUME NEW p \in Processes, CheckDisk(p) \/ RotateCurrent(p) PROVE GenInv'
    <2>1. builds' = builds
      BY <1>1 DEF CheckDisk, RotateCurrent, bound
    <2> QED BY <1>1, <2>1, <1>same, <1>rotate DEF CheckDisk, RotateCurrent
<1>2. ASSUME NEW p \in Processes, PruneGenerations(p) \/ PruneAfterSwap(p) PROVE GenInv'
    BY <1>2, <1>same, <1>prune DEF PruneGenerations, PruneAfterSwap, local, bound
<1>3. ASSUME NEW p \in Processes, RestoreGeneration(p) \/ UndoSwap(p) \/ SwapIn(p)
      PROVE  GenInv'
    BY <1>3, <1>same, <1>rename DEF RestoreGeneration, UndoSwap, SwapIn, local, bound
<1>4. ASSUME NEW p \in Processes, BeginCopy(p) PROVE GenInv'
    <2>1. UNCHANGED <<gens, found>>
      BY <1>4 DEF BeginCopy
    <2>2. CASE UNCHANGED <<sys, builds>>
      BY <2>1, <2>2, <1>same
    <2>3. CASE sys' = builds + 1 /\ builds' = builds + 1
      <3>1. \A n \in DOMAIN gens : gens[n] \in Nat /\ gens[n] <= builds
        BY <1>g, <1>t DEF FilesOK, Disks
      <3>2. \A n \in DOMAIN gens' : gens'[n] # sys' /\ gens'[n] <= builds'
        BY <1>t, <2>1, <2>3, <3>1
      <3>3. \A q \in Processes : found[q] \in Nat /\ found[q] <= builds
        BY <1>g, <1>t DEF LocalOK, Disks, None
      <3>4. sys' <= builds' /\ \A q \in Processes : found'[q] <= builds'
        BY <1>t, <2>1, <2>3, <3>3
      <3> QED BY <1>g, <2>1, <3>2, <3>4 DEF GenInv
    <2> QED BY <1>4, <2>2, <2>3 DEF BeginCopy
<1>5. ASSUME NEW p \in Processes, UnlinkDisk(p) PROVE GenInv'
    <2>1. sys' = None /\ UNCHANGED <<gens, builds, found>>
      BY <1>5 DEF UnlinkDisk, local, bound
    <2>2. \A n \in DOMAIN gens : gens[n] # None
      BY <1>t DEF FilesOK, Disks, None
    <2> QED BY <1>g, <1>t, <2>1, <2>2 DEF GenInv, None
<1>6. ASSUME NEW p \in Processes,
             \/ EndCopy(p) \/ FinishBuild(p) \/ RestartService(p) \/ AwaitService(p)
             \/ StopService(p) \/ StartService(p) \/ Exit(p) \/ Kill(p)
      PROVE  GenInv'
    BY <1>6, <1>same DEF EndCopy, FinishBuild, RestartService, AwaitService, StopService,
       StartService, Exit, Kill, Finish, files, local, bound
<1>7. ASSUME NEW p \in Procs,
             StartRollback(p) \/ \E pet \in BOOLEAN : StartUpdate(p, pet)
      PROVE  GenInv'
    BY <1>7, <1>same DEF StartRollback, StartUpdate, files
<1>8. CASE BeginStart \/ EndBuild \/ Launch \/ Relaunch
    BY <1>8, <1>same DEF BeginStart, EndBuild, Launch, Relaunch, Finish, files, local, bound
<1>9. CASE GuestExit \/ OperatorStart \/ OperatorStop \/ Reboot \/ UNCHANGED vars
    BY <1>9, <1>same DEF GuestExit, OperatorStart, OperatorStop, Reboot, vars, state, files,
       local, bound
<1> QED
    BY <1>1, <1>2, <1>3, <1>4, <1>5, <1>6, <1>7, <1>8, <1>9 DEF Next, Step, Systemd

-----------------------------------------------------------------------------
(* The build unit.                                                           *)

(* A step of one process leaves the other's own state alone. *)
LEMMA OthersKeepTheirs ==
    ASSUME TypeOK, NEW p \in Processes, Step(p) \/ Kill(p), NEW q \in Processes, q # p
    PROVE  /\ pc'[q] = pc[q] /\ cmd'[q] = cmd[q] /\ rotated'[q] = rotated[q]
           /\ target'[q] = target[q] /\ copying'[q] = copying[q] /\ found'[q] = found[q]
<1>t. LocalOK
    BY TypeParts
<1>1. CASE CheckDisk(p) \/ RotateCurrent(p)
    BY <1>1, <1>t DEF CheckDisk, RotateCurrent, RotateOut, Goto, LocalOK
<1>2. CASE BeginCopy(p) \/ EndCopy(p)
    BY <1>2, <1>t DEF BeginCopy, EndCopy, Goto, LocalOK
<1>3. CASE Exit(p) \/ Kill(p)
    BY <1>3, <1>t DEF Exit, Kill, Finish, Goto, LocalOK
<1>4. CASE \/ PruneGenerations(p) \/ UnlinkDisk(p) \/ RestoreGeneration(p) \/ FinishBuild(p)
           \/ RestartService(p) \/ AwaitService(p) \/ StopService(p) \/ SwapIn(p)
           \/ UndoSwap(p) \/ PruneAfterSwap(p) \/ StartService(p)
    <2>1. UNCHANGED local /\ \E l : Goto(p, l)
      BY <1>4 DEF PruneGenerations, UnlinkDisk, RestoreGeneration, FinishBuild, RestartService,
         AwaitService, StopService, SwapIn, UndoSwap, PruneAfterSwap, StartService
    <2> QED BY <1>t, <2>1 DEF Goto, local, LocalOK
<1> QED
    BY <1>1, <1>2, <1>3, <1>4, Zenon DEF Step

(* Who copies, and only who copies, has a disk that it writes. *)
LEMMA CopyingNext ==
    ASSUME TypeOK, UnitInv, [Next]_vars, NEW q \in Processes
    PROVE  pc'[q] = "copying" <=> copying'[q] # None
<1>t. LocalOK /\ FilesOK /\ builds \in Nat
    BY DEF TypeOK, LocalOK, FilesOK
<1>c. pc[q] = "copying" <=> copying[q] # None
    BY DEF UnitInv
<1>1. ASSUME NEW p \in Processes, Step(p) \/ Kill(p)
      PROVE  pc'[q] = "copying" <=> copying'[q] # None
    <2>1. CASE q # p
      BY <1>1, <1>c, <2>1, OthersKeepTheirs
    <2>2. CASE q = p
      <3>1. CASE BeginCopy(q)
        <4>1. builds + 1 # None
          BY <1>t DEF None
        <4> QED BY <3>1, <4>1, <1>t, <1>c DEF BeginCopy, At, Goto, LocalOK
      <3>2. CASE EndCopy(q)
        BY <3>2, <1>t DEF EndCopy, Goto, LocalOK
      <3>3. CASE Exit(q) \/ Kill(q)
        BY <3>3, <1>t DEF Exit, Kill, Finish, Goto, LocalOK
      <3>4. CASE CheckDisk(q) \/ RotateCurrent(q)
        BY <3>4, <1>t, <1>c DEF CheckDisk, RotateCurrent, At, Goto, LocalOK
      <3>5. CASE \/ PruneGenerations(q) \/ UnlinkDisk(q) \/ RestoreGeneration(q)
                 \/ FinishBuild(q) \/ RestartService(q) \/ AwaitService(q)
        BY <3>5, <1>t, <1>c DEF PruneGenerations, UnlinkDisk, RestoreGeneration, FinishBuild,
           RestartService, AwaitService, At, Goto, local, LocalOK
      <3>6. CASE \/ StopService(q) \/ SwapIn(q) \/ UndoSwap(q) \/ PruneAfterSwap(q)
                 \/ StartService(q)
        BY <3>6, <1>t, <1>c DEF StopService, SwapIn, UndoSwap, PruneAfterSwap, StartService,
           At, Goto, local, LocalOK
      <3> QED BY <1>1, <2>2, <3>1, <3>2, <3>3, <3>4, <3>5, <3>6, Zenon DEF Step
    <2> QED BY <2>1, <2>2
<1>2. ASSUME NEW p \in Procs,
             StartRollback(p) \/ \E pet \in BOOLEAN : StartUpdate(p, pet)
      PROVE  pc'[q] = "copying" <=> copying'[q] # None
    BY <1>2, <1>t, <1>c DEF StartRollback, StartUpdate, CommandMayStart, Begin, At, LocalOK
<1>3. CASE BeginStart
    <2>1. CASE unit = "inactive" /\ sys = None
      <3>1. pc[BuildUnit] = "idle"
        BY <2>1 DEF UnitInv
      <3> QED BY <1>3, <2>1, <3>1, <1>t, <1>c DEF BeginStart, Begin, LocalOK
    <2>2. CASE ~(unit = "inactive" /\ sys = None)
      BY <1>3, <2>2, <1>c DEF BeginStart
    <2> QED BY <2>1, <2>2
<1>4. CASE EndBuild
    BY <1>4, <1>t, <1>c DEF EndBuild, Finish, Goto, LocalOK
<1>5. CASE Launch \/ Relaunch \/ GuestExit \/ OperatorStart \/ OperatorStop
    BY <1>5, <1>c DEF Launch, Relaunch, GuestExit, OperatorStart, OperatorStop, local
<1>6. CASE Reboot
    BY <1>6 DEF Reboot
<1>7. CASE UNCHANGED vars
    BY <1>7, <1>c DEF vars, state, local
<1> QED
    BY <1>1, <1>2, <1>3, <1>4, <1>5, <1>6, <1>7 DEF Next, Systemd

(* It runs while its process is at work, and the service waits for it. *)
LEMMA UnitNext == TypeOK /\ UnitInv /\ [Next]_vars => UnitInv'
<1> SUFFICES ASSUME TypeOK, UnitInv, [Next]_vars PROVE UnitInv'
    OBVIOUS
<1> DEFINE Rest ==
      /\ unit = "running" <=> pc[BuildUnit] # "idle"
      /\ unit = "running" => svc \notin {"launch", "up", "backoff"}
      /\ pc[BuildUnit] \in {"idle", "check", "copy", "copying", "unlink", "restore",
                            "finish", "exit", "failed"}
      /\ pc[BuildUnit] # "idle" => cmd[BuildUnit] = "build"
      /\ rotated[BuildUnit] = 0
<1>t. LocalOK /\ HostOK
    BY TypeParts
<1>b. BuildUnit \in Processes /\ \A p \in Procs : p \in Processes /\ p # BuildUnit
    BY DiskAssumption DEF Processes
<1>u. Rest
    BY DEF UnitInv
<1> SUFFICES Rest'
    BY CopyingNext DEF UnitInv
<1>1. ASSUME NEW p \in Procs, Step(p) \/ Kill(p) PROVE Rest'
    <2>1. /\ pc'[BuildUnit] = pc[BuildUnit] /\ cmd'[BuildUnit] = cmd[BuildUnit]
          /\ rotated'[BuildUnit] = rotated[BuildUnit]
      BY <1>1, <1>b, OthersKeepTheirs
    <2>2. unit' = unit /\ (svc' = svc \/ svc' \in {"start", "down"})
      BY <1>1, <1>b, Zenon DEF Step, CheckDisk, PruneGenerations, BeginCopy, EndCopy, UnlinkDisk,
         RestoreGeneration, FinishBuild, RestartService, AwaitService, StopService,
         RotateCurrent, SwapIn, UndoSwap, PruneAfterSwap, StartService, Exit, Kill, host
    <2> QED BY <1>u, <2>1, <2>2
<1>2. CASE Step(BuildUnit)
    <2> DEFINE b == BuildUnit
    <2>1. \/ CheckDisk(b) \/ BeginCopy(b) \/ EndCopy(b) \/ UnlinkDisk(b)
          \/ RestoreGeneration(b) \/ FinishBuild(b)
      BY <1>2, <1>u, <1>b, Zenon DEF Step, PruneGenerations, RestartService, AwaitService, StopService,
         RotateCurrent, SwapIn, UndoSwap, PruneAfterSwap, StartService, Exit, At
    <2>2. /\ pc[b] # "idle" /\ pc'[b] \in {"copy", "copying", "unlink", "restore", "finish",
                                           "exit", "failed"}
          /\ UNCHANGED <<host, cmd>> /\ rotated'[b] = rotated[b]
      <3>1. CASE CheckDisk(b)
        BY <3>1, <1>u, <1>b, <1>t DEF CheckDisk, At, Goto, LocalOK
      <3>2. CASE BeginCopy(b) \/ EndCopy(b)
        BY <3>2, <1>b, <1>t DEF BeginCopy, EndCopy, At, Goto, LocalOK
      <3>3. CASE UnlinkDisk(b) \/ RestoreGeneration(b)
        BY <3>3, <1>b, <1>t DEF UnlinkDisk, RestoreGeneration, At, Goto, LocalOK, local
      <3>4. CASE FinishBuild(b)
        BY <3>4, <1>u, <1>b, <1>t DEF FinishBuild, At, Goto, LocalOK, local
      <3> QED BY <2>1, <3>1, <3>2, <3>3, <3>4, Zenon
    <2> QED BY <1>u, <2>2 DEF host
<1>3. CASE Kill(BuildUnit)
    BY <1>3, <1>u, <1>b, <1>t DEF Kill, Finish, Goto, At, LocalOK
<1>4. ASSUME NEW p \in Procs,
             StartRollback(p) \/ \E pet \in BOOLEAN : StartUpdate(p, pet)
      PROVE  Rest'
    <2>1. UNCHANGED <<host, rotated>>
      BY <1>4 DEF StartRollback, StartUpdate
    <2>2. pc'[BuildUnit] = pc[BuildUnit] /\ cmd'[BuildUnit] = cmd[BuildUnit]
      BY <1>4, <1>b, <1>t DEF StartRollback, StartUpdate, Begin, LocalOK
    <2> QED BY <1>u, <2>1, <2>2 DEF host
<1>5. CASE BeginStart
    <2>1. CASE unit = "inactive" /\ sys = None
      <3>1. /\ unit' = "running" /\ pc'[BuildUnit] = "check" /\ cmd'[BuildUnit] = "build"
            /\ svc' = "build" /\ UNCHANGED rotated
        BY <1>5, <2>1, <1>b, <1>t DEF BeginStart, Begin, LocalOK
      <3> QED BY <1>u, <3>1
    <2>2. CASE ~(unit = "inactive" /\ sys = None)
      BY <1>5, <2>2, <1>u DEF BeginStart
    <2> QED BY <2>1, <2>2
<1>6. CASE EndBuild
    BY <1>6, <1>u, <1>b, <1>t DEF EndBuild, Finish, Goto, At, LocalOK
<1>7. CASE Launch \/ Relaunch \/ GuestExit \/ OperatorStart \/ OperatorStop
    <2>1. UNCHANGED <<unit, pc, cmd, rotated>>
      BY <1>7 DEF Launch, Relaunch, GuestExit, OperatorStart, OperatorStop, local
    <2>2. unit = "running" => svc' \in {"start", "down"}
      BY <1>7, <1>u DEF Launch, Relaunch, GuestExit, OperatorStart, OperatorStop
    <2> QED BY <1>u, <2>1, <2>2
<1>8. CASE Reboot
    BY <1>8, <1>b DEF Reboot
<1>9. CASE UNCHANGED vars
    BY <1>9, <1>u DEF vars, state, host, local
<1> QED
    BY <1>1, <1>2, <1>3, <1>4, <1>5, <1>6, <1>7, <1>8, <1>9, <1>b DEF Next, Systemd, Processes

(* The build unit renames nothing: it has rotated no disk out. *)
LEMMA UnitKeepsGens ==
    ASSUME TypeOK, UnitInv, Step(BuildUnit) \/ Kill(BuildUnit)
    PROVE  UNCHANGED <<gens, found>>
<1>1. /\ pc[BuildUnit] \in {"idle", "check", "copy", "copying", "unlink", "restore", "finish",
                            "exit", "failed"}
      /\ pc[BuildUnit] # "idle" => cmd[BuildUnit] = "build"
      /\ rotated[BuildUnit] = 0 /\ 0 \notin DOMAIN gens
    BY DEF UnitInv, TypeOK
<1>2. CASE Kill(BuildUnit)
    BY <1>2 DEF Kill, Finish, files
<1>3. CASE CheckDisk(BuildUnit)
    BY <1>1, <1>3 DEF CheckDisk, At
<1>4. CASE RestoreGeneration(BuildUnit)
    BY <1>1, <1>4, Zenon DEF RestoreGeneration, local
<1>5. CASE \/ BeginCopy(BuildUnit) \/ EndCopy(BuildUnit) \/ UnlinkDisk(BuildUnit)
           \/ FinishBuild(BuildUnit)
    BY <1>5 DEF BeginCopy, EndCopy, UnlinkDisk, FinishBuild, files, local
<1> QED
    BY <1>1, <1>2, <1>3, <1>4, <1>5, DiskAssumption, Zenon DEF Step, PruneGenerations, RestartService,
       AwaitService, StopService, RotateCurrent, SwapIn, UndoSwap, PruneAfterSwap,
       StartService, Exit, At

-----------------------------------------------------------------------------
(* What a command knows.                                                     *)

(* With one operator, whose process is p, these are the steps. *)
LEMMA WhoMoves ==
    ASSUME [Next]_vars, NEW p \in Procs
    PROVE  \/ Step(p) \/ Kill(p) \/ Step(BuildUnit) \/ Kill(BuildUnit)
           \/ StartRollback(p) \/ (\E pet \in BOOLEAN : StartUpdate(p, pet))
           \/ BeginStart \/ EndBuild \/ Launch \/ Relaunch \/ GuestExit \/ OperatorStart
           \/ OperatorStop \/ Reboot \/ UNCHANGED vars
<1>1. \A q \in Procs : q = p
    BY DiskAssumption
<1> QED
    BY <1>1 DEF Next, Systemd, Processes

(* Every step keeps what a command knows of the files at each of its labels. *)
LEMMA CommandNext ==
    TypeOK /\ GenInv /\ UnitInv /\ CommandInv /\ [Next]_vars => CommandInv'
<1> SUFFICES ASSUME TypeOK, GenInv, UnitInv, CommandInv, [Next]_vars, NEW p \in Procs
             PROVE  CommandOK(p)'
    BY DEF CommandInv
<1> USE DEF CommandOK, KnowsRotated
<1>inv. CommandOK(p)
    BY DEF CommandInv
<1>t. LocalOK /\ FilesOK
    BY TypeParts
<1>p. p \in Processes /\ p # BuildUnit /\ \A q \in Processes : q = p \/ q = BuildUnit
    BY DiskAssumption DEF Processes
<1>fin. IsFiniteSet(DOMAIN gens)
    BY DEF GenInv
<1>same. ASSUME UNCHANGED <<gens>>, pc'[p] = pc[p], cmd'[p] = cmd[p], rotated'[p] = rotated[p],
                target'[p] = target[p], found'[p] = found[p]
         PROVE  CommandOK(p)'
    BY <1>same, <1>inv
<1>know. ASSUME UNCHANGED <<gens, rotated, found>>, KnowsRotated(p) PROVE KnowsRotated(p)'
    BY <1>know
<1>rotate. ASSUME RotateOut(p), sys # None
           PROVE  /\ KnowsRotated(p)' /\ rotated'[p] # 0
                  /\ \A n \in DOMAIN gens : n \in DOMAIN gens' \ {rotated'[p]}
    <2>1. /\ NextGen \in Nat \ {0} /\ \A n \in DOMAIN gens : n < NextGen
          /\ DOMAIN gens' = DOMAIN gens \cup {NextGen} /\ NextGen \notin DOMAIN gens
          /\ gens'[NextGen] = sys
          /\ rotated' = [rotated EXCEPT ![p] = NextGen] /\ found' = [found EXCEPT ![p] = sys]
      BY <1>rotate, <1>fin, <1>p, RotateOutDoes
    <2>2. rotated'[p] = NextGen /\ found'[p] = sys
      BY <1>t, <1>p, <2>1 DEF LocalOK
    <2>3. \A n \in DOMAIN gens' : n <= NextGen
      <3>1. \A n \in DOMAIN gens : n \in Nat
        BY <1>t DEF FilesOK
      <3> QED BY <2>1, <3>1
    <2> QED BY <2>1, <2>2, <2>3
<1>prune. ASSUME Prune(p), UNCHANGED <<rotated, found>>, KnowsRotated(p) PROVE KnowsRotated(p)'
    <2>1. /\ DOMAIN gens' \subseteq DOMAIN gens
          /\ \A n \in DOMAIN gens' : gens'[n] = gens[n]
          /\ rotated[p] \in DOMAIN gens => rotated[p] \in DOMAIN gens'
      BY <1>prune, <1>fin, <1>p, PruneDoes
    <2> QED BY <1>prune, <2>1
<1>1. CASE Step(BuildUnit) \/ Kill(BuildUnit)
    <2>1. /\ pc'[p] = pc[p] /\ cmd'[p] = cmd[p] /\ rotated'[p] = rotated[p]
          /\ target'[p] = target[p] /\ found'[p] = found[p]
      BY <1>1, <1>p, OthersKeepTheirs DEF Processes
    <2> QED BY <1>1, <2>1, <1>same, UnitKeepsGens
<1>2. CASE CheckDisk(p)
    <2>1. pc[p] = "check" /\ cmd'[p] = cmd[p] /\ cmd[p] = "update"
      BY <1>2, <1>inv, Zenon DEF CheckDisk, At
    <2>2. CASE sys # None
      <3>1. pc'[p] = "prune" /\ RotateOut(p)
        BY <1>2, <1>t, <1>p, <2>1, <2>2 DEF CheckDisk, Goto, LocalOK
      <3> HIDE DEF KnowsRotated
      <3> QED BY <1>rotate, <2>1, <2>2, <3>1
    <2>3. CASE sys = None
      <3>1. pc'[p] = "copy" /\ rotated'[p] = 0
        BY <1>2, <1>t, <1>p, <1>inv, <2>1, <2>3 DEF CheckDisk, Goto, LocalOK
      <3> QED BY <2>1, <3>1
    <2> QED BY <2>2, <2>3
<1>3. CASE PruneGenerations(p)
    <2>1. /\ pc[p] = "prune" /\ pc'[p] = "copy" /\ UNCHANGED <<cmd, rotated, found>>
          /\ Prune(p)
      BY <1>3, <1>t, <1>p DEF PruneGenerations, At, Goto, LocalOK, local
    <2>2. KnowsRotated(p)
      BY <1>inv, <2>1, Zenon
    <2> HIDE DEF KnowsRotated
    <2> QED BY <1>inv, <1>prune, <2>1, <2>2, Zenon
<1>4. CASE BeginCopy(p) \/ EndCopy(p) \/ UnlinkDisk(p)
    <2>1. /\ pc[p] \in {"copy", "copying", "unlink"}
          /\ pc'[p] \in {"copying", "unlink", "restore", "finish"}
          /\ UNCHANGED <<gens, cmd, rotated, found>>
      BY <1>4, <1>t, <1>p, Zenon DEF BeginCopy, EndCopy, UnlinkDisk, At, Goto, LocalOK, local
    <2> QED BY <1>inv, <1>know, <2>1, Zenon
<1>5. CASE RestoreGeneration(p) \/ UndoSwap(p) \/ AwaitService(p)
    <2>1. pc'[p] \in {"failed", "exit"}
      BY <1>5, <1>t, <1>p DEF RestoreGeneration, UndoSwap, AwaitService, Goto, LocalOK
    <2> QED BY <2>1, Zenon
<1>6. CASE FinishBuild(p) \/ RestartService(p) \/ StartService(p)
    <2>1. /\ pc[p] \in {"finish", "restart", "start"} /\ cmd' = cmd
          /\ pc'[p] \in {"restart", "exit", "failed", "wait"}
          /\ pc'[p] = "restart" => cmd[p] = "update"
      BY <1>6, <1>t, <1>p DEF FinishBuild, RestartService, StartService, At, Goto, LocalOK, local
    <2> QED BY <2>1
<1>7. CASE StopService(p)
    <2>1. pc[p] = "stop" /\ pc'[p] = "rotate" /\ UNCHANGED <<gens, cmd, rotated, target>>
      BY <1>7, <1>t, <1>p DEF StopService, At, Goto, LocalOK, files, local
    <2> QED BY <1>inv, <2>1
<1>8. CASE RotateCurrent(p)
    <2>1. pc[p] = "rotate" /\ pc'[p] = "swap" /\ UNCHANGED <<cmd, target>>
      BY <1>8, <1>t, <1>p DEF RotateCurrent, At, Goto, LocalOK
    <2>2. CASE sys # None
      <3>1. RotateOut(p)
        BY <1>8, <2>2 DEF RotateCurrent
      <3> HIDE DEF KnowsRotated
      <3> QED BY <1>inv, <1>rotate, <2>1, <2>2, <3>1
    <2>3. CASE sys = None
      <3>1. UNCHANGED <<gens, rotated>>
        BY <1>8, <2>3 DEF RotateCurrent
      <3> QED BY <1>inv, <2>1, <3>1
    <2> QED BY <2>2, <2>3
<1>9. CASE SwapIn(p)
    <2>1. /\ pc[p] = "swap" /\ pc'[p] \in {"prune2", "unswap"}
          /\ UNCHANGED <<cmd, rotated, found>>
      BY <1>9, <1>t, <1>p DEF SwapIn, At, Goto, LocalOK, local
    <2>2. KnowsRotated(p) /\ target[p] # rotated[p]
      BY <1>inv, <2>1
    <2>3. CASE UNCHANGED gens
      BY <1>inv, <1>know, <2>1, <2>2, <2>3, Zenon
    <2>4. CASE target[p] \in DOMAIN gens /\ RenameBack(target[p])
      <3>1. DOMAIN gens' = DOMAIN gens \ {target[p]} /\ \A m \in DOMAIN gens' : gens'[m] = gens[m]
        BY <2>4, RenameBackDoes, Zenon
      <3> QED BY <1>inv, <2>1, <2>2, <3>1, Zenon
    <2> QED BY <1>9, <2>3, <2>4, Zenon DEF SwapIn
<1>10. CASE PruneAfterSwap(p)
    <2>1. pc[p] = "prune2" /\ pc'[p] = "start" /\ UNCHANGED <<cmd, rotated, found>>
      BY <1>10, <1>t, <1>p DEF PruneAfterSwap, At, Goto, LocalOK, local
    <2>2. KnowsRotated(p)
      BY <1>inv, <2>1, Zenon
    <2>3. KnowsRotated(p)'
      <3>1. CASE rotated[p] # 0
        <4>1. Prune(p)
          BY <1>10, <3>1 DEF PruneAfterSwap
        <4> HIDE DEF KnowsRotated
        <4> QED BY <1>prune, <2>1, <2>2, <4>1
      <3>2. CASE rotated[p] = 0
        BY <2>1, <3>2
      <3> QED BY <3>1, <3>2
    <2> HIDE DEF KnowsRotated
    <2> QED BY <1>inv, <2>1, <2>3, Zenon
<1>11. CASE Exit(p) \/ Kill(p)
    <2>1. pc'[p] = "idle" /\ rotated'[p] = 0
      BY <1>11, <1>t, <1>p DEF Exit, Kill, Finish, Goto, LocalOK
    <2> QED BY <2>1
<1>12. CASE StartRollback(p)
    <2>1. /\ pc[p] = "idle" /\ pc'[p] = "stop" /\ cmd'[p] = "rollback"
          /\ UNCHANGED <<gens, rotated>> /\ target'[p] = Max(DOMAIN gens) /\ DOMAIN gens # {}
      BY <1>12, <1>t, <1>p DEF StartRollback, CommandMayStart, Begin, At, LocalOK, files
    <2>2. Max(DOMAIN gens) \in DOMAIN gens
      BY <2>1, <1>fin, <1>t, MaxIsGreatest DEF FilesOK
    <2>3. 0 \notin DOMAIN gens
      BY <1>t DEF FilesOK
    <2> QED BY <1>inv, <2>1, <2>2, <2>3
<1>13. ASSUME NEW pet \in BOOLEAN, StartUpdate(p, pet) PROVE CommandOK(p)'
    <2>1. /\ pc[p] = "idle" /\ pc'[p] \in {"restart", "check"} /\ cmd'[p] = "update"
          /\ UNCHANGED rotated
      BY <1>13, <1>t, <1>p DEF StartUpdate, CommandMayStart, Begin, At, LocalOK
    <2> QED BY <1>inv, <2>1
<1>14. CASE BeginStart
    BY <1>14, <1>same, <1>t, <1>p DEF BeginStart, Begin, LocalOK, files
<1>15. CASE EndBuild
    BY <1>15, <1>same, <1>t, <1>p DEF EndBuild, Finish, Goto, LocalOK, files
<1>16. CASE Launch \/ Relaunch \/ GuestExit \/ OperatorStart \/ OperatorStop \/ UNCHANGED vars
    BY <1>16, <1>same DEF Launch, Relaunch, GuestExit, OperatorStart, OperatorStop, vars, state,
       files, local
<1>17. CASE Reboot
    <2>1. pc'[p] = "idle" /\ rotated'[p] = 0
      BY <1>17, <1>p DEF Reboot
    <2> QED BY <2>1
<1> HIDE DEF CommandOK, KnowsRotated
<1> QED
    BY <1>1, <1>2, <1>3, <1>4, <1>5, <1>6, <1>7, <1>8, <1>9, <1>10, <1>11, <1>12, <1>13,
       <1>14, <1>15, <1>16, <1>17, WhoMoves DEF Step

-----------------------------------------------------------------------------
(* One writer at a time.                                                     *)

(* Every step keeps what holds of a command that nobody writes beside. *)
LEMMA AloneNext ==
    TypeOK /\ GenInv /\ UnitInv /\ CommandInv /\ AloneInv /\ [Next]_vars => AloneInv'
<1> SUFFICES ASSUME TypeOK, GenInv, UnitInv, CommandInv, AloneInv, [Next]_vars,
                    ~overlapped', NEW p \in Procs
             PROVE  AloneOK(p)'
    BY DEF AloneInv
<1>0. CASE UNCHANGED vars
    BY <1>0 DEF vars, state, files, host, local, AloneInv, AloneOK, Busy, OnDisk
<1> SUFFICES ASSUME Next PROVE AloneOK(p)'
    BY <1>0
<1>t. LocalOK /\ FilesOK
    BY TypeParts
<1>p. p \in Processes /\ p # BuildUnit /\ \A q \in Processes : q = p \/ q = BuildUnit
    BY DiskAssumption DEF Processes
<1>c. /\ \A q \in Processes : pc[q] = "copying" <=> copying[q] # None
      /\ \A q \in Processes : pc'[q] = "copying" <=> copying'[q] # None
    BY CopyingNext DEF UnitInv
<1>alone. AloneOK(p) /\ (Busy(p)' => unit' # "running")
    BY Zenon DEF Next, AloneInv, Overlapping, Busy
<1>cmd. CommandOK(p)
    BY DEF CommandInv
<1>disk. /\ None \notin whole /\ (found[p] \in whole => found[p] # None)
         /\ \A d : d \in OnDisk <=> d = sys \/ \E n \in DOMAIN gens : d = gens[n]
         /\ \A d : d \in OnDisk' <=> d = sys' \/ \E n \in DOMAIN gens' : d = gens'[n]
    BY <1>t DEF FilesOK, Disks, None, OnDisk, Range
<1>busy. /\ Busy(p) => pc[BuildUnit] = "idle"
         /\ pc[BuildUnit] # "idle" => ~Busy(p)
    BY <1>alone DEF AloneOK, UnitInv
<1>same. ASSUME UNCHANGED files, found'[p] = found[p],
                \A q \in Processes : copying'[q] \in {copying[q], None},
                pc'[p] \in {"swap", "unswap"} => sys = None,
                \A q \in Processes : pc'[q] \in Writing => pc[q] \in Writing \/ sys = None
         PROVE  AloneOK(p)'
    <2>1. \A q \in Processes : copying'[q] # None => copying'[q] = sys'
      BY <1>same, <1>alone, Zenon DEF AloneOK, files
    <2>2. found'[p] \in whole' => found'[p] \in OnDisk'
      BY <1>same, <1>alone DEF AloneOK, files, OnDisk
    <2>3. found[p] \in whole /\ sys = None => found[p] \in Range(gens)
      BY <1>alone, <1>disk DEF AloneOK, Range
    <2>4. found'[p] \in whole' /\ (\E q \in Processes : pc'[q] \in Writing)
             => found'[p] \in Range(gens')
      BY <1>same, <1>alone, <2>3, Zenon DEF AloneOK, files
    <2> QED BY <1>same, <1>alone, <2>1, <2>2, <2>4, Zenon DEF AloneOK, files
<1>gone. ASSUME \A q \in Processes : pc'[q] \notin Writing, found'[p] \in whole' => found'[p] \in OnDisk',
                pc'[p] \in {"swap", "unswap"} => sys' = None
         PROVE  AloneOK(p)'
    <2>1. \A q \in Processes : copying'[q] = None
      BY <1>gone, <1>c DEF Writing
    <2> QED BY <1>gone, <1>alone, <2>1 DEF AloneOK
<1>rename. ASSUME NEW n \in DOMAIN gens, RenameBack(n), UNCHANGED whole, found'[p] = found[p],
                  found[p] \in whole => found[p] \in Range(gens)
           PROVE  found'[p] \in whole' => found'[p] \in OnDisk'
    <2>1. sys' = gens[n] /\ DOMAIN gens' = DOMAIN gens \ {n} /\ \A m \in DOMAIN gens' : gens'[m] = gens[m]
      BY <1>rename, RenameBackDoes, Zenon
    <2> QED BY <1>rename, <1>disk, <2>1 DEF Range
<1>rotate. ASSUME RotateOut(p)
           PROVE  sys' = None /\ found'[p] \in OnDisk'
    <2>1. /\ DOMAIN gens' = DOMAIN gens \cup {NextGen} /\ gens'[NextGen] = sys
          /\ sys' = None /\ found' = [found EXCEPT ![p] = sys]
      BY <1>rotate, <1>p, RotateOutDoes, Zenon DEF GenInv
    <2>2. found'[p] = sys
      BY <1>t, <1>p, <2>1 DEF LocalOK
    <2> QED BY <1>disk, <2>1, <2>2
<1>copy. ASSUME NEW q \in Processes, BeginCopy(q) \/ EndCopy(q) \/ UnlinkDisk(q)
         PROVE  AloneOK(p)'
    <2>1. /\ pc[q] \in {"copy", "copying", "unlink"} /\ UNCHANGED <<gens, found>>
          /\ pc'[q] \in {"copying", "unlink", "restore", "finish"}
      BY <1>copy, <1>t DEF BeginCopy, EndCopy, UnlinkDisk, At, Goto, LocalOK, local
    <2>2. ASSUME NEW r \in Processes, r # q
          PROVE  pc'[r] = pc[r] /\ ~(pc[r] \in Writing) /\ copying'[r] = copying[r] /\ copying[r] = None
      <3>1. pc'[r] = pc[r] /\ copying'[r] = copying[r]
        BY <1>copy, <2>2, OthersKeepTheirs, Zenon DEF Step
      <3>2. ~(pc[r] \in Writing)
        BY <1>p, <1>busy, <2>1, <2>2 DEF Busy, Writing
      <3> QED BY <1>c, <3>1, <3>2 DEF Writing
    <2>3. found[p] \in whole => found[p] \in Range(gens)
      BY <1>alone, <2>1 DEF AloneOK, Writing
    <2>4. pc'[p] \notin {"swap", "unswap"}
      <3>1. q # p => ~Busy(p)
        BY <1>p, <1>busy, <2>1
      <3> QED BY <1>p, <2>1, <2>2, <3>1 DEF Busy
    <2>5. CASE BeginCopy(q)
      <3>1. found'[p] \in whole' => found'[p] \in Range(gens')
        BY <2>1, <2>3, <2>5 DEF BeginCopy
      <3>2. copying'[q] # None => copying'[q] = sys'
        BY <1>t, <1>c, <2>5, Zenon DEF BeginCopy, At, LocalOK
      <3>3. \A r \in Processes : copying'[r] # None => copying'[r] = sys'
        BY <2>2, <3>2
      <3> QED BY <1>alone, <2>4, <3>1, <3>3 DEF AloneOK, OnDisk
    <2>6. CASE EndCopy(q)
      <3>1. copying[q] = sys /\ copying'[q] = None /\ UNCHANGED sys
        BY <1>alone, <1>c, <1>t, <2>6 DEF EndCopy, At, AloneOK, LocalOK
      <3>2. \A r \in Processes : copying'[r] = None
        BY <2>2, <3>1
      <3>3. CASE UNCHANGED whole
        BY <1>alone, <2>1, <2>3, <2>4, <3>2, <3>3, Zenon DEF AloneOK, OnDisk
      <3>4. CASE pc'[q] = "finish" /\ whole' \subseteq whole \cup {sys}
        <4>1. found'[p] \in whole' => found'[p] \in OnDisk'
          BY <2>1, <2>3, <3>1, <3>4 DEF OnDisk
        <4>2. \A r \in Processes : pc'[r] \notin Writing
          BY <2>2, <3>4 DEF Writing
        <4> QED BY <1>gone, <2>4, <4>1, <4>2
      <3> QED BY <1>t, <2>6, <3>1, <3>3, <3>4 DEF EndCopy, Goto, LocalOK
    <2>7. CASE UnlinkDisk(q)
      <3>1. sys' = None /\ UNCHANGED <<whole, copying>> /\ copying[q] = None
        BY <1>c, <2>7, Zenon DEF UnlinkDisk, At, local
      <3>2. \A r \in Processes : copying'[r] = None
        BY <2>2, <3>1
      <3> QED BY <1>alone, <2>1, <2>3, <2>4, <3>1, <3>2, Zenon DEF AloneOK, OnDisk
    <2> QED BY <1>copy, <2>5, <2>6, <2>7
<1>1. CASE Step(BuildUnit) \/ Kill(BuildUnit)
    <2>1. UNCHANGED gens /\ found'[p] = found[p] /\ pc'[p] = pc[p] /\ copying'[p] = copying[p]
      BY <1>1, <1>p, UnitKeepsGens, OthersKeepTheirs DEF Processes
    <2>2. CASE BeginCopy(BuildUnit) \/ EndCopy(BuildUnit) \/ UnlinkDisk(BuildUnit)
      BY <2>2, <1>copy DEF Processes
    <2>3. CASE CheckDisk(BuildUnit)
      <3>1. UNCHANGED <<files, copying>> /\ (pc'[BuildUnit] \in Writing => sys = None)
        BY <2>1, <2>3, <1>t DEF CheckDisk, UnitInv, At, Goto, LocalOK, files, Writing, Processes
      <3>2. pc'[p] \notin {"swap", "unswap"} \/ sys = None
        BY <1>alone, <2>1, Zenon DEF AloneOK
      <3> QED BY <2>1, <3>1, <3>2, <1>p, <1>same
    <2>4. CASE RestoreGeneration(BuildUnit) \/ FinishBuild(BuildUnit) \/ Kill(BuildUnit)
      <3>1. UNCHANGED files
        BY <2>1, <2>4, Zenon DEF RestoreGeneration, FinishBuild, Kill, UnitInv, TypeOK, files
      <3>2. /\ pc'[BuildUnit] \notin Writing
            /\ copying'[BuildUnit] \in {copying[BuildUnit], None}
        BY <2>4, <1>t DEF RestoreGeneration, FinishBuild, Kill, Finish, UnitInv, At, Goto, LocalOK,
           local, Writing, Processes
      <3>3. pc'[p] \notin {"swap", "unswap"} \/ sys = None
        BY <1>alone, <2>1, Zenon DEF AloneOK
      <3> QED BY <2>1, <3>1, <3>2, <3>3, <1>p, <1>same, Zenon
    <2>5. \/ CheckDisk(BuildUnit) \/ BeginCopy(BuildUnit) \/ EndCopy(BuildUnit)
          \/ UnlinkDisk(BuildUnit) \/ RestoreGeneration(BuildUnit) \/ FinishBuild(BuildUnit)
          \/ Kill(BuildUnit)
      BY <1>1, DiskAssumption, Zenon DEF UnitInv, Step, PruneGenerations, RestartService, AwaitService,
         StopService, RotateCurrent, SwapIn, UndoSwap, PruneAfterSwap, StartService, Exit, At
    <2> QED BY <2>2, <2>3, <2>4, <2>5
<1>own. ASSUME Step(p) \/ Kill(p), Busy(p), pc'[p] \notin Writing
        PROVE  \A q \in Processes : pc'[q] \notin Writing
    <2>1. pc'[BuildUnit] = "idle"
      BY <1>own, <1>p, <1>busy, OthersKeepTheirs, Zenon DEF Processes
    <2> QED BY <1>own, <1>p, <2>1 DEF Writing
<1>2. CASE CheckDisk(p) \/ RotateCurrent(p)
    <2>1. Busy(p) /\ pc[p] \in {"check", "rotate"} /\ UNCHANGED <<whole, copying>>
      BY <1>2, Zenon DEF CheckDisk, RotateCurrent, At, Busy
    <2>2. CASE sys # None
      <3>1. RotateOut(p) /\ pc'[p] \in {"prune", "swap"}
        BY <1>2, <1>t, <1>p, <1>cmd, <2>2 DEF CheckDisk, RotateCurrent, At, Goto, LocalOK,
           CommandOK
      <3>2. pc'[p] \notin Writing
        BY <3>1 DEF Writing
      <3> QED BY <1>2, <1>gone, <1>own, <1>rotate, <2>1, <3>1, <3>2, Zenon DEF Step
    <2>3. CASE sys = None
      <3>1. UNCHANGED <<files, found>>
        BY <1>2, <2>3 DEF CheckDisk, RotateCurrent, files
      <3> QED BY <1>same, <2>1, <2>3, <3>1, Zenon
    <2> QED BY <2>2, <2>3
<1>3. CASE PruneGenerations(p) \/ PruneAfterSwap(p)
    <2>1. /\ Busy(p) /\ pc[p] \in {"prune", "prune2"} /\ pc'[p] \in {"copy", "start"}
          /\ UNCHANGED <<sys, whole, local>>
      BY <1>3, <1>t, <1>p DEF PruneGenerations, PruneAfterSwap, At, Goto, Busy, LocalOK
    <2>2. KnowsRotated(p) /\ (pc[p] = "prune" => rotated[p] # 0)
      BY <1>cmd, <2>1, Zenon DEF CommandOK
    <2>3. CASE rotated[p] # 0
      <3>1. Prune(p)
        BY <1>3, <2>3 DEF PruneGenerations, PruneAfterSwap
      <3>2. found'[p] = gens'[rotated[p]] /\ rotated[p] \in DOMAIN gens'
        <4>1. /\ \A n \in DOMAIN gens' : gens'[n] = gens[n]
              /\ rotated[p] \in DOMAIN gens => rotated[p] \in DOMAIN gens'
          BY <3>1, <1>p, PruneDoes DEF GenInv
        <4> QED BY <2>1, <2>2, <2>3, <4>1 DEF KnowsRotated, local
      <3>3. \A q \in Processes : copying'[q] = None
        <4>1. copying[p] = None /\ copying[BuildUnit] = None
          BY <1>c, <1>p, <1>busy, <2>1 DEF Processes
        <4> QED BY <1>p, <2>1, <4>1 DEF local
      <3>4. pc'[p] \notin {"swap", "unswap"}
        BY <2>1
      <3> QED BY <1>alone, <3>2, <3>3, <3>4, Zenon DEF AloneOK, OnDisk, Range
    <2>4. CASE rotated[p] = 0
      <3>1. UNCHANGED files /\ pc'[p] = "start"
        BY <1>3, <1>t, <1>p, <2>1, <2>2, <2>4 DEF PruneGenerations, PruneAfterSwap, At, Goto, files,
           LocalOK
      <3>2. \A q \in Processes : pc'[q] \notin Writing
        BY <1>3, <1>own, <2>1, <3>1, Zenon DEF Step, Writing
      <3> QED BY <1>same, <2>1, <3>1, <3>2, Zenon DEF local
    <2> QED BY <2>3, <2>4
<1>4. CASE BeginCopy(p) \/ EndCopy(p) \/ UnlinkDisk(p)
    BY <1>4, <1>copy, <1>p
<1>5. CASE RestoreGeneration(p) \/ UndoSwap(p) \/ SwapIn(p)
    <2>1. /\ Busy(p) /\ pc[p] \in {"restore", "unswap", "swap"}
          /\ pc'[p] \in {"failed", "unswap", "prune2"} /\ UNCHANGED <<whole, local>>
          /\ pc'[p] = "unswap" => pc[p] = "swap" /\ UNCHANGED sys
      BY <1>5, <1>t, <1>p DEF RestoreGeneration, UndoSwap, SwapIn, At, Goto, Busy, LocalOK
    <2>2. \A q \in Processes : pc'[q] \notin Writing
      BY <1>5, <1>own, <2>1, Zenon DEF Step, Writing
    <2>3. found[p] \in whole => found[p] \in Range(gens)
      BY <1>alone, <1>disk, <1>p, <2>1, Zenon DEF AloneOK, Writing, Range
    <2>4. \/ \E n \in DOMAIN gens : RenameBack(n)
          \/ UNCHANGED <<sys, gens>>
      BY <1>5 DEF RestoreGeneration, UndoSwap, SwapIn
    <2>5. found'[p] \in whole' => found'[p] \in OnDisk'
      BY <1>rename, <2>1, <2>3, <2>4, Zenon DEF local, OnDisk
    <2>6. pc'[p] = "unswap" => sys' = None
      BY <1>alone, <2>1 DEF AloneOK
    <2> QED BY <1>gone, <2>1, <2>2, <2>5, <2>6
<1>6. CASE \/ FinishBuild(p) \/ RestartService(p) \/ AwaitService(p) \/ StopService(p)
           \/ StartService(p)
    <2>1. /\ UNCHANGED <<files, local>>
          /\ pc'[p] \in {"restart", "exit", "failed", "wait", "rotate"}
      BY <1>6, <1>t, <1>p DEF FinishBuild, RestartService, AwaitService, StopService, StartService,
         Goto, LocalOK
    <2>2. pc'[BuildUnit] = pc[BuildUnit]
      BY <1>6, <1>p, OthersKeepTheirs, Zenon DEF Step, Processes
    <2> QED BY <1>same, <1>p, <2>1, <2>2 DEF local, Writing
<1>7. CASE Exit(p) \/ Kill(p)
    <2>1. /\ UNCHANGED <<files, found>> /\ pc'[p] = "idle" /\ copying'[p] = None
      BY <1>7, <1>t, <1>p DEF Exit, Kill, Finish, Goto, LocalOK
    <2>2. pc'[BuildUnit] = pc[BuildUnit] /\ copying'[BuildUnit] = copying[BuildUnit]
      BY <1>7, <1>p, OthersKeepTheirs, Zenon DEF Step, Processes
    <2> QED BY <1>same, <1>p, <2>1, <2>2, Zenon DEF Writing
<1>8. CASE StartRollback(p) \/ \E pet \in BOOLEAN : StartUpdate(p, pet)
    <2>1. /\ UNCHANGED <<files, found, copying>> /\ pc'[p] \in {"stop", "restart", "check"}
          /\ pc'[BuildUnit] = pc[BuildUnit]
      BY <1>8, <1>t, <1>p DEF StartRollback, StartUpdate, Begin, LocalOK, Processes
    <2> QED BY <1>same, <1>p, <2>1, Zenon DEF Writing
<1>9. CASE BeginStart
    <2>1. /\ UNCHANGED <<files, found, copying>> /\ pc'[p] = pc[p]
          /\ pc'[BuildUnit] \in {pc[BuildUnit], "check"}
      BY <1>9, <1>t, <1>p DEF BeginStart, Begin, LocalOK, Processes
    <2>2. pc'[p] \in {"swap", "unswap"} => sys = None
      BY <1>alone, <2>1 DEF AloneOK
    <2> QED BY <1>same, <1>p, <2>1, <2>2, Zenon DEF Writing
<1>10. CASE EndBuild
    <2>1. /\ UNCHANGED <<files, found>> /\ pc'[p] = pc[p] /\ pc'[BuildUnit] = "idle"
          /\ copying'[p] = copying[p] /\ copying'[BuildUnit] = None
      BY <1>10, <1>t, <1>p DEF EndBuild, Finish, Goto, LocalOK, Processes
    <2>2. pc'[p] \in {"swap", "unswap"} => sys = None
      BY <1>alone, <2>1 DEF AloneOK
    <2> QED BY <1>same, <1>p, <2>1, <2>2 DEF Writing
<1>11. CASE Launch \/ Relaunch \/ GuestExit \/ OperatorStart \/ OperatorStop
    <2>1. UNCHANGED <<files, local, pc>>
      BY <1>11 DEF Launch, Relaunch, GuestExit, OperatorStart, OperatorStop
    <2>2. pc'[p] \in {"swap", "unswap"} => sys = None
      BY <1>alone, <2>1 DEF AloneOK
    <2> QED BY <1>same, <2>1, <2>2 DEF local
<1>12. CASE Reboot
    <2>1. /\ UNCHANGED <<files, found>>
          /\ \A q \in Processes : pc'[q] = "idle" /\ copying'[q] = None
      BY <1>12 DEF Reboot
    <2> QED BY <1>same, <1>p, <2>1 DEF Writing
<1> QED
    BY <1>0, <1>1, <1>2, <1>3, <1>4, <1>5, <1>6, <1>7, <1>8, <1>9, <1>10, <1>11, <1>12,
       WhoMoves DEF Step

-----------------------------------------------------------------------------
(* The guest.                                                                *)

(* QEMU opens what is system.qcow2, and nobody replaces that while the        *)
(* service is up and the update waits or reports.                             *)
LEMMA GuestNext ==
    TypeOK /\ UnitInv /\ CommandInv /\ GuestInv /\ [Next]_vars => GuestInv'
<1> SUFFICES ASSUME TypeOK, UnitInv, CommandInv, GuestInv, [Next]_vars, NEW p \in Procs,
                    pc'[p] \in {"wait", "exit"}, cmd'[p] = "update", svc' = "up"
             PROVE  qemu' = sys'
    BY DEF GuestInv
<1>t. LocalOK
    BY TypeParts
<1>p. p \in Processes /\ p # BuildUnit
    BY DiskAssumption DEF Processes
<1>same. ASSUME pc[p] \in {"wait", "exit"}, cmd[p] = "update", svc = "up", UNCHANGED <<qemu, sys>>
         PROVE  qemu' = sys'
    BY <1>same DEF GuestInv
<1>1. CASE Step(BuildUnit) \/ Kill(BuildUnit)
    <2>1. unit = "running"
      BY <1>1, DiskAssumption, Zenon DEF UnitInv, Step, Kill, CheckDisk, PruneGenerations, BeginCopy, EndCopy,
         UnlinkDisk, RestoreGeneration, FinishBuild, RestartService, AwaitService, StopService,
         RotateCurrent, SwapIn, UndoSwap, PruneAfterSwap, StartService, Exit, At
    <2>2. svc' \in {svc, "down"}
      BY <1>1, DiskAssumption, Zenon DEF UnitInv, Step, Kill, CheckDisk, PruneGenerations, BeginCopy, EndCopy,
         UnlinkDisk, RestoreGeneration, FinishBuild, RestartService, AwaitService, StopService,
         RotateCurrent, SwapIn, UndoSwap, PruneAfterSwap, StartService, Exit, At, host
    <2> QED BY <2>1, <2>2 DEF UnitInv
<1>2. CASE Step(p) \/ Kill(p)
    <2>1. CASE AwaitService(p)
      BY <2>1, <1>same, Zenon DEF AwaitService, At, files, host, local
    <2>2. CASE RestartService(p)
      BY <2>2 DEF RestartService
    <2>3. CASE StartService(p)
      <3>1. cmd'[p] = "rollback"
        BY <2>3 DEF StartService, At, CommandInv, CommandOK, local
      <3> QED BY <3>1
    <2>4. CASE FinishBuild(p)
      <3>1. cmd[p] = "update"
        BY <2>4, Zenon DEF FinishBuild, At, CommandInv, CommandOK
      <3> QED BY <1>t, <1>p, <2>4, <3>1 DEF FinishBuild, Goto, LocalOK
    <2>5. CASE \/ CheckDisk(p) \/ PruneGenerations(p) \/ BeginCopy(p) \/ EndCopy(p)
               \/ UnlinkDisk(p) \/ RestoreGeneration(p) \/ StopService(p)
      BY <2>5, <1>t, <1>p, Zenon DEF CheckDisk, PruneGenerations, BeginCopy, EndCopy, UnlinkDisk,
         RestoreGeneration, StopService, Goto, LocalOK
    <2>6. CASE \/ RotateCurrent(p) \/ SwapIn(p) \/ UndoSwap(p) \/ PruneAfterSwap(p)
               \/ Exit(p) \/ Kill(p)
      BY <2>6, <1>t, <1>p, Zenon DEF RotateCurrent, SwapIn, UndoSwap, PruneAfterSwap, Exit, Kill, Finish,
         Goto, LocalOK
    <2> QED BY <1>2, <2>1, <2>2, <2>3, <2>4, <2>5, <2>6, Zenon DEF Step
<1>3. CASE StartRollback(p) \/ \E pet \in BOOLEAN : StartUpdate(p, pet)
    BY <1>3, <1>t, <1>p DEF StartRollback, StartUpdate, Begin, LocalOK
<1>4. CASE BeginStart
    BY <1>4, Zenon DEF BeginStart
<1>5. CASE EndBuild
    <2>1. unit = "running"
      BY <1>5, Zenon DEF EndBuild, UnitInv
    <2>2. svc' \in {svc, "launch", "down"}
      BY <1>5, Zenon DEF EndBuild
    <2> QED BY <2>1, <2>2 DEF UnitInv
<1>6. CASE Launch
    BY <1>6 DEF Launch, files
<1>7. CASE Relaunch \/ GuestExit \/ OperatorStart \/ OperatorStop \/ Reboot
    BY <1>7 DEF Relaunch, GuestExit, OperatorStart, OperatorStop, Reboot
<1>8. CASE UNCHANGED vars
    BY <1>8, <1>same DEF vars, state, files, host, local
<1> QED
    BY <1>1, <1>2, <1>3, <1>4, <1>5, <1>6, <1>7, <1>8, WhoMoves

-----------------------------------------------------------------------------
(* How many generations there are.                                           *)

Between(labels) == {p \in Procs : labels[p] \in {"prune", "swap"}}

(* At most one command is between its rotation and its prune. *)
LEMMA BetweenCount ==
    ASSUME NEW labels
    PROVE  /\ Cardinality(Between(labels)) \in {0, 1}
           /\ \A p \in Procs : Cardinality(Between(labels))
                               = IF labels[p] \in {"prune", "swap"} THEN 1 ELSE 0
<1>1. CASE Between(labels) = {}
    BY <1>1, FS_EmptySet DEF Between
<1>2. ASSUME NEW p \in Between(labels)
      PROVE  /\ Cardinality(Between(labels)) \in {0, 1}
             /\ \A q \in Procs : Cardinality(Between(labels))
                                 = IF labels[q] \in {"prune", "swap"} THEN 1 ELSE 0
    <2>1. Between(labels) = {p} /\ \A q \in Procs : q = p
      BY <1>2, DiskAssumption DEF Between
    <2>2. Cardinality({p}) = 1
      BY FS_Singleton
    <2> QED BY <2>1, <2>2 DEF Between
<1> QED
    BY <1>1, <1>2

Generations == Cardinality(DOMAIN gens)
Unpruned == Cardinality(Between(pc))

(* The arithmetic of the bound: a step that rotates begins to owe a prune, and *)
(* one that gives up owing it without pruning is a fault.                      *)
LEMMA BoundArithmetic ==
    ASSUME NEW k \in Nat, NEW g \in Nat, NEW h \in Nat, NEW f \in Nat, NEW e \in {f, f + 1},
           NEW u \in {0, 1}, NEW v \in {0, 1}, g <= k + 1 + f + u,
           \/ h = g /\ (v >= u \/ e = f + 1)
           \/ h = g + 1 /\ u = 0 /\ v = 1
           \/ h = g - 1
           \/ h <= k + 1
    PROVE  h <= k + 1 + e + v
OBVIOUS

(* The bound on the generations is kept by every step.                         *)
LEMMA BoundNext ==
    ASSUME TypeOK, GenInv, UnitInv, CommandInv, GenerationsBounded, [Next]_vars
    PROVE  GenerationsBounded'
<1> DEFINE count(p) == IF pc[p] \in {"prune", "swap"} THEN 1 ELSE 0
<1>t. LocalOK /\ FilesOK /\ Keep \in Nat /\ faults \in Nat /\ IsFiniteSet(DOMAIN gens)
    BY DiskAssumption DEF TypeOK, LocalOK, FilesOK, GenInv
<1>n. /\ Generations \in Nat /\ Unpruned \in {0, 1} /\ Unpruned' \in {0, 1}
      /\ Generations <= Keep + 1 + faults + Unpruned
    <2>1. Generations \in Nat
      BY <1>t, FS_CardinalityType DEF Generations
    <2>2. Unpruned \in {0, 1} /\ Unpruned' \in {0, 1}
      BY BetweenCount DEF Unpruned
    <2> QED BY <2>1, <2>2, Zenon DEF GenerationsBounded, Between, Generations, Unpruned
<1>p. \A p \in Procs : p \in Processes /\ p # BuildUnit /\ Unpruned = count(p) /\ Unpruned' = count(p)'
    BY DiskAssumption, BetweenCount DEF Processes, Unpruned
<1>f. faults' \in {faults, faults + 1}
    BY Zenon DEF Next, Step, Systemd, CheckDisk, PruneGenerations, BeginCopy, EndCopy, UnlinkDisk,
       RestoreGeneration, FinishBuild, RestartService, AwaitService, StopService, RotateCurrent,
       SwapIn, UndoSwap, PruneAfterSwap, StartService, Exit, Kill, StartRollback, StartUpdate,
       BeginStart, EndBuild, Launch, Relaunch, GuestExit, OperatorStart, OperatorStop, Reboot,
       Fault, NoFault, vars, state
<1>goal. ASSUME Generations' \in Nat,
                \/ Generations' = Generations /\ (Unpruned' >= Unpruned \/ faults' = faults + 1)
                \/ Generations' = Generations + 1 /\ Unpruned = 0 /\ Unpruned' = 1
                \/ Generations' = Generations - 1 \/ Generations' <= Keep + 1
         PROVE  GenerationsBounded'
    <2>1. Generations' <= Keep + 1 + faults' + Unpruned'
      <3>1. PICK g, h, u, v, f, e : /\ g = Generations /\ h = Generations' /\ u = Unpruned
                                    /\ v = Unpruned' /\ f = faults /\ e = faults'
        OBVIOUS
      <3>2. /\ Keep \in Nat /\ g \in Nat /\ h \in Nat /\ f \in Nat /\ e \in {f, f + 1}
            /\ u \in {0, 1} /\ v \in {0, 1} /\ g <= Keep + 1 + f + u
        BY <3>1, <1>goal, <1>t, <1>n, <1>f, Zenon
      <3>3. CASE Generations' = Generations /\ (Unpruned' >= Unpruned \/ faults' = faults + 1)
        <4>1. h = g /\ (v >= u \/ e = f + 1)
          BY <3>1, <3>3
        <4>2. h <= Keep + 1 + e + v
          BY <3>2, <4>1, BoundArithmetic
        <4> QED BY <3>1, <4>2, Zenon
      <3>4. CASE Generations' = Generations + 1 /\ Unpruned = 0 /\ Unpruned' = 1
        <4>1. h = g + 1 /\ u = 0 /\ v = 1
          BY <3>1, <3>4, Zenon
        <4>2. h <= Keep + 1 + e + v
          BY <3>2, <4>1, BoundArithmetic
        <4> QED BY <3>1, <4>2, Zenon
      <3>5. CASE Generations' = Generations - 1 \/ Generations' <= Keep + 1
        <4>1. h = g - 1 \/ h <= Keep + 1
          BY <3>1, <3>5
        <4>2. h <= Keep + 1 + e + v
          BY <3>2, <4>1, BoundArithmetic
        <4> QED BY <3>1, <4>2, Zenon
      <3> QED BY <1>goal, <3>3, <3>4, <3>5
    <2> QED BY <2>1 DEF GenerationsBounded, Between, Generations, Unpruned
<1>same. ASSUME UNCHANGED gens, Unpruned' >= Unpruned \/ faults' = faults + 1 PROVE GenerationsBounded'
    <2>1. Generations' = Generations
      BY <1>same DEF Generations
    <2> QED BY <1>goal, <1>same, <1>n, <2>1
<1>still. ASSUME UNCHANGED gens, \A p \in Procs : pc'[p] = pc[p] PROVE GenerationsBounded'
    <2>1. Unpruned' = Unpruned
      BY <1>still DEF Unpruned, Between
    <2>2. Unpruned' >= Unpruned
      BY <1>n, <2>1
    <2> QED BY <1>same, <1>still, <2>2
<1>small. ASSUME NEW p \in Processes, Prune(p) PROVE GenerationsBounded'
    <2>1. IsFiniteSet(DOMAIN gens') /\ Generations' <= Keep + 1
      BY <1>small, <1>t, PruneDoes DEF Generations
    <2>2. Generations' \in Nat
      BY <2>1, FS_CardinalityType DEF Generations
    <2> QED BY <1>goal, <2>1, <2>2
<1>1. CASE Step(BuildUnit) \/ Kill(BuildUnit)
    <2>1. \A p \in Procs : pc'[p] = pc[p]
      BY <1>1, <1>p, OthersKeepTheirs DEF Processes
    <2> QED BY <1>1, <1>still, <2>1, UnitKeepsGens
<1>2. ASSUME NEW p \in Procs, CheckDisk(p) \/ RotateCurrent(p) PROVE GenerationsBounded'
    <2>1. Unpruned = 0
      BY <1>2, <1>p DEF CheckDisk, RotateCurrent, At
    <2>2. CASE UNCHANGED gens
      BY <1>n, <1>same, <2>1, <2>2
    <2>3. CASE RotateOut(p)
      <3>1. DOMAIN gens' = DOMAIN gens \cup {NextGen} /\ NextGen \notin DOMAIN gens
        BY <1>p, <1>t, <2>3, RotateOutDoes, Zenon
      <3>2. Generations' = Generations + 1
        BY <1>t, <3>1, FS_AddElement DEF Generations
      <3>3. pc'[p] \in {"prune", "swap"}
        BY <1>2, <1>p, <1>t, <2>3, RotateOutDoes DEF CheckDisk, RotateCurrent, At, Goto, LocalOK
      <3>4. Unpruned' = 1
        BY <1>2, <1>p, <3>3
      <3>5. Generations' \in Nat
        BY <1>n, <3>2
      <3> QED BY <1>goal, <2>1, <3>2, <3>4, <3>5
    <2> QED BY <1>2, <2>2, <2>3 DEF CheckDisk, RotateCurrent
<1>3. ASSUME NEW p \in Procs, PruneGenerations(p) \/ PruneAfterSwap(p) PROVE GenerationsBounded'
    <2>1. CASE Prune(p)
      BY <1>p, <1>small, <2>1
    <2>2. CASE ~Prune(p)
      <3>1. UNCHANGED gens /\ Unpruned = 0
        BY <1>3, <1>p, <2>2 DEF PruneGenerations, PruneAfterSwap, At
      <3> QED BY <1>n, <1>same, <3>1
    <2> QED BY <2>1, <2>2
<1>4. ASSUME NEW p \in Procs, RestoreGeneration(p) \/ UndoSwap(p) \/ SwapIn(p)
      PROVE  GenerationsBounded'
    <2>1. ASSUME NEW n \in DOMAIN gens, RenameBack(n) PROVE GenerationsBounded'
      <3>1. DOMAIN gens' = DOMAIN gens \ {n}
        BY <2>1, RenameBackDoes, Zenon
      <3>2. Generations' = Generations - 1 /\ Generations' \in Nat
        BY <1>t, <3>1, FS_RemoveElement, FS_CardinalityType DEF Generations
      <3> QED BY <1>goal, <3>2
    <2>2. CASE UNCHANGED gens
      <3>1. Unpruned = 0 \/ faults' = faults + 1 \/ \E n \in DOMAIN gens : RenameBack(n)
        BY <1>4, <1>p DEF RestoreGeneration, UndoSwap, SwapIn, At, Fault
      <3>2. Unpruned = 0 => Unpruned' >= Unpruned
        BY <1>n
      <3> QED BY <1>same, <2>1, <2>2, <3>1, <3>2
    <2> QED BY <1>4, <2>1, <2>2, Zenon DEF RestoreGeneration, UndoSwap, SwapIn
<1>5. ASSUME NEW p \in Procs,
             \/ BeginCopy(p) \/ EndCopy(p) \/ UnlinkDisk(p) \/ FinishBuild(p)
             \/ RestartService(p) \/ AwaitService(p) \/ StopService(p) \/ StartService(p)
             \/ Exit(p) \/ StartRollback(p) \/ \E pet \in BOOLEAN : StartUpdate(p, pet)
      PROVE  GenerationsBounded'
    <2>1. UNCHANGED gens /\ pc[p] \notin {"prune", "swap"}
      BY <1>5, Zenon DEF BeginCopy, EndCopy, UnlinkDisk, FinishBuild, RestartService, AwaitService,
         StopService, StartService, Exit, StartRollback, StartUpdate, CommandMayStart, At, files
    <2>2. Unpruned = 0
      BY <1>p, <2>1
    <2> QED BY <1>n, <1>same, <2>1, <2>2
<1>6. ASSUME NEW p \in Procs, Kill(p) PROVE GenerationsBounded'
    BY <1>6, <1>same DEF Kill, Fault, files
<1>7. CASE Reboot
    BY <1>7, <1>same DEF Reboot, Fault, files
<1>8. CASE BeginStart \/ EndBuild
    <2>1. UNCHANGED gens /\ \A p \in Procs : pc'[p] = pc[p]
      BY <1>8, <1>p, <1>t DEF BeginStart, EndBuild, Begin, Finish, Goto, LocalOK, files
    <2> QED BY <1>still, <2>1
<1>9. CASE \/ Launch \/ Relaunch \/ GuestExit \/ OperatorStart \/ OperatorStop
           \/ UNCHANGED vars
    <2>1. UNCHANGED <<gens, pc>>
      BY <1>9 DEF Launch, Relaunch, GuestExit, OperatorStart, OperatorStop, vars, state, files
    <2> QED BY <1>still, <2>1
<1> QED
    BY <1>1, <1>2, <1>3, <1>4, <1>5, <1>6, <1>7, <1>8, <1>9 DEF Next, Step, Systemd, Processes

-----------------------------------------------------------------------------
(* What the commands promise.                                                *)

DiskInv ==
    /\ TypeOK /\ GenInv /\ UnitInv /\ CommandInv /\ AloneInv /\ GuestInv
    /\ GenerationsBounded

(* The first state satisfies the inductive invariant. *)
LEMMA InitDisk == Init => DiskInv
<1> SUFFICES ASSUME Init PROVE DiskInv
    OBVIOUS
<1>g. DOMAIN gens = {}
    BY DEF Init
<1>p. \A p \in Processes : /\ pc[p] = "idle" /\ cmd[p] = "none" /\ rotated[p] = 0
                           /\ copying[p] = None /\ found[p] = None
    BY DEF Init
<1>b. BuildUnit \in Processes /\ Procs \subseteq Processes
    BY DEF Processes
<1>1. TypeOK
    BY <1>g, Zenon DEF Init, TypeOK, Disks, None, Services, Labels
<1>2. GenInv
    BY <1>g, <1>p, FS_EmptySet DEF Init, GenInv, None
<1>3. UnitInv
    BY <1>b, <1>p DEF Init, UnitInv
<1>4. CommandInv
    BY <1>b, <1>p DEF CommandInv, CommandOK
<1>5. AloneInv
    BY <1>b, <1>p DEF Init, AloneInv, AloneOK, Busy, Writing
<1>6. GuestInv
    BY <1>b, <1>p, Zenon DEF GuestInv
<1>7. GenerationsBounded
    <2>1. Cardinality(DOMAIN gens) = 0 /\ Keep \in Nat /\ faults = 0
      BY <1>g, FS_EmptySet, DiskAssumption DEF Init
    <2>2. Cardinality(Between(pc)) \in {0, 1}
      BY BetweenCount
    <2> HIDE DEF Between
    <2>3. Cardinality(DOMAIN gens) <= Keep + 1 + faults + Cardinality(Between(pc))
      BY ONLY <2>1, <2>2
    <2> QED BY <2>3 DEF GenerationsBounded, Between
<1> QED
    BY <1>1, <1>2, <1>3, <1>4, <1>5, <1>6, <1>7 DEF DiskInv

(* The inductive invariant holds in every reachable state. *)
LEMMA DiskInvariant == Spec => []DiskInv
<1>1. DiskInv /\ [Next]_vars => DiskInv'
    BY TypeNext, GenNext, UnitNext, CommandNext, AloneNext, GuestNext, BoundNext DEF DiskInv
<1> QED
    BY InitDisk, <1>1, PTL DEF Spec

(* No more than rollback_keep + 1 generations stay, whatever fails or is cut  *)
(* short, but for one per interruption and one that a command is about to     *)
(* prune; and the state is well typed.                                        *)
THEOREM GenerationsStayBounded == Spec => []DisksInOrder
<1>1. DiskInv => DisksInOrder
    BY DEF DiskInv, DisksInOrder
<1> QED
    BY DiskInvariant, <1>1, PTL

(* The disk that an update or rollback found is there until the next one,     *)
(* whatever fails, is killed or crashes, unless the build unit ran beside it. *)
THEOREM DiskIsKept == Spec => []DiskOfBeforeIsKept
<1>1. DiskInv => DiskOfBeforeIsKept
    BY DEF DiskInv, AloneInv, AloneOK, DiskOfBeforeIsKept
<1> QED
    BY DiskInvariant, <1>1, PTL

(* A rollback that swapped its target in leaves the disk of before as the     *)
(* newest generation: rolling back again rolls forward.                       *)
THEOREM RollbackReverses == Spec => []RollbackIsReversible
<1>1. DiskInv => RollbackIsReversible
    <2> SUFFICES ASSUME DiskInv, NEW p \in Procs, pc[p] = "start", rotated[p] # 0
                 PROVE  sys # found[p] /\ gens[Max(DOMAIN gens)] = found[p]
      BY DEF RollbackIsReversible, At
    <2>1. /\ rotated[p] \in DOMAIN gens /\ gens[rotated[p]] = found[p]
          /\ \A n \in DOMAIN gens : n <= rotated[p]
      BY DEF DiskInv, CommandInv, CommandOK, KnowsRotated
    <2>2. DOMAIN gens \in SUBSET Nat /\ IsFiniteSet(DOMAIN gens) /\ gens[rotated[p]] # sys
      BY <2>1 DEF DiskInv, TypeOK, GenInv
    <2>3. /\ Max(DOMAIN gens) \in DOMAIN gens
          /\ \A n \in DOMAIN gens : n <= Max(DOMAIN gens)
      BY <2>1, <2>2, MaxIsGreatest
    <2>4. Max(DOMAIN gens) = rotated[p]
      BY <2>1, <2>2, <2>3
    <2> QED BY <2>1, <2>2, <2>4
<1> QED
    BY DiskInvariant, <1>1, PTL

(* An update that reports success with the VM running has it on the disk that *)
(* is system.qcow2.                                                           *)
THEOREM GuestIsOnNewDisk == Spec => []GuestRunsNewDisk
<1>1. DiskInv => GuestRunsNewDisk
    BY DEF DiskInv, GuestInv, GuestRunsNewDisk, At
<1> QED
    BY DiskInvariant, <1>1, PTL

(* The except clauses put the disk of before back, the one of update in every *)
(* case, the one of rollback unless the build unit ran beside it.             *)
THEOREM FailureRestores == Spec => FailureIsUndone
<1>1. ASSUME DiskInv, [Next]_vars, NEW p \in Procs,
             pc[p] \in {"restore", "unswap"}, pc'[p] = "failed", rotated[p] # 0
      PROVE  sys' = found[p] \/ (pc[p] = "unswap" /\ overlapped)
    <2>1. /\ rotated[p] \in DOMAIN gens /\ gens[rotated[p]] = found[p]
          /\ pc[p] = "unswap" /\ ~overlapped => sys = None
      BY <1>1 DEF DiskInv, CommandInv, CommandOK, KnowsRotated, AloneInv, AloneOK
    <2>2. RestoreGeneration(p) \/ UndoSwap(p)
      <3>t. TypeOK /\ LocalOK /\ p \in Processes /\ p # BuildUnit /\ BuildUnit \in Processes
        BY <1>1, TypeParts, DiskAssumption DEF DiskInv, Processes
      <3>1. pc'[p] # pc[p]
        BY <1>1
      <3>2. ~(Step(BuildUnit) \/ Kill(BuildUnit))
        BY <3>t, <3>1, OthersKeepTheirs
      <3>3. ~(Kill(p) \/ StartRollback(p) \/ (\E pet \in BOOLEAN : StartUpdate(p, pet)))
        BY <1>1, <3>t DEF Kill, Finish, Goto, StartRollback, StartUpdate, CommandMayStart, At,
           LocalOK
      <3>4. ~(BeginStart \/ EndBuild \/ Reboot)
        BY <1>1, <3>t, <3>1 DEF BeginStart, EndBuild, Begin, Finish, Goto, Reboot, LocalOK
      <3>5. ~(Launch \/ Relaunch \/ GuestExit \/ OperatorStart \/ OperatorStop \/ UNCHANGED vars)
        BY <3>1 DEF Launch, Relaunch, GuestExit, OperatorStart, OperatorStop, vars, state
      <3>6. Step(p)
        BY <1>1, <3>2, <3>3, <3>4, <3>5, WhoMoves
      <3> QED BY <1>1, <3>6, Zenon DEF Step, CheckDisk, PruneGenerations, BeginCopy, EndCopy, UnlinkDisk,
              FinishBuild, RestartService, AwaitService, StopService, RotateCurrent, SwapIn,
              PruneAfterSwap, StartService, Exit, At
    <2> QED BY <1>1, <2>1, <2>2 DEF RestoreGeneration, UndoSwap, RenameBack, At
<1>2. DiskInv /\ [Next]_vars =>
        [\A p \in Procs :
            pc[p] \in {"restore", "unswap"} /\ pc'[p] = "failed" /\ rotated[p] # 0
                => sys' = found[p] \/ (pc[p] = "unswap" /\ overlapped)]_vars
    BY <1>1
<1> QED
    BY DiskInvariant, <1>2, PTL DEF Spec, FailureIsUndone
=============================================================================
