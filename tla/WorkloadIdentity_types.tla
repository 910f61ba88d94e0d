----------------------- MODULE WorkloadIdentity_types -----------------------
(***************************************************************************)
(* WorkloadIdentity is well typed, and each of its processes is at a label *)
(* of its command: for every value of the constants, and whatever commands *)
(* overlap.                                                                *)
(***************************************************************************)
EXTENDS WorkloadIdentity, TLAPS

(* The values the typing steps below assign. *)
LEMMA LabelFacts ==
    /\ \A x \in {"idle", "exit", "failed", "preflight", "hooks", "next", "lookup", "lock",
                "claim", "pin", "emit", "check", "sysusers", "ensure"} : x \in Labels
    /\ \A x \in {"home", "subid", "provision", "start", "stop", "unmark", "unconf", "subrm",
                "userdel", "rmtree", "scan", "sweepsub", "sweepuser", "sweepdir"} : x \in Labels
    BY DEF Labels

(* The commands a process may run. *)
LEMMA CommandFacts ==
    \A c \in {"none", "enable", "disable", "purge", "cleanup", "regen", "boot", "setup"} :
        c \in Commands
    BY DEF Commands

(* The uids of the range and the special ones are told apart. *)
LEMMA OwnerFacts ==
    /\ Absent \in Owner /\ SystemUid \in Owner /\ Uids \subseteq Owner
    /\ Absent \notin Uids /\ SystemUid \notin Uids /\ Root \notin Uids /\ Root # Absent
    BY UidRangeAssumption DEF Owner, Absent, SystemUid, Uids, Root

(* The initial states are well typed. *)
LEMMA TypeInit == Init => TypeOK
    BY NamesAssumption, OwnerFacts, LabelFacts, CommandFacts DEF Init, TypeOK, Configs

(* A process that works on a workload has one. *)
LEMMA Target ==
    ASSUME ProcessInv, NEW p \in Procs, pc[p] \in Labels,
           pc[p] \notin {"idle", "next", "scan", "sweepsub", "sweepdir", "exit", "failed"}
    PROVE  wl[p] \in Workloads
    BY DEF ProcessInv, ProcessOK, TargetLabels

-----------------------------------------------------------------------------
(* Types *)

(* Every action assigns values of the right type, given that the processes *)
(* that work on a workload have one.                                       *)
LEMMA TypeNext == TypeOK /\ ProcessInv /\ [Next]_vars => TypeOK'
<1> SUFFICES ASSUME TypeOK, ProcessInv, [Next]_vars PROVE TypeOK'
    OBVIOUS
<1>booted. booted \in Deployments
    BY DEF TypeOK
<1>config. config \in [Deployments -> [Workloads -> Configs]]
    BY DEF TypeOK
<1>marker. marker \in [Deployments -> SUBSET Workloads]
    BY DEF TypeOK
<1>passwd. passwd \in [Deployments -> [Workloads -> Owner]]
    BY DEF TypeOK
<1>subid. subid \in [Deployments -> [Workloads -> Uids \cup {Absent}]]
    BY DEF TypeOK
<1>tree. tree \in [Workloads -> Owner \cup {Root}]
    BY DEF TypeOK
<1>content. content \in [Workloads -> SUBSET Owner]
    BY DEF TypeOK
<1>prov. prov \in [Workloads -> Deployments \cup {NoDeployment}]
    BY DEF TypeOK
<1>conf. conf \in [Workloads -> Owner]
    BY DEF TypeOK
<1>startq. startq \subseteq Workloads
    BY DEF TypeOK
<1>running. running \subseteq Workloads
    BY DEF TypeOK
<1>lock. lock \in Procs \cup {NoProc}
    BY DEF TypeOK
<1>pc. pc \in [Procs -> Labels]
    BY DEF TypeOK
<1>cmd. cmd \in [Procs -> Commands]
    BY DEF TypeOK
<1>wl. wl \in [Procs -> Workloads \cup {NoWorkload}]
    BY DEF TypeOK
<1>uid. uid \in [Procs -> Owner]
    BY DEF TypeOK
<1>mine. mine \in [Procs -> SUBSET Uids]
    BY DEF TypeOK
<1>todo. todo \in [Procs -> SUBSET Workloads]
    BY DEF TypeOK
<1>dirs. dirs \in [Procs -> SUBSET Workloads]
    BY DEF TypeOK
<1>noted. noted \in [Procs -> SUBSET Workloads]
    BY DEF TypeOK
<1>commands. commands \in Nat
    BY DEF TypeOK
<1>boots. boots \in Nat
    BY DEF TypeOK
<1>faults. faults \in Nat
    BY DEF TypeOK
<1>stranded. stranded \subseteq Workloads
    BY DEF TypeOK
<1>subidLeft. subidLeft \subseteq Workloads
    BY DEF TypeOK
<1>split. split \subseteq Workloads
    BY DEF TypeOK
<1>1. ASSUME NEW p \in Procs, NextWorkload(p) PROVE TypeOK'
  <2>1. /\ pc' \in [Procs -> Labels]
        /\ cmd' \in [Procs -> Commands]
        /\ wl' \in [Procs -> Workloads \cup {NoWorkload}]
        /\ uid' \in [Procs -> Owner]
        /\ mine' \in [Procs -> SUBSET Uids]
        /\ todo' \in [Procs -> SUBSET Workloads]
        /\ dirs' \in [Procs -> SUBSET Workloads]
        /\ noted' \in [Procs -> SUBSET Workloads]
        /\ startq' \subseteq Workloads
      BY <1>1, <1>pc, <1>cmd, <1>wl, <1>todo, <1>uid, <1>mine, <1>dirs, <1>noted, <1>startq,
         LabelFacts, CommandFacts, NamesAssumption, OwnerFacts
         DEF NextWorkload, Goto, Finish, run
  <2> QED
      BY <1>1, <2>1 DEF TypeOK, NextWorkload, etc, var, run, count, hist, bound
<1>2. ASSUME NEW p \in Procs, Lookup(p) PROVE TypeOK'
  <2>w. wl[p] \in Workloads
      BY <1>2, <1>pc, Target DEF Lookup, At
  <2>1. /\ pc' \in [Procs -> Labels]
        /\ uid' \in [Procs -> Owner]
      BY <1>2, <2>w, <1>pc, <1>uid, <1>booted, <1>passwd, LabelFacts, OwnerFacts
         DEF Lookup, Goto, Generated
  <2> QED
      BY <1>2, <2>1 DEF TypeOK, Lookup, etc, var, run, count, hist, bound
<1>3. ASSUME NEW p \in Procs, AcquireLock(p) PROVE TypeOK'
  <2>1. /\ pc' \in [Procs -> Labels]
        /\ lock' \in Procs \cup {NoProc}
      BY <1>3, <1>pc, <1>lock, LabelFacts, NamesAssumption DEF AcquireLock, Goto
  <2> QED
      BY <1>3, <2>1 DEF TypeOK, AcquireLock, etc, var, run, local, count, hist, bound
<1>4. ASSUME NEW p \in Procs, ClaimUid(p) PROVE TypeOK'
  <2>w. wl[p] \in Workloads
      BY <1>4, <1>pc, Target DEF ClaimUid, At
  <2>1. /\ pc' \in [Procs -> Labels]
        /\ uid' \in [Procs -> Owner]
        /\ mine' \in [Procs -> SUBSET Uids]
        /\ lock' \in Procs \cup {NoProc}
        /\ stranded' \subseteq Workloads
      BY <1>4, <2>w, <1>pc, <1>uid, <1>mine, <1>lock, <1>stranded, LabelFacts, OwnerFacts,
         NamesAssumption
         DEF ClaimUid, Goto, Generated
  <2> QED
      BY <1>4, <2>1 DEF TypeOK, ClaimUid, etc, var, run, count, bound
<1>5. ASSUME NEW p \in Procs, PinUid(p) PROVE TypeOK'
  <2>w. wl[p] \in Workloads
      BY <1>5, <1>pc, Target DEF PinUid, At
  <2>1. /\ pc' \in [Procs -> Labels]
        /\ conf' \in [Workloads -> Owner]
        /\ lock' \in Procs \cup {NoProc}
        /\ faults' \in Nat
      BY <1>5, <2>w, <1>pc, <1>conf, <1>uid, <1>lock, <1>faults, LabelFacts, OwnerFacts,
         NamesAssumption
         DEF PinUid, Goto, Generated, Fault, NoFault, run
  <2> QED
      BY <1>5, <2>1 DEF TypeOK, PinUid, etc, var, local, bound, hist
<1>6. ASSUME NEW p \in Procs, EmitUnits(p) PROVE TypeOK'
  <2>w. wl[p] \in Workloads
      BY <1>6, <1>pc, Target DEF EmitUnits, At
  <2>1. /\ pc' \in [Procs -> Labels]
        /\ conf' \in [Workloads -> Owner]
        /\ noted' \in [Procs -> SUBSET Workloads]
        /\ faults' \in Nat
      BY <1>6, <2>w, <1>pc, <1>conf, <1>uid, <1>noted, <1>faults, LabelFacts, OwnerFacts
         DEF EmitUnits, Goto, Generated, Fault, NoFault, run
  <2> QED
      BY <1>6, <2>1 DEF TypeOK, EmitUnits, etc, var, bound, hist
<1>7. ASSUME NEW p \in Procs, Preflight(p) PROVE TypeOK'
  <2>w. wl[p] \in Workloads
      BY <1>7, <1>pc, Target DEF Preflight, At
  <2>1. /\ pc' \in [Procs -> Labels]
        /\ tree' \in [Workloads -> Owner \cup {Root}]
        /\ marker' \in [Deployments -> SUBSET Workloads]
        /\ faults' \in Nat
      BY <1>7, <2>w, <1>pc, <1>tree, <1>marker, <1>booted, <1>faults, LabelFacts, OwnerFacts
         DEF Preflight, Goto, Unmark, Fault, NoFault
  <2> QED
      BY <1>7, <2>1 DEF TypeOK, Preflight, run, local, bound, hist
<1>8. ASSUME NEW p \in Procs, Hooks(p) PROVE TypeOK'
  <2>1. /\ pc' \in [Procs -> Labels]
        /\ faults' \in Nat
      BY <1>8, <1>pc, <1>faults, LabelFacts DEF Hooks, Goto, Fault, NoFault
  <2> QED
      BY <1>8, <2>1 DEF TypeOK, Hooks, etc, var, run, local, bound, hist
<1>9. ASSUME NEW p \in Procs, CheckUnits(p) PROVE TypeOK'
  <2>w. wl[p] \in Workloads
      BY <1>9, <1>pc, Target DEF CheckUnits, At
  <2>1. /\ pc' \in [Procs -> Labels]
        /\ marker' \in [Deployments -> SUBSET Workloads]
        /\ faults' \in Nat
      BY <1>9, <2>w, <1>pc, <1>marker, <1>booted, <1>faults, LabelFacts
         DEF CheckUnits, Goto, Unmark, Fault, NoFault
  <2> QED
      BY <1>9, <2>1 DEF TypeOK, CheckUnits, var, run, local, bound, hist
<1>10. ASSUME NEW p \in Procs, Sysusers(p) PROVE TypeOK'
  <2>w. wl[p] \in Workloads
      BY <1>10, <1>pc, Target DEF Sysusers, At
  <2>1. /\ pc' \in [Procs -> Labels]
        /\ passwd' \in [Deployments -> [Workloads -> Owner]]
        /\ split' \subseteq Workloads
      BY <1>10, <2>w, <1>pc, <1>passwd, <1>booted, <1>conf, <1>split, LabelFacts, OwnerFacts
         DEF Sysusers, Goto
  <2> QED
      BY <1>10, <2>1 DEF TypeOK, Sysusers, var, run, local, count, bound
<1>11. ASSUME NEW p \in Procs, EnsureUser(p) PROVE TypeOK'
  <2>w. wl[p] \in Workloads
      BY <1>11, <1>pc, Target DEF EnsureUser, At
  <2>1. /\ pc' \in [Procs -> Labels]
        /\ uid' \in [Procs -> Owner]
      BY <1>11, <2>w, <1>pc, <1>uid, <1>booted, <1>passwd, LabelFacts, OwnerFacts
         DEF EnsureUser, Goto
  <2> QED
      BY <1>11, <2>1 DEF TypeOK, EnsureUser, etc, var, run, count, hist, bound
<1>12. ASSUME NEW p \in Procs, SetupHome(p) PROVE TypeOK'
  <2>w. wl[p] \in Workloads
      BY <1>12, <1>pc, Target DEF SetupHome, At
  <2>1. /\ pc' \in [Procs -> Labels]
        /\ tree' \in [Workloads -> Owner \cup {Root}]
        /\ prov' \in [Workloads -> Deployments \cup {NoDeployment}]
        /\ faults' \in Nat
      BY <1>12, <2>w, <1>pc, <1>tree, <1>uid, <1>prov, <1>booted, <1>faults, LabelFacts,
         OwnerFacts, NamesAssumption
         DEF SetupHome, Goto, Fault, NoFault
  <2> QED
      BY <1>12, <2>1 DEF TypeOK, SetupHome, etc, run, local, bound, hist
<1>13. ASSUME NEW p \in Procs, ConfigureSubid(p) PROVE TypeOK'
  <2>w. wl[p] \in Workloads
      BY <1>13, <1>pc, Target DEF ConfigureSubid, At
  <2>1. /\ pc' \in [Procs -> Labels]
        /\ subid' \in [Deployments -> [Workloads -> Uids \cup {Absent}]]
      BY <1>13, <2>w, <1>pc, <1>subid, <1>booted, <1>uid, LabelFacts, OwnerFacts
         DEF ConfigureSubid, Goto
  <2> QED
      BY <1>13, <2>1 DEF TypeOK, ConfigureSubid, var, run, local, count, hist, bound
<1>14. ASSUME NEW p \in Procs, Provision(p) PROVE TypeOK'
  <2>1. /\ pc' \in [Procs -> Labels]
        /\ faults' \in Nat
      BY <1>14, <1>pc, <1>faults, LabelFacts DEF Provision, Goto, Fault, NoFault
  <2> QED
      BY <1>14, <2>1 DEF TypeOK, Provision, etc, var, run, local, bound, hist
<1>15. ASSUME NEW p \in Procs, StartService(p) PROVE TypeOK'
  <2>w. wl[p] \in Workloads
      BY <1>15, <1>pc, Target DEF StartService, At
  <2>1. /\ pc' \in [Procs -> Labels]
        /\ startq' \subseteq Workloads
        /\ running' \subseteq Workloads
        /\ faults' \in Nat
    <3>1. Goto(p, "failed") \/ Goto(p, "exit")
        BY <1>15, Zenon DEF StartService
    <3>2. pc' \in [Procs -> Labels]
        BY <3>1, <1>pc, LabelFacts DEF Goto
    <3>3. startq' \in {startq, startq \cup {wl[p]}} /\ running' \in {running, running \ {wl[p]}, running \cup {wl[p]}}
        BY <1>15, Zenon DEF StartService, run
    <3>4. Fault \/ faults' = faults
        BY <1>15, Zenon DEF StartService
    <3>5. faults' \in Nat
        BY <3>4, <1>faults DEF Fault
    <3> QED
        BY <3>2, <3>3, <3>5, <2>w, <1>startq, <1>running
  <2> QED
      BY <1>15, <2>1 DEF TypeOK, StartService, etc, var, run, local, bound, hist
<1>16. ASSUME NEW p \in Procs, StopUnits(p) PROVE TypeOK'
  <2>1. /\ pc' \in [Procs -> Labels]
        /\ startq' \subseteq Workloads
        /\ running' \subseteq Workloads
      BY <1>16, <1>pc, <1>startq, <1>running, LabelFacts DEF StopUnits, run
  <2> QED
      BY <1>16, <2>1 DEF TypeOK, StopUnits, etc, var, local, count, hist, bound
<1>17. ASSUME NEW p \in Procs, RemoveMarker(p) PROVE TypeOK'
  <2>w. wl[p] \in Workloads
      BY <1>17, <1>pc, Target DEF RemoveMarker, At
  <2>1. /\ pc' \in [Procs -> Labels]
        /\ marker' \in [Deployments -> SUBSET Workloads]
        /\ faults' \in Nat
      BY <1>17, <2>w, <1>pc, <1>marker, <1>booted, <1>faults, LabelFacts
         DEF RemoveMarker, Goto, Unmark, Fault, NoFault
  <2> QED
      BY <1>17, <2>1 DEF TypeOK, RemoveMarker, var, run, local, bound, hist
<1>18. ASSUME NEW p \in Procs, RemoveRunFiles(p) PROVE TypeOK'
  <2>w. wl[p] \in Workloads
      BY <1>18, <1>pc, Target DEF RemoveRunFiles, At
  <2>1. /\ pc' \in [Procs -> Labels]
        /\ conf' \in [Workloads -> Owner]
        /\ faults' \in Nat
    <3>1. \E l \in Labels : pc' = [pc EXCEPT ![p] = l]
        BY <1>18, LabelFacts, Zenon DEF RemoveRunFiles, Goto
    <3>2. conf' = conf \/ conf' = [conf EXCEPT ![wl[p]] = Absent]
        BY <1>18 DEF RemoveRunFiles
    <3>3. faults' = faults \/ faults' = faults + 1
        BY <1>18 DEF RemoveRunFiles, Fault, NoFault
    <3> QED
        BY <3>1, <3>2, <3>3, <2>w, <1>pc, <1>conf, <1>faults, OwnerFacts
  <2> QED
      BY <1>18, <2>1 DEF TypeOK, RemoveRunFiles, etc, var, local, bound, hist
<1>19. ASSUME NEW p \in Procs, RemoveSubid(p) PROVE TypeOK'
  <2>w. wl[p] \in Workloads
      BY <1>19, <1>pc, Target, Zenon DEF RemoveSubid, At
  <2>1. /\ pc' \in [Procs -> Labels]
        /\ subid' \in [Deployments -> [Workloads -> Uids \cup {Absent}]]
        /\ subidLeft' \subseteq Workloads
        /\ faults' \in Nat
      BY <1>19, <2>w, <1>pc, <1>subid, <1>booted, <1>subidLeft, <1>faults, LabelFacts,
         OwnerFacts
         DEF RemoveSubid, RemoveEntries, Goto, Fault
  <2> QED
      BY <1>19, <2>1 DEF TypeOK, RemoveSubid, var, run, local, bound
<1>20. ASSUME NEW p \in Procs, DeleteUser(p) PROVE TypeOK'
  <2>w. wl[p] \in Workloads
      BY <1>20, <1>pc, Target DEF DeleteUser, At
  <2>1. /\ pc' \in [Procs -> Labels]
        /\ passwd' \in [Deployments -> [Workloads -> Owner]]
        /\ faults' \in Nat
      BY <1>20, <2>w, <1>pc, <1>passwd, <1>booted, <1>faults, LabelFacts, OwnerFacts
         DEF DeleteUser, Goto, Fault, NoFault
  <2> QED
      BY <1>20, <2>1 DEF TypeOK, DeleteUser, var, run, local, bound, hist
<1>21. ASSUME NEW p \in Procs, RemoveTree(p) PROVE TypeOK'
  <2>w. wl[p] \in Workloads
      BY <1>21, <1>pc, Target DEF RemoveTree, At
  <2>1. /\ pc' \in [Procs -> Labels]
        /\ tree' \in [Workloads -> Owner \cup {Root}]
        /\ content' \in [Workloads -> SUBSET Owner]
        /\ prov' \in [Workloads -> Deployments \cup {NoDeployment}]
        /\ stranded' \subseteq Workloads
        /\ faults' \in Nat
      BY <1>21, <2>w, <1>pc, <1>tree, <1>content, <1>prov, <1>stranded, <1>faults,
         LabelFacts, OwnerFacts, NamesAssumption
         DEF RemoveTree, RmTree, Goto, Fault, NoFault
  <2> QED
      BY <1>21, <2>1 DEF TypeOK, RemoveTree, etc, run, local, bound
<1>22. ASSUME NEW p \in Procs, Scan(p) PROVE TypeOK'
  <2>1. /\ pc' \in [Procs -> Labels]
        /\ todo' \in [Procs -> SUBSET Workloads]
        /\ dirs' \in [Procs -> SUBSET Workloads]
      BY <1>22, <1>pc, <1>todo, <1>dirs, LabelFacts, Zenon DEF Scan, Goto
  <2> QED
      BY <1>22, <2>1 DEF TypeOK, Scan, etc, var, run, count, hist, bound
<1>23. ASSUME NEW p \in Procs, SweepSubid(p) PROVE TypeOK'
  <2>1. pc' \in [Procs -> Labels]
      BY <1>23, <1>pc, LabelFacts DEF SweepSubid, RemoveEntries, Goto
  <2>2. wl' \in [Procs -> Workloads \cup {NoWorkload}]
      BY <1>23, <1>wl, <1>todo, NamesAssumption DEF SweepSubid, RemoveEntries, Goto
  <2>3. todo' \in [Procs -> SUBSET Workloads]
      BY <1>23, <1>todo DEF SweepSubid, RemoveEntries, Goto
  <2>4. subid' \in [Deployments -> [Workloads -> Uids \cup {Absent}]]
      BY <1>23, <1>subid, <1>booted, <1>todo, OwnerFacts DEF SweepSubid, RemoveEntries, Goto
  <2> QED
      BY <1>23, <2>1, <2>2, <2>3, <2>4 DEF TypeOK, SweepSubid, var, run, count, hist, bound
<1>24. ASSUME NEW p \in Procs, SweepUser(p) PROVE TypeOK'
  <2>w. wl[p] \in Workloads
      BY <1>24, <1>pc, Target DEF SweepUser, At
  <2>1. /\ pc' \in [Procs -> Labels]
        /\ passwd' \in [Deployments -> [Workloads -> Owner]]
        /\ running' \subseteq Workloads
        /\ content' \in [Workloads -> SUBSET Owner]
        /\ faults' \in Nat
      BY <1>24, <2>w, <1>pc, <1>passwd, <1>booted, <1>running, <1>content, <1>faults,
         LabelFacts, OwnerFacts
         DEF SweepUser, Goto, Fault, NoFault, run
  <2> QED
      BY <1>24, <2>1 DEF TypeOK, SweepUser, local, bound, hist
<1>25. ASSUME NEW p \in Procs, SweepDir(p) PROVE TypeOK'
  <2>1. /\ pc' \in [Procs -> Labels]
        /\ dirs' \in [Procs -> SUBSET Workloads]
        /\ tree' \in [Workloads -> Owner \cup {Root}]
        /\ content' \in [Workloads -> SUBSET Owner]
        /\ prov' \in [Workloads -> Deployments \cup {NoDeployment}]
        /\ stranded' \subseteq Workloads
        /\ faults' \in Nat
      BY <1>25, <1>pc, <1>dirs, <1>tree, <1>content, <1>prov, <1>stranded, <1>faults,
         LabelFacts, OwnerFacts, NamesAssumption
         DEF SweepDir, RmTree, Goto, Fault, NoFault
  <2> QED
      BY <1>25, <2>1 DEF TypeOK, SweepDir, etc, run, bound
<1>26. ASSUME NEW p \in Procs, Exit(p) PROVE TypeOK'
  <2>1. /\ pc' \in [Procs -> Labels]
        /\ cmd' \in [Procs -> Commands]
        /\ wl' \in [Procs -> Workloads \cup {NoWorkload}]
        /\ uid' \in [Procs -> Owner]
        /\ mine' \in [Procs -> SUBSET Uids]
        /\ todo' \in [Procs -> SUBSET Workloads]
        /\ dirs' \in [Procs -> SUBSET Workloads]
        /\ noted' \in [Procs -> SUBSET Workloads]
      BY <1>26, <1>pc, <1>cmd, <1>wl, <1>uid, <1>mine, <1>todo, <1>dirs, <1>noted,
         LabelFacts, CommandFacts, NamesAssumption, OwnerFacts
         DEF Exit, Finish, Goto
  <2> QED
      BY <1>26, <2>1 DEF TypeOK, Exit, etc, var, run, count, hist, bound
<1>27. ASSUME NEW p \in Procs, NEW w \in Workloads, StartEnable(p, w) PROVE TypeOK'
  <2>1. /\ pc' \in [Procs -> Labels]
        /\ cmd' \in [Procs -> Commands]
        /\ wl' \in [Procs -> Workloads \cup {NoWorkload}]
        /\ marker' \in [Deployments -> SUBSET Workloads]
        /\ commands' \in Nat
      BY SMTT(60), <1>27, <1>pc, <1>cmd, <1>wl, <1>marker, <1>booted, <1>commands, LabelFacts,
         CommandFacts, NamesAssumption
         DEF StartEnable, Begin, Goto, CountCommand
  <2> QED
      BY <1>27, <2>1 DEF TypeOK, StartEnable, CountCommand, var, run, hist
<1>28. ASSUME NEW p \in Procs, NEW w \in Workloads, StartRegen(p, w) PROVE TypeOK'
  <2>1. pc' \in [Procs -> Labels]
      BY <1>28, <1>pc, LabelFacts DEF StartRegen, Begin, Goto, CountCommand
  <2>2. cmd' \in [Procs -> Commands]
      BY <1>28, <1>cmd, CommandFacts DEF StartRegen, Begin, Goto, CountCommand
  <2>3. wl' \in [Procs -> Workloads \cup {NoWorkload}]
      BY <1>28, <1>wl, NamesAssumption DEF StartRegen, Begin, Goto, CountCommand
  <2>4. commands' \in Nat
      BY <1>28, <1>commands DEF StartRegen, Begin, Goto, CountCommand
  <2> QED
      BY <1>28, <2>1, <2>2, <2>3, <2>4
         DEF TypeOK, StartRegen, CountCommand, etc, var, run, hist
<1>29. ASSUME NEW p \in Procs, NEW w \in Workloads, StartSetup(p, w) PROVE TypeOK'
  <2>1. /\ pc' \in [Procs -> Labels]
        /\ cmd' \in [Procs -> Commands]
        /\ wl' \in [Procs -> Workloads \cup {NoWorkload}]
        /\ startq' \subseteq Workloads
      BY <1>29, <1>pc, <1>cmd, <1>wl, <1>startq, LabelFacts, CommandFacts, NamesAssumption
         DEF StartSetup, Begin, Goto, run
  <2> QED
      BY <1>29, <2>1 DEF TypeOK, StartSetup, etc, var, count, hist, bound
<1>30. ASSUME NEW p \in Procs, NEW w \in Workloads, NEW c \in {"disable", "purge"}, StartDisable(p, w, c)
       PROVE  TypeOK'
  <2>1. /\ pc' \in [Procs -> Labels]
        /\ cmd' \in [Procs -> Commands]
        /\ wl' \in [Procs -> Workloads \cup {NoWorkload}]
        /\ commands' \in Nat
      BY <1>30, <1>pc, <1>cmd, <1>wl, <1>commands, LabelFacts, CommandFacts, NamesAssumption
         DEF StartDisable, Begin, Goto, CountCommand
  <2> QED
      BY <1>30, <2>1 DEF TypeOK, StartDisable, CountCommand, etc, var, run, hist
<1>31. ASSUME NEW p \in Procs, StartCleanup(p) PROVE TypeOK'
  <2>1. /\ pc' \in [Procs -> Labels]
        /\ cmd' \in [Procs -> Commands]
        /\ wl' \in [Procs -> Workloads \cup {NoWorkload}]
        /\ noted' \in [Procs -> SUBSET Workloads]
        /\ commands' \in Nat
      BY <1>31, <1>pc, <1>cmd, <1>wl, <1>noted, <1>commands, LabelFacts, CommandFacts,
         NamesAssumption
         DEF StartCleanup, Begin, Goto, CountCommand
  <2> QED
      BY <1>31, <2>1 DEF TypeOK, StartCleanup, CountCommand, etc, var, run, hist
<1>32. ASSUME NEW p \in Procs, Kill(p) PROVE TypeOK'
  <2>1. /\ pc' \in [Procs -> Labels]
        /\ lock' \in Procs \cup {NoProc}
        /\ faults' \in Nat
        /\ cmd' \in [Procs -> Commands]
        /\ wl' \in [Procs -> Workloads \cup {NoWorkload}]
        /\ uid' \in [Procs -> Owner]
        /\ mine' \in [Procs -> SUBSET Uids]
        /\ todo' \in [Procs -> SUBSET Workloads]
        /\ dirs' \in [Procs -> SUBSET Workloads]
        /\ noted' \in [Procs -> SUBSET Workloads]
      BY SMTT(60), <1>32, <1>pc, <1>lock, <1>faults, <1>cmd, <1>wl, <1>uid, <1>mine, <1>todo, <1>dirs,
         <1>noted, LabelFacts, NamesAssumption, CommandFacts, OwnerFacts
         DEF Kill, Finish, Goto, Fault
  <2> QED
      BY <1>32, <2>1 DEF TypeOK, Kill, etc, var, run, bound, hist
<1>33. ASSUME NEW w \in Workloads, CreateConfig(w) PROVE TypeOK'
  <2>1. /\ config' \in [Deployments -> [Workloads -> Configs]]
        /\ commands' \in Nat
      BY <1>33, <1>config, <1>booted, <1>commands DEF CreateConfig, CountCommand, Configs
  <2> QED
      BY <1>33, <2>1, Zenon DEF TypeOK, CreateConfig, CountCommand, var, run, local, hist
<1>34. ASSUME NEW w \in Workloads, RemoveConfig(w) PROVE TypeOK'
  <2>1. /\ config' \in [Deployments -> [Workloads -> Configs]]
        /\ marker' \in [Deployments -> SUBSET Workloads]
        /\ commands' \in Nat
      BY <1>34, <1>config, <1>booted, <1>marker, <1>commands
         DEF RemoveConfig, CountCommand, Unmark, Configs
  <2> QED
      BY <1>34, <2>1, Zenon DEF TypeOK, RemoveConfig, CountCommand, var, run, local, hist
<1>35. ASSUME NEW w \in Workloads, BreakConfig(w) PROVE TypeOK'
  <2>1. /\ config' \in [Deployments -> [Workloads -> Configs]]
        /\ commands' \in Nat
      BY <1>35, <1>config, <1>booted, <1>commands DEF BreakConfig, CountCommand, Configs
  <2> QED
      BY <1>35, <2>1, Zenon DEF TypeOK, BreakConfig, CountCommand, var, run, local, hist
<1>36. ASSUME NEW w \in Workloads, Work(w) PROVE TypeOK'
  <2>1. content' \in [Workloads -> SUBSET Owner]
      BY <1>36, <1>content, <1>booted, <1>passwd, <1>subid, OwnerFacts DEF Work, Mapping
  <2> QED
      BY <1>36, <2>1 DEF TypeOK, Work, etc, run, local, count, hist, bound
<1>37. ASSUME NEW d \in Deployments, Prune(d) PROVE TypeOK'
  <2> QED
      BY <1>37 DEF TypeOK, Prune, etc, var, run, local, hist
<1>38. ASSUME NEW p \in Procs, NEW d \in Deployments, Boot(p, d) PROVE TypeOK'
  <2>1. config' \in [Deployments -> [Workloads -> Configs]]
      BY <1>38, <1>config, <1>booted DEF Boot, etc, Configs
  <2>2. marker' \in [Deployments -> SUBSET Workloads]
      BY <1>38, <1>marker, <1>booted DEF Boot, etc
  <2>3. passwd' \in [Deployments -> [Workloads -> Owner]]
      BY <1>38, <1>passwd, <1>booted, OwnerFacts DEF Boot, etc
  <2>4. subid' \in [Deployments -> [Workloads -> Uids \cup {Absent}]]
      BY <1>38, <1>subid, <1>booted, OwnerFacts DEF Boot, etc
  <2>5. conf' \in [Workloads -> Owner]
      BY <1>38, <1>conf, OwnerFacts DEF Boot, run
  <2>6. startq' \subseteq Workloads
      BY <1>38, <1>startq DEF Boot, run
  <2>7. running' \subseteq Workloads
      BY <1>38, <1>running DEF Boot, run
  <2>8. lock' \in Procs \cup {NoProc}
      BY <1>38, <1>lock, NamesAssumption DEF Boot
  <2>9. pc' \in [Procs -> Labels]
      BY <1>38, <1>pc, LabelFacts DEF Boot
  <2>10. boots' \in Nat
      BY <1>38, <1>boots DEF Boot
  <2>11. cmd' \in [Procs -> Commands]
      BY <1>38, <1>cmd, CommandFacts DEF Boot
  <2>12. wl' \in [Procs -> Workloads \cup {NoWorkload}]
      BY <1>38, <1>wl, NamesAssumption DEF Boot
  <2>13. uid' \in [Procs -> Owner]
      BY <1>38, <1>uid, OwnerFacts DEF Boot
  <2>14. mine' \in [Procs -> SUBSET Uids]
      BY <1>38, <1>mine DEF Boot
  <2>15. todo' \in [Procs -> SUBSET Workloads]
      BY <1>38, <1>todo DEF Boot
  <2>16. dirs' \in [Procs -> SUBSET Workloads]
      BY <1>38, <1>dirs DEF Boot
  <2>17. noted' \in [Procs -> SUBSET Workloads]
      BY <1>38, <1>noted DEF Boot
  <2> QED
      BY <1>38, <2>1, <2>2, <2>3, <2>4, <2>5, <2>6, <2>7, <2>8, <2>9, <2>10, <2>11, <2>12,
         <2>13, <2>14, <2>15, <2>16, <2>17, Zenon
         DEF TypeOK, Boot, etc, var, hist
<1>39. CASE UNCHANGED vars
    BY <1>39 DEF TypeOK, vars, etc, var, run, local, bound, count, hist
<1> QED
    BY <1>1, <1>2, <1>3, <1>4, <1>5, <1>6, <1>7, <1>8, <1>9, <1>10, <1>11, <1>12, <1>13,
       <1>14, <1>15, <1>16, <1>17, <1>18, <1>19, <1>20, <1>21, <1>22, <1>23, <1>24, <1>25,
       <1>26, <1>27, <1>28, <1>29, <1>30, <1>31, <1>32, <1>33, <1>34, <1>35, <1>36, <1>37,
       <1>38, <1>39
       DEF Next, Step, Start

(* A step of one process keeps ProcessInv if it leaves the others alone. *)
LEMMA Move ==
    ASSUME ProcessInv, NEW p \in Procs, ProcessOK(p)',
           \A q \in Procs \ {p} : /\ pc'[q] = pc[q] /\ cmd'[q] = cmd[q] /\ wl'[q] = wl[q]
                                  /\ lock' = q <=> lock = q
    PROVE  ProcessInv'
    BY Zenon DEF ProcessInv, ProcessOK

(* Each process is at a label of its command, with a workload where the label *)
(* needs one, and SUBID_LOCK is held exactly at the labels inside resolve_uid. *)
LEMMA ProcessNext == TypeOK /\ ProcessInv /\ [Next]_vars => ProcessInv'
<1> SUFFICES ASSUME TypeOK, ProcessInv, [Next]_vars PROVE ProcessInv'
    OBVIOUS
<1>pc. pc \in [Procs -> Labels]
    BY DEF TypeOK
<1>cmd. cmd \in [Procs -> Commands]
    BY DEF TypeOK
<1>wl. wl \in [Procs -> Workloads \cup {NoWorkload}]
    BY DEF TypeOK
<1>todo. todo \in [Procs -> SUBSET Workloads]
    BY DEF TypeOK
<1>1. ASSUME NEW p \in Procs, NextWorkload(p) PROVE ProcessInv'
  <2>1. ProcessOK(p)
      BY DEF ProcessInv
  <2>2. ProcessOK(p)'
      BY <1>1, <2>1, <1>pc, <1>cmd, <1>wl, <1>todo, NamesAssumption
         DEF ProcessOK, At, NextWorkload, Goto, Finish, LabelsOf, GeneratorLabels,
             ProvisionLabels, TargetLabels, LockedLabels, Labels, Commands
  <2> QED
      BY <1>1, <2>2, Move, <1>pc, <1>cmd, <1>wl, NamesAssumption
         DEF NextWorkload, Goto, Finish
<1>2. ASSUME NEW p \in Procs, Lookup(p) PROVE ProcessInv'
  <2>1. ProcessOK(p)
      BY DEF ProcessInv
  <2>2. ProcessOK(p)'
      BY <1>2, <2>1, <1>pc, <1>cmd, <1>wl, NamesAssumption
         DEF ProcessOK, At, Lookup, Goto, Generated, LabelsOf, GeneratorLabels,
             ProvisionLabels, TargetLabels, LockedLabels, Labels, Commands
  <2> QED
      BY <1>2, <2>2, Move, <1>pc, <1>cmd, <1>wl, NamesAssumption DEF Lookup, Goto, Generated
<1>3. ASSUME NEW p \in Procs, AcquireLock(p) PROVE ProcessInv'
  <2>1. ProcessOK(p)
      BY DEF ProcessInv
  <2>2. ProcessOK(p)'
      BY <1>3, <2>1, <1>pc, <1>cmd, <1>wl, NamesAssumption
         DEF ProcessOK, At, AcquireLock, Goto, local, LabelsOf, GeneratorLabels,
             ProvisionLabels, TargetLabels, LockedLabels, Labels, Commands
  <2> QED
      BY <1>3, <2>2, Move, <1>pc, <1>cmd, <1>wl, NamesAssumption
         DEF AcquireLock, Goto, local
<1>4. ASSUME NEW p \in Procs, ClaimUid(p) PROVE ProcessInv'
  <2>1. ProcessOK(p)
      BY DEF ProcessInv
  <2>2. ProcessOK(p)'
      BY <1>4, <2>1, <1>pc, <1>cmd, <1>wl, NamesAssumption
         DEF ProcessOK, At, ClaimUid, Goto, Generated, LabelsOf, GeneratorLabels,
             ProvisionLabels, TargetLabels, LockedLabels, Labels, Commands
  <2>3. lock = p
      BY <1>4, <2>1, Zenon DEF ProcessOK, LockedLabels, ClaimUid, At
  <2> QED
      BY <1>4, <2>2, <2>3, Move, <1>pc, <1>cmd, <1>wl, NamesAssumption
         DEF ClaimUid, Goto, Generated
<1>5. ASSUME NEW p \in Procs, PinUid(p) PROVE ProcessInv'
  <2>1. ProcessOK(p)
      BY DEF ProcessInv
  <2>2. ProcessOK(p)'
      BY <1>5, <2>1, <1>pc, <1>cmd, <1>wl, NamesAssumption
         DEF ProcessOK, At, PinUid, Goto, Generated, Fault, NoFault, local, LabelsOf,
             GeneratorLabels, ProvisionLabels, TargetLabels, LockedLabels, Labels, Commands
  <2>3. lock = p
      BY <1>5, <2>1, Zenon DEF ProcessOK, LockedLabels, PinUid, At
  <2> QED
      BY <1>5, <2>2, <2>3, Move, <1>pc, <1>cmd, <1>wl, NamesAssumption
         DEF PinUid, Goto, Generated, Fault, NoFault, local
<1>6. ASSUME NEW p \in Procs, EmitUnits(p) PROVE ProcessInv'
  <2>1. ProcessOK(p)
      BY DEF ProcessInv
  <2>2. ProcessOK(p)'
      BY <1>6, <2>1, <1>pc, <1>cmd, <1>wl, NamesAssumption
         DEF ProcessOK, At, EmitUnits, Goto, Generated, Fault, NoFault, LabelsOf,
             GeneratorLabels, ProvisionLabels, TargetLabels, LockedLabels, Labels, Commands
  <2> QED
      BY <1>6, <2>2, Move, <1>pc, <1>cmd, <1>wl, NamesAssumption
         DEF EmitUnits, Goto, Generated, Fault, NoFault
<1>7. ASSUME NEW p \in Procs, Preflight(p) PROVE ProcessInv'
  <2>1. ProcessOK(p)
      BY DEF ProcessInv
  <2>2. ProcessOK(p)'
      BY <1>7, <2>1, <1>pc, <1>cmd, <1>wl, NamesAssumption
         DEF ProcessOK, At, Preflight, Goto, Unmark, Fault, NoFault, local, LabelsOf,
             GeneratorLabels, ProvisionLabels, TargetLabels, LockedLabels, Labels, Commands
  <2> QED
      BY <1>7, <2>2, Move, <1>pc, <1>cmd, <1>wl, NamesAssumption
         DEF Preflight, Goto, Unmark, Fault, NoFault, local
<1>8. ASSUME NEW p \in Procs, Hooks(p) PROVE ProcessInv'
  <2>1. ProcessOK(p)
      BY DEF ProcessInv
  <2>2. ProcessOK(p)'
      BY <1>8, <2>1, <1>pc, <1>cmd, <1>wl, NamesAssumption
         DEF ProcessOK, At, Hooks, Goto, Fault, NoFault, local, LabelsOf, GeneratorLabels,
             ProvisionLabels, TargetLabels, LockedLabels, Labels, Commands
  <2> QED
      BY <1>8, <2>2, Move, <1>pc, <1>cmd, <1>wl, NamesAssumption
         DEF Hooks, Goto, Fault, NoFault, local
<1>9. ASSUME NEW p \in Procs, CheckUnits(p) PROVE ProcessInv'
  <2>1. ProcessOK(p)
      BY DEF ProcessInv
  <2>2. ProcessOK(p)'
      BY <1>9, <2>1, <1>pc, <1>cmd, <1>wl, NamesAssumption
         DEF ProcessOK, At, CheckUnits, Goto, Unmark, Fault, NoFault, local, LabelsOf,
             GeneratorLabels, ProvisionLabels, TargetLabels, LockedLabels, Labels, Commands
  <2> QED
      BY <1>9, <2>2, Move, <1>pc, <1>cmd, <1>wl, NamesAssumption
         DEF CheckUnits, Goto, Unmark, Fault, NoFault, local
<1>10. ASSUME NEW p \in Procs, Sysusers(p) PROVE ProcessInv'
  <2>1. ProcessOK(p)
      BY DEF ProcessInv
  <2>2. ProcessOK(p)'
      BY <1>10, <2>1, <1>pc, <1>cmd, <1>wl, NamesAssumption
         DEF ProcessOK, At, Sysusers, Goto, local, LabelsOf, GeneratorLabels,
             ProvisionLabels, TargetLabels, LockedLabels, Labels, Commands
  <2> QED
      BY <1>10, <2>2, Move, <1>pc, <1>cmd, <1>wl, NamesAssumption DEF Sysusers, Goto, local
<1>11. ASSUME NEW p \in Procs, EnsureUser(p) PROVE ProcessInv'
  <2>1. ProcessOK(p)
      BY DEF ProcessInv
  <2>2. ProcessOK(p)'
      BY <1>11, <2>1, <1>pc, <1>cmd, <1>wl, NamesAssumption
         DEF ProcessOK, At, EnsureUser, Goto, LabelsOf, GeneratorLabels, ProvisionLabels,
             TargetLabels, LockedLabels, Labels, Commands
  <2> QED
      BY <1>11, <2>2, Move, <1>pc, <1>cmd, <1>wl, NamesAssumption DEF EnsureUser, Goto
<1>12. ASSUME NEW p \in Procs, SetupHome(p) PROVE ProcessInv'
  <2>1. ProcessOK(p)
      BY DEF ProcessInv
  <2>2. ProcessOK(p)'
      BY <1>12, <2>1, <1>pc, <1>cmd, <1>wl, NamesAssumption
         DEF ProcessOK, At, SetupHome, Goto, Fault, NoFault, local, LabelsOf,
             GeneratorLabels, ProvisionLabels, TargetLabels, LockedLabels, Labels, Commands
  <2> QED
      BY <1>12, <2>2, Move, <1>pc, <1>cmd, <1>wl, NamesAssumption
         DEF SetupHome, Goto, Fault, NoFault, local
<1>13. ASSUME NEW p \in Procs, ConfigureSubid(p) PROVE ProcessInv'
  <2>1. ProcessOK(p)
      BY DEF ProcessInv
  <2>2. ProcessOK(p)'
      BY <1>13, <2>1, <1>pc, <1>cmd, <1>wl, NamesAssumption
         DEF ProcessOK, At, ConfigureSubid, Goto, local, LabelsOf, GeneratorLabels,
             ProvisionLabels, TargetLabels, LockedLabels, Labels, Commands
  <2> QED
      BY <1>13, <2>2, Move, <1>pc, <1>cmd, <1>wl, NamesAssumption
         DEF ConfigureSubid, Goto, local
<1>14. ASSUME NEW p \in Procs, Provision(p) PROVE ProcessInv'
  <2>1. ProcessOK(p)
      BY DEF ProcessInv
  <2>2. ProcessOK(p)'
      BY <1>14, <2>1, <1>pc, <1>cmd, <1>wl, NamesAssumption
         DEF ProcessOK, At, Provision, Goto, Fault, NoFault, local, LabelsOf,
             GeneratorLabels, ProvisionLabels, TargetLabels, LockedLabels, Labels, Commands
  <2> QED
      BY <1>14, <2>2, Move, <1>pc, <1>cmd, <1>wl, NamesAssumption
         DEF Provision, Goto, Fault, NoFault, local
<1>15. ASSUME NEW p \in Procs, StartService(p) PROVE ProcessInv'
  <2>1. ProcessOK(p)
      BY DEF ProcessInv
  <2>2. ProcessOK(p)'
      BY <1>15, <2>1, <1>pc, <1>cmd, <1>wl, NamesAssumption
         DEF ProcessOK, At, StartService, Goto, Fault, local, LabelsOf, GeneratorLabels,
             ProvisionLabels, TargetLabels, LockedLabels, Labels, Commands
  <2> QED
      BY <1>15, <2>2, Move, <1>pc, <1>cmd, <1>wl, NamesAssumption
         DEF StartService, Goto, Fault, local
<1>16. ASSUME NEW p \in Procs, StopUnits(p) PROVE ProcessInv'
  <2> SUFFICES ASSUME NEW q \in Procs PROVE ProcessOK(q)'
      BY DEF ProcessInv
  <2>1. ProcessOK(p) /\ ProcessOK(q) /\ UNCHANGED <<cmd, wl, lock>>
      BY <1>16, Zenon DEF ProcessInv, StopUnits, local
  <2>2. CASE q = p
    <3>1. pc[p] = "stop" /\ pc'[p] = "unmark"
        BY <1>16, Zenon DEF StopUnits, At
    <3>2. cmd[p] \in {"disable", "purge"}
        BY <2>1, <3>1, <1>cmd
           DEF ProcessOK, LabelsOf, GeneratorLabels, ProvisionLabels, Commands
    <3> QED
        BY <2>1, <2>2, <3>1, <3>2
           DEF ProcessOK, LabelsOf, TargetLabels, LockedLabels, Labels
  <2>3. CASE q # p /\ cmd[q] = "setup" /\ wl[q] = wl[p]
    <3>1. pc'[q] = "exit"
        BY <1>16, <2>3 DEF StopUnits
    <3>2. pc[q] \notin LockedLabels
        BY <2>1, <2>3 DEF ProcessOK, LabelsOf, ProvisionLabels, LockedLabels
    <3> QED
        BY <2>1, <2>3, <3>1, <3>2 DEF ProcessOK, LabelsOf, TargetLabels, LockedLabels
  <2>4. CASE q # p /\ ~(cmd[q] = "setup" /\ wl[q] = wl[p])
      BY <1>16, <2>1, <2>4 DEF StopUnits, ProcessOK
  <2> QED
      BY <2>2, <2>3, <2>4, Zenon
<1>17. ASSUME NEW p \in Procs, RemoveMarker(p) PROVE ProcessInv'
  <2>1. ProcessOK(p)
      BY DEF ProcessInv
  <2>2. ProcessOK(p)'
      BY <1>17, <2>1, <1>pc, <1>cmd, <1>wl, NamesAssumption
         DEF ProcessOK, At, RemoveMarker, Goto, Unmark, Fault, NoFault, local, LabelsOf,
             GeneratorLabels, ProvisionLabels, TargetLabels, LockedLabels, Labels, Commands
  <2> QED
      BY <1>17, <2>2, Move, <1>pc, <1>cmd, <1>wl, NamesAssumption
         DEF RemoveMarker, Goto, Unmark, Fault, NoFault, local
<1>18. ASSUME NEW p \in Procs, RemoveRunFiles(p) PROVE ProcessInv'
  <2>1. ProcessOK(p)
      BY DEF ProcessInv
  <2>2. cmd[p] \in {"disable", "purge"}
      BY <1>18, <2>1, <1>cmd
         DEF RemoveRunFiles, At, ProcessOK, LabelsOf, GeneratorLabels, ProvisionLabels,
             Commands
  <2>3. UNCHANGED <<cmd, wl, lock>> /\ pc[p] = "unconf"
      BY <1>18 DEF RemoveRunFiles, At, local
  <2>4. cmd[p] = "disable" => pc'[p] = "exit"
      BY <1>18, <1>pc DEF RemoveRunFiles, Goto
  <2>5. cmd[p] = "purge" => pc'[p] \in {"userdel", "subrm"}
      BY <1>18, <1>pc DEF RemoveRunFiles, Goto
  <2>6. ProcessOK(p)'
      BY <2>1, <2>2, <2>3, <2>4, <2>5
         DEF ProcessOK, LabelsOf, TargetLabels, LockedLabels, Labels
  <2> QED
      BY <1>18, <2>3, <2>6, Move, <1>pc DEF RemoveRunFiles, Goto
<1>19. ASSUME NEW p \in Procs, RemoveSubid(p) PROVE ProcessInv'
  <2>1. ProcessOK(p)
      BY DEF ProcessInv
  <2>2. ProcessOK(p)'
      BY <1>19, <2>1, <1>pc, <1>cmd, <1>wl, NamesAssumption
         DEF ProcessOK, At, RemoveSubid, RemoveEntries, Goto, Fault, local, LabelsOf,
             GeneratorLabels, ProvisionLabels, TargetLabels, LockedLabels, Labels, Commands
  <2> QED
      BY <1>19, <2>2, Move, <1>pc, <1>cmd, <1>wl, NamesAssumption
         DEF RemoveSubid, RemoveEntries, Goto, Fault, local
<1>20. ASSUME NEW p \in Procs, DeleteUser(p) PROVE ProcessInv'
  <2>1. ProcessOK(p)
      BY DEF ProcessInv
  <2>2. ProcessOK(p)'
      BY <1>20, <2>1, <1>pc, <1>cmd, <1>wl, NamesAssumption
         DEF ProcessOK, At, DeleteUser, Goto, Fault, NoFault, local, LabelsOf,
             GeneratorLabels, ProvisionLabels, TargetLabels, LockedLabels, Labels, Commands
  <2> QED
      BY <1>20, <2>2, Move, <1>pc, <1>cmd, <1>wl, NamesAssumption
         DEF DeleteUser, Goto, Fault, NoFault, local
<1>21. ASSUME NEW p \in Procs, RemoveTree(p) PROVE ProcessInv'
  <2>1. ProcessOK(p)
      BY DEF ProcessInv
  <2>2. ProcessOK(p)'
      BY <1>21, <2>1, <1>pc, <1>cmd, <1>wl, NamesAssumption
         DEF ProcessOK, At, RemoveTree, RmTree, Goto, Fault, NoFault, local, LabelsOf,
             GeneratorLabels, ProvisionLabels, TargetLabels, LockedLabels, Labels, Commands
  <2> QED
      BY <1>21, <2>2, Move, <1>pc, <1>cmd, <1>wl, NamesAssumption
         DEF RemoveTree, RmTree, Goto, Fault, NoFault, local
<1>22. ASSUME NEW p \in Procs, Scan(p) PROVE ProcessInv'
  <2>1. ProcessOK(p)
      BY DEF ProcessInv
  <2>2. ProcessOK(p)'
      BY <1>22, <2>1, <1>pc, <1>cmd, <1>wl, NamesAssumption
         DEF ProcessOK, At, Scan, Goto, LabelsOf, GeneratorLabels, ProvisionLabels,
             TargetLabels, LockedLabels, Labels, Commands
  <2> QED
      BY <1>22, <2>2, Move, <1>pc, <1>cmd, <1>wl, NamesAssumption, Zenon DEF Scan, Goto
<1>23. ASSUME NEW p \in Procs, SweepSubid(p) PROVE ProcessInv'
  <2>1. ProcessOK(p)
      BY DEF ProcessInv
  <2>2. ProcessOK(p)'
      BY <1>23, <2>1, <1>pc, <1>cmd, <1>wl, <1>todo, NamesAssumption
         DEF ProcessOK, At, SweepSubid, RemoveEntries, Goto, LabelsOf, GeneratorLabels,
             ProvisionLabels, TargetLabels, LockedLabels, Labels, Commands
  <2> QED
      BY <1>23, <2>2, Move, <1>pc, <1>cmd, <1>wl, NamesAssumption
         DEF SweepSubid, RemoveEntries, Goto
<1>24. ASSUME NEW p \in Procs, SweepUser(p) PROVE ProcessInv'
  <2>1. ProcessOK(p)
      BY DEF ProcessInv
  <2>2. ProcessOK(p)'
      BY <1>24, <2>1, <1>pc, <1>cmd, <1>wl, NamesAssumption
         DEF ProcessOK, At, SweepUser, Goto, Fault, NoFault, local, LabelsOf,
             GeneratorLabels, ProvisionLabels, TargetLabels, LockedLabels, Labels, Commands
  <2> QED
      BY <1>24, <2>2, Move, <1>pc, <1>cmd, <1>wl, NamesAssumption
         DEF SweepUser, Goto, Fault, NoFault, local
<1>25. ASSUME NEW p \in Procs, SweepDir(p) PROVE ProcessInv'
  <2>1. ProcessOK(p)
      BY DEF ProcessInv
  <2>2. ProcessOK(p)'
      BY <1>25, <2>1, <1>pc, <1>cmd, <1>wl, NamesAssumption
         DEF ProcessOK, At, SweepDir, RmTree, Goto, Fault, NoFault, LabelsOf,
             GeneratorLabels, ProvisionLabels, TargetLabels, LockedLabels, Labels, Commands
  <2> QED
      BY <1>25, <2>2, Move, <1>pc, <1>cmd, <1>wl, NamesAssumption
         DEF SweepDir, RmTree, Goto, Fault, NoFault
<1>26. ASSUME NEW p \in Procs, Exit(p) PROVE ProcessInv'
  <2>1. ProcessOK(p)
      BY DEF ProcessInv
  <2>2. ProcessOK(p)'
      BY <1>26, <2>1, <1>pc, <1>cmd, <1>wl, NamesAssumption
         DEF ProcessOK, At, Exit, Finish, Goto, LabelsOf, GeneratorLabels, ProvisionLabels,
             TargetLabels, LockedLabels, Labels, Commands
  <2> QED
      BY <1>26, <2>2, Move, <1>pc, <1>cmd, <1>wl, NamesAssumption DEF Exit, Finish, Goto
<1>27. ASSUME NEW p \in Procs, NEW w \in Workloads, StartEnable(p, w) PROVE ProcessInv'
  <2>1. ProcessOK(p)
      BY DEF ProcessInv
  <2>2. ProcessOK(p)'
      BY <1>27, <2>1, <1>pc, <1>cmd, <1>wl, NamesAssumption
         DEF ProcessOK, At, StartEnable, Begin, Goto, CountCommand, LabelsOf,
             GeneratorLabels, ProvisionLabels, TargetLabels, LockedLabels, Labels, Commands
  <2> QED
      BY <1>27, <2>2, Move, <1>pc, <1>cmd, <1>wl, NamesAssumption
         DEF StartEnable, Begin, Goto, CountCommand
<1>28. ASSUME NEW p \in Procs, NEW w \in Workloads, StartRegen(p, w) PROVE ProcessInv'
  <2>1. ProcessOK(p)
      BY DEF ProcessInv
  <2>2. ProcessOK(p)'
      BY <1>28, <2>1, <1>pc, <1>cmd, <1>wl, NamesAssumption
         DEF ProcessOK, At, StartRegen, Begin, Goto, CountCommand, LabelsOf,
             GeneratorLabels, ProvisionLabels, TargetLabels, LockedLabels, Labels, Commands
  <2> QED
      BY <1>28, <2>2, Move, <1>pc, <1>cmd, <1>wl, NamesAssumption
         DEF StartRegen, Begin, Goto, CountCommand
<1>29. ASSUME NEW p \in Procs, NEW w \in Workloads, StartSetup(p, w) PROVE ProcessInv'
  <2>1. ProcessOK(p)
      BY DEF ProcessInv
  <2>2. ProcessOK(p)'
      BY <1>29, <2>1, <1>pc, <1>cmd, <1>wl, NamesAssumption
         DEF ProcessOK, At, StartSetup, Begin, Goto, LabelsOf, GeneratorLabels,
             ProvisionLabels, TargetLabels, LockedLabels, Labels, Commands
  <2> QED
      BY <1>29, <2>2, Move, <1>pc, <1>cmd, <1>wl, NamesAssumption
         DEF StartSetup, Begin, Goto
<1>30. ASSUME NEW p \in Procs, NEW w \in Workloads, NEW c \in {"disable", "purge"}, StartDisable(p, w, c)
       PROVE  ProcessInv'
  <2>1. ProcessOK(p)
      BY DEF ProcessInv
  <2>2. ProcessOK(p)'
      BY <1>30, <2>1, <1>pc, <1>cmd, <1>wl, NamesAssumption
         DEF ProcessOK, At, StartDisable, Begin, Goto, CountCommand, LabelsOf,
             GeneratorLabels, ProvisionLabels, TargetLabels, LockedLabels, Labels, Commands
  <2> QED
      BY <1>30, <2>2, Move, <1>pc, <1>cmd, <1>wl, NamesAssumption
         DEF StartDisable, Begin, Goto, CountCommand
<1>31. ASSUME NEW p \in Procs, StartCleanup(p) PROVE ProcessInv'
  <2>1. ProcessOK(p)
      BY DEF ProcessInv
  <2>2. ProcessOK(p)'
      BY <1>31, <2>1, <1>pc, <1>cmd, <1>wl, NamesAssumption
         DEF ProcessOK, At, StartCleanup, Begin, Goto, CountCommand, LabelsOf,
             GeneratorLabels, ProvisionLabels, TargetLabels, LockedLabels, Labels, Commands
  <2> QED
      BY <1>31, <2>2, Move, <1>pc, <1>cmd, <1>wl, NamesAssumption
         DEF StartCleanup, Begin, Goto, CountCommand
<1>32. ASSUME NEW p \in Procs, Kill(p) PROVE ProcessInv'
  <2>1. ProcessOK(p)
      BY DEF ProcessInv
  <2>2. ProcessOK(p)'
      BY <1>32, <2>1, <1>pc, <1>cmd, <1>wl, NamesAssumption
         DEF ProcessOK, At, Kill, Finish, Goto, Fault, LabelsOf, GeneratorLabels,
             ProvisionLabels, TargetLabels, LockedLabels, Labels, Commands
  <2> QED
      BY <1>32, <2>2, Move, <1>pc, <1>cmd, <1>wl, NamesAssumption
         DEF Kill, Finish, Goto, Fault
<1>33. ASSUME NEW w \in Workloads, CreateConfig(w) PROVE ProcessInv'
      BY <1>33 DEF ProcessInv, ProcessOK, CreateConfig, CountCommand, var, run, local, hist
<1>34. ASSUME NEW w \in Workloads, RemoveConfig(w) PROVE ProcessInv'
      BY <1>34
         DEF ProcessInv, ProcessOK, RemoveConfig, CountCommand, Unmark, var, run, local,
             hist
<1>35. ASSUME NEW w \in Workloads, BreakConfig(w) PROVE ProcessInv'
      BY <1>35 DEF ProcessInv, ProcessOK, BreakConfig, CountCommand, var, run, local, hist
<1>36. ASSUME NEW w \in Workloads, Work(w) PROVE ProcessInv'
      BY <1>36 DEF ProcessInv, ProcessOK, Work, Mapping, etc, run, local, count, hist
<1>37. ASSUME NEW d \in Deployments, Prune(d) PROVE ProcessInv'
      BY <1>37 DEF ProcessInv, ProcessOK, Prune, etc, var, run, local, hist
<1>38. ASSUME NEW p \in Procs, NEW d \in Deployments, Boot(p, d) PROVE ProcessInv'
  <2>1. \A q \in Procs : /\ \/ pc'[q] = "next" /\ cmd'[q] = "boot"
                            \/ pc'[q] = "idle" /\ cmd'[q] = "none"
                         /\ lock' # q
      BY <1>38, NamesAssumption DEF Boot
  <2> QED
      BY <2>1 DEF ProcessInv, ProcessOK, LabelsOf, TargetLabels, LockedLabels
<1>39. CASE UNCHANGED vars
    BY <1>39, Zenon DEF ProcessInv, ProcessOK, vars, local
<1> QED
    BY <1>1, <1>2, <1>3, <1>4, <1>5, <1>6, <1>7, <1>8, <1>9, <1>10, <1>11, <1>12, <1>13,
       <1>14, <1>15, <1>16, <1>17, <1>18, <1>19, <1>20, <1>21, <1>22, <1>23, <1>24, <1>25,
       <1>26, <1>27, <1>28, <1>29, <1>30, <1>31, <1>32, <1>33, <1>34, <1>35, <1>36, <1>37,
       <1>38, <1>39, Zenon
       DEF Next, Step, Start

(* TypeOK and the labels need no assumption about the operator. *)
THEOREM TypeCorrect == Spec => []TypeOK
<1>1. Init => TypeOK /\ ProcessInv
    BY TypeInit, NamesAssumption DEF Init, ProcessInv, ProcessOK, LabelsOf, TargetLabels,
        LockedLabels
<1>2. TypeOK /\ ProcessInv /\ [Next]_vars => TypeOK' /\ ProcessInv'
    BY TypeNext, ProcessNext
<1> QED
    BY <1>1, <1>2, PTL DEF Spec
=============================================================================
