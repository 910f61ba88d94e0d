---------------------- MODULE WorkloadIdentity_proofs ----------------------
(***************************************************************************)
(* Proofs about WorkloadIdentity for every set of workloads, processes and *)
(* deployments, every UID range and every bound: the state is well typed,  *)
(* and, when the operator does not overlap commands on a workload, no two  *)
(* workloads ever hold one UID or derive their subordinate range from one. *)
(*                                                                         *)
(* Both rest on IInv.  Its conjuncts are shown inductive one after another *)
(* (ProcessNext, ExclusionNext, StoppedNext, UidNext, SubidNext); only     *)
(* ExclusionNext uses Exclusive.                                           *)
(***************************************************************************)
EXTENDS WorkloadIdentity_types

-----------------------------------------------------------------------------
(* Exclusion *)

(* A step of a process leaves the locals of the others alone. *)
LEMMA Others ==
    ASSUME TypeOK, NEW p \in Procs, Step(p), NEW q \in Procs, q # p
    PROVE  cmd'[q] = cmd[q] /\ wl'[q] = wl[q] /\ uid'[q] = uid[q]
<1>1. /\ cmd \in [Procs -> Commands] /\ wl \in [Procs -> Workloads \cup {NoWorkload}]
      /\ uid \in [Procs -> Owner]
    BY DEF TypeOK
<1> QED
    BY <1>1, Zenon DEF Step, NextWorkload, Lookup, AcquireLock, ClaimUid, PinUid, EmitUnits,
        Preflight, Hooks, CheckUnits, Sysusers, EnsureUser, SetupHome, ConfigureSubid,
        Provision, StartService, StopUnits, RemoveMarker, RemoveRunFiles, RemoveSubid,
        DeleteUser, RemoveTree, Scan, SweepSubid, SweepUser, SweepDir, Exit, Finish, Goto,
        local

(* A process that starts or is killed ends up at one of a few labels.       *)
LEMMA Turnover ==
    ASSUME TypeOK, NEW p \in Procs, Start(p) \/ Kill(p)
    PROVE  \E l \in {"preflight", "lookup", "sysusers", "stop", "scan", "idle"},
              w \in Workloads \cup {NoWorkload} :
               /\ pc' = [pc EXCEPT ![p] = l] /\ wl' = [wl EXCEPT ![p] = w]
               /\ uid' \in {uid, [uid EXCEPT ![p] = Absent]}
               /\ \A q \in Procs \ {p} : cmd'[q] = cmd[q]
<1>cmd. cmd \in [Procs -> Commands]
    BY DEF TypeOK
<1>1. CASE Kill(p)
    BY <1>1, <1>cmd, Zenon DEF Kill, Finish, Goto
<1>2. CASE StartCleanup(p)
    BY <1>2, <1>cmd, Zenon DEF StartCleanup, Begin, Goto
<1>3. ASSUME NEW w \in Workloads, StartEnable(p, w) \/ StartRegen(p, w)
      PROVE  /\ wl' = [wl EXCEPT ![p] = w] /\ uid' = uid
             /\ \A q \in Procs \ {p} : cmd'[q] = cmd[q]
             /\ \E l \in {"preflight", "lookup"} : pc' = [pc EXCEPT ![p] = l]
    BY <1>3, <1>cmd DEF StartEnable, StartRegen, Begin, Goto
<1>4. ASSUME NEW w \in Workloads, StartSetup(p, w)
      PROVE  /\ pc' = [pc EXCEPT ![p] = "sysusers"] /\ wl' = [wl EXCEPT ![p] = w] /\ uid' = uid
             /\ \A q \in Procs \ {p} : cmd'[q] = cmd[q]
    BY <1>4, <1>cmd DEF StartSetup, Begin, Goto
<1>5. ASSUME NEW w \in Workloads, NEW c \in {"disable", "purge"}, StartDisable(p, w, c)
      PROVE  /\ pc' = [pc EXCEPT ![p] = "stop"] /\ wl' = [wl EXCEPT ![p] = w] /\ uid' = uid
             /\ \A q \in Procs \ {p} : cmd'[q] = cmd[q]
    BY <1>5, <1>cmd DEF StartDisable, Begin, Goto
<1> QED
    BY <1>1, <1>2, <1>3, <1>4, <1>5 DEF Start

(* It keeps its command until it ends, and its workload too unless it is one *)
(* of the two that go through all of them.                                   *)
LEMMA Own ==
    ASSUME TypeOK, ProcessInv, NEW p \in Procs, Step(p)
    PROVE  \/ cmd'[p] = "none"
           \/ cmd'[p] = cmd[p] /\ (wl'[p] = wl[p] \/ cmd[p] \in {"boot", "cleanup"})
<1>1. cmd \in [Procs -> Commands]
    BY DEF TypeOK
<1>2. pc[p] \in LabelsOf(cmd[p])
    BY DEF ProcessInv, ProcessOK
<1>3. CASE NextWorkload(p)
  <2>1. cmd[p] = "boot"
      BY <1>1, <1>2, <1>3 DEF NextWorkload, At, LabelsOf, GeneratorLabels, ProvisionLabels,
          Commands
  <2> QED
      BY <1>1, <1>3, <2>1 DEF NextWorkload, Finish
<1>4. CASE SweepSubid(p)
  <2>1. cmd[p] = "cleanup"
      BY <1>1, <1>2, <1>4 DEF SweepSubid, At, LabelsOf, GeneratorLabels, ProvisionLabels,
          Commands
  <2> QED
      BY <1>1, <1>4, <2>1 DEF SweepSubid
<1> QED
    BY <1>1, <1>3, <1>4, Zenon DEF Step, Lookup, AcquireLock, ClaimUid, PinUid, EmitUnits,
        Preflight, Hooks, CheckUnits, Sysusers, EnsureUser, SetupHome, ConfigureSubid,
        Provision, StartService, StopUnits, RemoveMarker, RemoveRunFiles, RemoveSubid,
        DeleteUser, RemoveTree, Scan, SweepUser, SweepDir, Exit, Finish, local

(* Commands that do not overlap on a workload when they start never do, and *)
(* the generator of the boot and cleanup run alone.                         *)
LEMMA ExclusionNext ==
    ASSUME Exclusive, TypeOK, ProcessInv, ExclusionInv, [Next]_vars
    PROVE  ExclusionInv'
<1>cmd. cmd \in [Procs -> Commands]
    BY DEF TypeOK
<1>wl. wl \in [Procs -> Workloads \cup {NoWorkload}]
    BY DEF TypeOK
<1>1. ASSUME NEW p \in Procs, Step(p) PROVE ExclusionInv'
    BY <1>1, Others, Own DEF ExclusionInv, Targeted
<1>2. ASSUME NEW p \in Procs, Kill(p) PROVE ExclusionInv'
    BY <1>2, <1>cmd, <1>wl DEF ExclusionInv, Targeted, Kill, Finish
<1>3. ASSUME NEW p \in Procs, NEW w \in Workloads, NEW c \in Targeted, NEW l \in Labels,
             CommandMayStart(w), Begin(p, c, w, l)
      PROVE  ExclusionInv'
    BY <1>3, <1>cmd, <1>wl DEF ExclusionInv, Targeted, CommandMayStart, Booting,
        Uncontended, Begin
<1>4. ASSUME NEW p \in Procs, NEW w \in Workloads, StartSetup(p, w) PROVE ExclusionInv'
    BY <1>4, <1>cmd, <1>wl DEF ExclusionInv, Targeted, StartSetup, Booting, Begin
<1>5. ASSUME NEW p \in Procs, StartCleanup(p) PROVE ExclusionInv'
    BY <1>5, <1>cmd, <1>wl DEF ExclusionInv, Targeted, StartCleanup, Begin
<1>6. ASSUME NEW p \in Procs, Start(p) PROVE ExclusionInv'
    BY SMTT(60), <1>3, <1>4, <1>5, <1>6 DEF Start, StartEnable, StartRegen, StartDisable, Targeted,
        Labels
<1>7. ASSUME NEW p \in Procs, NEW d \in Deployments, Boot(p, d) PROVE ExclusionInv'
    BY <1>7 DEF ExclusionInv, Targeted, Boot
<1>8. CASE UNCHANGED local
    BY <1>8 DEF ExclusionInv, local
<1> QED
    BY <1>1, <1>2, <1>6, <1>7, <1>8 DEF Next, CreateConfig, RemoveConfig, BreakConfig, Work,
        Prune, vars

(* Once a disable has stopped the units, no setup unit of its workload comes *)
(* back: only an enable or the boot queues one, and neither runs beside it.  *)
LEMMA StoppedNext ==
    ASSUME TypeOK, ProcessInv, ExclusionInv, StoppedInv, [Next]_vars
    PROVE  StoppedInv'
<1> DEFINE Stopped == {"unmark", "unconf", "subrm", "userdel", "rmtree"}
<1>pc. pc \in [Procs -> Labels]
    BY DEF TypeOK
<1>cmd. cmd \in [Procs -> Commands]
    BY DEF TypeOK
<1>wl. wl \in [Procs -> Workloads \cup {NoWorkload}]
    BY DEF TypeOK
<1>1. \A q \in Procs : /\ pc[q] \in Stopped => cmd[q] \in {"disable", "purge"}
                       /\ pc[q] = "next" => cmd[q] = "boot"
                       /\ pc[q] = "start" => cmd[q] \in {"enable", "regen", "setup"}
                       /\ cmd[q] = "none" => pc[q] = "idle"
    BY <1>cmd
       DEF ProcessInv, ProcessOK, LabelsOf, GeneratorLabels, ProvisionLabels, Commands
<1>2. ASSUME NEW p \in Procs, NextWorkload(p) PROVE StoppedInv'
  <2>1. \A q \in Procs \ {p} : cmd[q] = "none" /\ pc[q] = "idle"
      BY <1>1, <1>2 DEF NextWorkload, At, ExclusionInv
  <2> QED
      BY <1>2, <2>1, <1>pc DEF NextWorkload, Finish, Goto, StoppedInv, StoppedOK
<1>3. ASSUME NEW p \in Procs, StartService(p) PROVE StoppedInv'
  <2>1. \A q \in Procs : pc[q] \in Stopped /\ cmd[p] # "setup" => wl[q] # wl[p]
      BY <1>1, <1>3 DEF StartService, At, ExclusionInv, Targeted
  <2> QED
      BY <1>3, <2>1, <1>pc DEF StartService, At, Goto, StoppedInv, StoppedOK, run, local
<1>4. ASSUME NEW p \in Procs, StopUnits(p) PROVE StoppedInv'
  <2>1. UNCHANGED <<cmd, wl>> /\ startq' = startq \ {wl[p]}
      BY <1>4 DEF StopUnits, local
  <2>2. \A q \in Procs : /\ pc'[q] \in Stopped => q = p \/ pc[q] \in Stopped
                         /\ pc[q] = "exit" => pc'[q] \in {"exit", "unmark"}
                         /\ cmd[q] = "setup" /\ wl[q] = wl[p] /\ q # p => pc'[q] = "exit"
      BY <1>4 DEF StopUnits
  <2>3. \A q \in Procs : cmd[q] = "setup" => q # p /\ pc'[q] # "unmark"
      BY <1>1, <1>4, <1>cmd
         DEF StopUnits, At, ProcessInv, ProcessOK, LabelsOf, ProvisionLabels
  <2> QED
      BY <2>1, <2>2, <2>3 DEF StoppedInv, StoppedOK
<1>5. ASSUME NEW p \in Procs, Step(p), ~NextWorkload(p), ~StartService(p), ~StopUnits(p)
      PROVE  StoppedInv'
  <2>1. UNCHANGED startq
      BY <1>5, Zenon DEF Step, Lookup, AcquireLock, ClaimUid, PinUid, EmitUnits, Preflight, Hooks,
          CheckUnits, Sysusers, EnsureUser, SetupHome, ConfigureSubid, Provision,
          RemoveMarker, RemoveRunFiles, RemoveSubid, DeleteUser, RemoveTree, Scan,
          SweepSubid, SweepUser, SweepDir, Exit, run
  <2>2. /\ \A q \in Procs \ {p} : pc'[q] = pc[q]
        /\ pc'[p] \in Stopped => pc[p] \in Stopped /\ UNCHANGED local
        /\ pc[p] = "exit" => cmd'[p] = "none"
      BY <1>5, <1>pc, <1>cmd, Zenon
         DEF Step, Lookup, AcquireLock, ClaimUid, PinUid, EmitUnits, Preflight,
          Hooks, CheckUnits, Sysusers, EnsureUser, SetupHome, ConfigureSubid, Provision,
          RemoveMarker, RemoveRunFiles, RemoveSubid, DeleteUser, RemoveTree, Scan,
          SweepSubid, SweepUser, SweepDir, Exit, Finish, Goto, At, Generated
  <2> QED
      BY <1>1, <1>5, <2>1, <2>2, Others, Own DEF StoppedInv, StoppedOK, local
<1>6. ASSUME NEW p \in Procs, Start(p) PROVE StoppedInv'
  <2>1. \A q \in Procs : q # p => pc'[q] = pc[q] /\ cmd'[q] = cmd[q] /\ wl'[q] = wl[q]
      BY <1>6, <1>pc, <1>wl, Turnover
  <2>2. /\ pc'[p] \notin Stopped /\ startq' \subseteq startq
        /\ cmd'[p] = "setup" => wl'[p] \in startq
    <3>1. pc'[p] \in {"preflight", "lookup", "sysusers", "stop", "scan", "idle"}
        BY <1>6, <1>pc, Turnover
    <3>2. ASSUME NEW w \in Workloads, StartSetup(p, w)
          PROVE  startq' \subseteq startq /\ wl'[p] \in startq
        BY <3>2, <1>wl DEF StartSetup, Begin
    <3>3. ASSUME NEW w \in Workloads, \/ StartEnable(p, w) \/ StartRegen(p, w)
                                      \/ \E c \in {"disable", "purge"} : StartDisable(p, w, c)
          PROVE  startq' = startq /\ cmd'[p] # "setup"
        BY <3>3, <1>cmd DEF StartEnable, StartRegen, StartDisable, Begin, run
    <3>4. CASE StartCleanup(p)
        BY <3>1, <3>4, <1>cmd DEF StartCleanup, Begin, run
    <3> QED
        BY <1>6, <3>1, <3>2, <3>3, <3>4 DEF Start
  <2> QED
      BY <2>1, <2>2 DEF StoppedInv, StoppedOK
<1>7. ASSUME NEW p \in Procs, Kill(p) PROVE StoppedInv'
    BY <1>7, <1>pc, <1>cmd, <1>wl DEF Kill, Finish, Goto, StoppedInv, StoppedOK, run
<1>8. ASSUME NEW p \in Procs, NEW d \in Deployments, Boot(p, d) PROVE StoppedInv'
    BY <1>8 DEF Boot, StoppedInv, StoppedOK
<1>9. CASE UNCHANGED <<startq, pc, cmd, wl>>
    BY <1>9 DEF StoppedInv, StoppedOK
<1> QED
    BY <1>2, <1>3, <1>4, <1>5, <1>6, <1>7, <1>8, <1>9, Zenon
       DEF Next, Step, CreateConfig, RemoveConfig,
        BreakConfig, Work, Prune, vars, run, local

-----------------------------------------------------------------------------
(* UIDs *)

(* Steps by which no workload comes to hold a UID it did not hold before. *)
LEMMA UidFrame ==
    ASSUME UidInv, \A v \in Workloads : Held(v)' \subseteq Held(v),
           \A d \in Deployments, v, w \in Workloads :
               v # w /\ passwd'[d][v] \in Uids => passwd'[d][v] # passwd'[d][w],
           \A q \in Procs : UidOK(q)'
    PROVE  UidInv'
<1>1. UniqueUids'
    BY DEF UidInv, UniqueUids
<1> QED
    BY <1>1 DEF UidInv

(* One line of a file of one deployment is rewritten. *)
LEMMA Rewritten ==
    ASSUME NEW S, NEW f \in [Deployments -> [Workloads -> S]], NEW x,
           NEW d \in Deployments, NEW w \in Workloads, NEW g, g = [f EXCEPT ![d][w] = x]
    PROVE  /\ g[d][w] = x
           /\ \A e \in Deployments, v \in Workloads : ~(e = d /\ v = w) => g[e][v] = f[e][v]
    OBVIOUS

(* What the UID of a process at work rests on stays as it is. *)
LEMMA UidKept ==
    ASSUME NEW q \in Procs, UidOK(q),
           pc'[q] = pc[q], uid'[q] = uid[q], wl'[q] = wl[q], booted' = booted,
           pc[q] = "pin" => \A v \in Workloads : Held(v)' \subseteq Held(v),
           pc[q] = "emit" => conf'[wl[q]] = conf[wl[q]],
           pc[q] \in {"emit", "home", "subid"} =>
               \/ passwd'[booted][wl[q]] = passwd[booted][wl[q]]
               \/ passwd[booted][wl[q]] = Absent
    PROVE  UidOK(q)'
<1>1. CASE pc[q] = "pin"
    BY <1>1 DEF UidOK
<1>2. CASE pc[q] = "emit"
    BY <1>2 DEF UidOK
<1>3. CASE pc[q] \in {"home", "subid"}
    BY <1>3 DEF UidOK
<1> QED
    BY <1>1, <1>2, <1>3, Zenon DEF UidOK

(* Steps that change no passwd line and no conf. *)
LEMMA UidQuiet ==
    ASSUME UidInv, UNCHANGED <<booted, passwd, conf>>,
           \A q \in Procs : \/ pc'[q] = pc[q] /\ uid'[q] = uid[q] /\ wl'[q] = wl[q]
                            \/ pc'[q] \notin {"pin", "emit", "home", "subid"}
                            \/ UidOK(q)'
    PROVE  UidInv'
<1>1. \A v \in Workloads : Held(v)' = Held(v)
    BY DEF Held
<1>2. \A q \in Procs : UidOK(q)'
  <2> SUFFICES ASSUME NEW q \in Procs, ~UidOK(q)' PROVE FALSE
      OBVIOUS
  <2>1. UidOK(q)
      BY DEF UidInv
  <2>2. CASE pc'[q] \notin {"pin", "emit", "home", "subid"}
      BY <2>2 DEF UidOK
  <2>3. CASE pc'[q] = pc[q] /\ uid'[q] = uid[q] /\ wl'[q] = wl[q]
    <3>1. pc[q] = "pin" => /\ uid'[q] \in Uids
                           /\ \A v \in Workloads \ {wl'[q]} : uid'[q] \notin Held(v)'
        BY <2>1, <2>3, <1>1 DEF UidOK
    <3> QED
        BY <3>1, <2>1, <2>3 DEF UidOK
  <2> QED
      BY <2>2, <2>3
<1> QED
    BY <1>1, <1>2, UidFrame DEF UidInv

(* Only PinUid gives a workload a UID it did not hold, and under SUBID_LOCK it  *)
(* still is the one ClaimUid found free; every other step moves a UID between  *)
(* the conf and the passwd line of one workload, or drops it.                  *)
LEMMA UidNext ==
    ASSUME TypeOK, ProcessInv, ExclusionInv, StoppedInv, UidInv, [Next]_vars
    PROVE  UidInv'
<1>pc. pc \in [Procs -> Labels]
    BY DEF TypeOK
<1>cmd. cmd \in [Procs -> Commands]
    BY DEF TypeOK
<1>wl. wl \in [Procs -> Workloads \cup {NoWorkload}]
    BY DEF TypeOK
<1>uid. uid \in [Procs -> Owner]
    BY DEF TypeOK
<1>conf. conf \in [Workloads -> Owner]
    BY DEF TypeOK
<1>passwd. passwd \in [Deployments -> [Workloads -> Owner]] /\ booted \in Deployments
    BY DEF TypeOK
<1>lab. \A q \in Procs :
            /\ pc[q] \in GeneratorLabels => cmd[q] \in {"enable", "regen", "boot"}
            /\ pc[q] \in ProvisionLabels => cmd[q] \in {"enable", "setup"}
            /\ pc[q] \in {"unconf", "userdel"} => cmd[q] \in {"disable", "purge"}
            /\ pc[q] = "sweepuser" => cmd[q] = "cleanup"
            /\ cmd[q] = "none" => pc[q] = "idle"
    BY <1>cmd
       DEF ProcessInv, ProcessOK, LabelsOf, GeneratorLabels, ProvisionLabels, Commands
<1>tgt. \A q \in Procs : pc[q] \in {"pin", "emit", "home", "subid"} => wl[q] \in Workloads
    BY <1>pc, Target
<1>ok. \A q \in Procs : UidOK(q)
    BY DEF UidInv
<1>1. ASSUME NEW p \in Procs, Lookup(p) PROVE UidInv'
  <2>1. UidOK(p)'
      BY <1>1, <1>pc, <1>uid DEF Lookup, Goto, Generated, UidOK, etc, run, count, bound
  <2> QED
      BY <1>1, <2>1, <1>pc, <1>uid, UidQuiet DEF Lookup, Goto, etc, run, count, bound
<1>2. ASSUME NEW p \in Procs, ClaimUid(p) PROVE UidInv'
  <2>1. UNCHANGED <<booted, passwd, conf, wl>>
      BY <1>2 DEF ClaimUid, etc, run, count, bound
  <2>2. \A v \in Workloads : Held(v)' = Held(v) /\ Held(v) \subseteq UsedUids(p)
      BY <2>1 DEF Held, UsedUids, PendingUids
  <2>3. UidOK(p)'
      BY <1>2, <2>1, <2>2, <1>pc, <1>uid DEF ClaimUid, Goto, Generated, UidOK
  <2> QED
      BY <1>2, <2>1, <2>3, <1>pc, <1>uid, UidQuiet DEF ClaimUid, Goto
<1>3. ASSUME NEW p \in Procs, PinUid(p) PROVE UidInv'
  <2>w. wl[p] \in Workloads /\ pc[p] = "pin"
      BY <1>3, <1>pc, Target DEF PinUid, At
  <2>1. UNCHANGED <<booted, passwd, uid, wl>>
      BY <1>3 DEF PinUid, etc, local, bound
  <2>2. CASE pc' = [pc EXCEPT ![p] = Generated(p)] /\ UNCHANGED conf
      BY <2>1, <2>2, <1>pc, UidQuiet DEF Generated
  <2>3. CASE conf' = [conf EXCEPT ![wl[p]] = uid[p]] /\ pc' = [pc EXCEPT ![p] = "emit"]
    <3>1. \A v \in Workloads \ {wl[p]} : Held(v)' = Held(v) /\ uid[p] \notin Held(v)
        BY <2>1, <2>3, <2>w, <1>ok, <1>conf DEF UidOK, Held
    <3>2. \A v \in Workloads : Held(v)' \subseteq Held(v) \cup {uid[p]}
        BY <2>1, <2>3, <2>w, <1>conf DEF Held
    <3>3. UniqueUids'
      <4> SUFFICES ASSUME NEW v \in Workloads, NEW w \in Workloads, v # w
                   PROVE  Held(v)' \cap Held(w)' = {}
          BY DEF UniqueUids
      <4>1. Held(v) \cap Held(w) = {}
          BY DEF UidInv, UniqueUids
      <4>2. CASE v = wl[p]
          BY <4>1, <4>2, <3>1, <3>2
      <4>3. CASE w = wl[p]
          BY <4>1, <4>3, <3>1, <3>2
      <4> QED
          BY <4>1, <4>2, <4>3, <3>1
    <3>4. \A q \in Procs \ {p} : pc[q] # "pin" /\ (pc[q] = "emit" => wl[q] # wl[p])
      <4>1. lock = p
          BY <2>w DEF ProcessInv, ProcessOK, LockedLabels
      <4> QED
          BY <4>1, <2>w, <1>lab DEF ProcessInv, ProcessOK, LockedLabels, ExclusionInv,
              Targeted, GeneratorLabels
    <3>5. ASSUME NEW q \in Procs \ {p} PROVE UidOK(q)'
      <4>1. pc'[q] = pc[q] /\ uid'[q] = uid[q] /\ wl'[q] = wl[q] /\ booted' = booted
          BY <2>1, <2>3, <1>pc
      <4>2. pc[q] # "pin" /\ (pc[q] = "emit" => conf'[wl[q]] = conf[wl[q]])
          BY <2>3, <3>4, <1>conf
      <4> QED
          BY <4>1, <4>2, <2>1, <1>ok, UidKept
    <3>6. UidOK(p)'
        BY <2>1, <2>3, <2>w, <1>ok, <1>pc, <1>conf, OwnerFacts DEF UidOK
    <3> QED
        BY <2>1, <3>3, <3>5, <3>6 DEF UidInv
  <2> QED
      BY <1>3, <2>2, <2>3 DEF PinUid, Goto
<1>4. ASSUME NEW p \in Procs, EmitUnits(p) PROVE UidInv'
  <2>w. wl[p] \in Workloads /\ pc[p] = "emit"
      BY <1>4, <1>pc, Target DEF EmitUnits, At
  <2>1. /\ UNCHANGED <<booted, passwd, uid, wl>>
        /\ conf' \in {conf, [conf EXCEPT ![wl[p]] = uid[p]]}
        /\ \A q \in Procs \ {p} : pc'[q] = pc[q]
        /\ pc'[p] \notin {"pin", "emit", "home", "subid"}
      BY <1>4, <1>pc DEF EmitUnits, Goto, Generated, etc, bound
  <2>2. \A v \in Workloads : Held(v)' \subseteq Held(v)
      BY <2>1, <2>w, <1>ok, <1>conf DEF UidOK, Held
  <2>3. \A q \in Procs \ {p} : pc[q] = "emit" => wl[q] # wl[p]
      BY <2>w, <1>lab DEF ExclusionInv, Targeted, GeneratorLabels
  <2>4. \A q \in Procs : UidOK(q)'
      BY <2>1, <2>2, <2>3, <2>w, <1>ok, <1>tgt, <1>conf DEF UidOK
  <2> QED
      BY <2>1, <2>2, <2>4, UidFrame, Zenon DEF UidInv
<1>5. ASSUME NEW p \in Procs, Sysusers(p) PROVE UidInv'
  <2>w. wl[p] \in Workloads
      BY <1>5, <1>pc, Target DEF Sysusers, At
  <2>1. /\ UNCHANGED <<booted, conf, uid, wl>>
        /\ \A q \in Procs \ {p} : pc'[q] = pc[q]
        /\ pc'[p] \notin {"pin", "emit", "home", "subid"}
      BY <1>5, <1>pc DEF Sysusers, Goto, run, local, count, bound
  <2>2. \/ passwd' = passwd
        \/ /\ passwd[booted][wl[p]] = Absent
           /\ \E u \in {SystemUid, conf[wl[p]]} :
                 /\ passwd' = [passwd EXCEPT ![booted][wl[p]] = u]
                 /\ u = SystemUid \/ \A v \in Workloads : passwd[booted][v] # u
    <3> DEFINE u == IF \E v \in Workloads : passwd[booted][v] = conf[wl[p]]
                    THEN SystemUid ELSE conf[wl[p]]
    <3>1. \/ passwd' = passwd
          \/ passwd' = [passwd EXCEPT ![booted][wl[p]] = IF @ = Absent THEN u ELSE @]
        BY <1>5 DEF Sysusers
    <3>2. /\ u \in {SystemUid, conf[wl[p]]}
          /\ u = SystemUid \/ \A v \in Workloads : passwd[booted][v] # u
        OBVIOUS
    <3> HIDE DEF u
    <3>3. CASE passwd[booted][wl[p]] = Absent
        BY <3>1, <3>2, <3>3
    <3>4. CASE passwd[booted][wl[p]] # Absent
        BY <3>1, <3>4, <2>w, <1>passwd
    <3> QED
        BY <3>3, <3>4
  <2>3. \A v \in Workloads : Held(v)' \subseteq Held(v)
      BY <2>1, <2>2, <2>w, <1>passwd, OwnerFacts DEF Held
  <2>4. \A d \in Deployments, v, w \in Workloads :
            v # w /\ passwd'[d][v] \in Uids => passwd'[d][v] # passwd'[d][w]
    <3>1. CASE passwd' = passwd
        BY <3>1 DEF UidInv
    <3>2. CASE passwd' # passwd
      <4>1. PICK u : /\ passwd' = [passwd EXCEPT ![booted][wl[p]] = u]
                     /\ u = SystemUid \/ \A v \in Workloads : passwd[booted][v] # u
          BY <2>2, <3>2
      <4>2. wl[p] \in Workloads /\ booted \in Deployments
          BY <2>w, <1>passwd
      <4>3. /\ passwd'[booted][wl[p]] = u
            /\ \A d \in Deployments, v \in Workloads :
                   ~(d = booted /\ v = wl[p]) => passwd'[d][v] = passwd[d][v]
          BY ONLY <4>1, <4>2, <1>passwd, Rewritten
      <4>4. SUFFICES ASSUME NEW d \in Deployments, NEW v \in Workloads, NEW w \in Workloads,
                            v # w, passwd'[d][v] \in Uids
                     PROVE  passwd'[d][v] # passwd'[d][w]
          OBVIOUS
      <4>5. v # w /\ passwd[d][v] \in Uids => passwd[d][v] # passwd[d][w]
          BY DEF UidInv
      <4>6. CASE d # booted
          BY <4>3, <4>4, <4>5, <4>6
      <4>7. CASE d = booted /\ v = wl[p]
          BY <4>1, <4>3, <4>4, <4>7, OwnerFacts
      <4>8. CASE d = booted /\ v # wl[p]
          BY <4>1, <4>3, <4>4, <4>5, <4>8, OwnerFacts
      <4> QED
          BY <4>6, <4>7, <4>8
    <3> QED
        BY <3>1, <3>2
  <2>5. \A q \in Procs : UidOK(q)'
    <3> SUFFICES ASSUME NEW q \in Procs PROVE UidOK(q)'
        OBVIOUS
    <3>1. \A v \in Workloads : passwd'[booted][v] = passwd[booted][v] \/ passwd[booted][v] = Absent
        BY <2>2, <1>passwd
    <3> QED
      <4>1. CASE q = p
          BY <4>1, <2>1 DEF UidOK
      <4>2. CASE q # p
        <5>1. pc'[q] = pc[q] /\ uid'[q] = uid[q] /\ wl'[q] = wl[q] /\ booted' = booted
              /\ conf' = conf /\ UidOK(q)
            BY <4>2, <2>1, <1>ok
        <5>2. pc[q] \in {"emit", "home", "subid"} =>
                  \/ passwd'[booted][wl[q]] = passwd[booted][wl[q]]
                  \/ passwd[booted][wl[q]] = Absent
            BY <3>1, <1>tgt
        <5> QED
            BY <5>1, <5>2, <2>3, UidKept
      <4> QED
          BY <4>1, <4>2
  <2> QED
      BY <2>3, <2>4, <2>5, UidFrame
<1>6. ASSUME NEW p \in Procs, EnsureUser(p) PROVE UidInv'
  <2>1. UidOK(p)'
      BY <1>6, <1>pc, <1>uid DEF EnsureUser, Goto, UidOK, etc, run, count, bound
  <2> QED
      BY <1>6, <2>1, <1>pc, <1>uid, UidQuiet DEF EnsureUser, Goto, etc, run, count, bound
<1>7. ASSUME NEW p \in Procs, SetupHome(p) PROVE UidInv'
  <2>1. UidOK(p)'
      BY <1>7, <1>ok, <1>pc DEF SetupHome, At, Goto, UidOK, etc, run, local, bound
  <2> QED
      BY <1>7, <2>1, <1>pc, UidQuiet DEF SetupHome, Goto, etc, run, local, bound
<1>8. ASSUME NEW p \in Procs, RemoveRunFiles(p) PROVE UidInv'
  <2>w. wl[p] \in Workloads /\ pc[p] = "unconf"
      BY <1>8, <1>pc, Target, Zenon DEF RemoveRunFiles, At
  <2>1. /\ UNCHANGED <<booted, passwd, uid, wl>>
        /\ conf' \in {conf, [conf EXCEPT ![wl[p]] = Absent]}
        /\ \A q \in Procs \ {p} : pc'[q] = pc[q]
        /\ pc'[p] \notin {"pin", "emit", "home", "subid"}
      BY <1>8, <1>pc, Zenon DEF RemoveRunFiles, Goto, etc, local, bound
  <2>2. \A v \in Workloads : Held(v)' \subseteq Held(v)
      BY <2>1, <2>w, <1>conf, OwnerFacts, Zenon DEF Held
  <2>3. \A q \in Procs \ {p} : pc[q] = "emit" => wl[q] # wl[p]
      BY <2>w, <1>lab DEF ExclusionInv, Targeted, GeneratorLabels
  <2>4. \A q \in Procs : UidOK(q)'
      BY <2>1, <2>2, <2>3, <2>w, <1>ok, <1>tgt, <1>conf DEF UidOK
  <2> QED
      BY <2>1, <2>2, <2>4, UidFrame, Zenon DEF UidInv
<1>9. ASSUME NEW p \in Procs, DeleteUser(p) \/ SweepUser(p) PROVE UidInv'
  <2>w. wl[p] \in Workloads /\ pc[p] \in {"userdel", "sweepuser"}
      BY <1>9, <1>pc, Target DEF DeleteUser, SweepUser, At
  <2>1. /\ UNCHANGED <<booted, conf, uid, wl>>
        /\ passwd' \in {passwd, [passwd EXCEPT ![booted][wl[p]] = Absent]}
        /\ \A q \in Procs \ {p} : pc'[q] = pc[q]
        /\ pc'[p] \notin {"pin", "emit", "home", "subid"}
      BY <1>9, <1>pc DEF DeleteUser, SweepUser, Goto, run, local, bound
  <2>2. \A v \in Workloads : Held(v)' \subseteq Held(v)
      BY <2>1, <2>w, <1>passwd, OwnerFacts DEF Held
  <2>3. \A d \in Deployments, v, w \in Workloads :
            v # w /\ passwd'[d][v] \in Uids => passwd'[d][v] # passwd'[d][w]
    <3>1. \A d \in Deployments, v \in Workloads : passwd'[d][v] \in {passwd[d][v], Absent}
      <4>1. CASE passwd' = passwd
          BY <4>1
      <4>2. CASE passwd' = [passwd EXCEPT ![booted][wl[p]] = Absent]
          BY <4>2, <2>w, <1>passwd, Rewritten
      <4> QED
          BY <4>1, <4>2, <2>1
    <3> QED
        BY <3>1, OwnerFacts DEF UidInv
  <2>4. \A q \in Procs \ {p} : pc[q] \in {"emit", "home", "subid"} => wl[q] # wl[p]
      BY <2>w, <1>lab DEF ExclusionInv, StoppedInv, StoppedOK, Targeted, GeneratorLabels,
          ProvisionLabels
  <2>5. \A q \in Procs : UidOK(q)'
    <3> SUFFICES ASSUME NEW q \in Procs PROVE UidOK(q)'
        OBVIOUS
    <3>1. CASE q = p
        BY <3>1, <2>1 DEF UidOK
    <3>2. CASE q # p
      <4>1. /\ pc'[q] = pc[q] /\ uid'[q] = uid[q] /\ wl'[q] = wl[q] /\ booted' = booted
            /\ conf' = conf /\ UidOK(q)
          BY <3>2, <2>1, <1>ok
      <4>2. pc[q] \in {"emit", "home", "subid"} => passwd'[booted][wl[q]] = passwd[booted][wl[q]]
          BY <3>2, <2>1, <2>4, <2>w, <1>tgt, <1>passwd, Zenon
      <4> QED
          BY <4>1, <4>2, <2>2, <1>tgt DEF UidOK
    <3> QED
        BY <3>1, <3>2
  <2> QED
      BY <2>2, <2>3, <2>5, UidFrame
<1>10. ASSUME NEW p \in Procs, Step(p), ~Lookup(p), ~ClaimUid(p), ~PinUid(p), ~EmitUnits(p),
              ~Sysusers(p), ~EnsureUser(p), ~SetupHome(p), ~RemoveRunFiles(p),
              ~DeleteUser(p), ~SweepUser(p)
       PROVE UidInv'
  <2>1. UNCHANGED <<booted, passwd, conf>>
      BY <1>10, Zenon DEF Step, NextWorkload, AcquireLock, Preflight, Hooks, CheckUnits,
          ConfigureSubid, Provision, StartService, StopUnits, RemoveMarker, RemoveSubid,
          RemoveTree, Scan, SweepSubid, SweepDir, Exit, etc, run, count, bound
  <2>2. /\ \A q \in Procs \ {p} : pc'[q] \in {pc[q], "exit"}
        /\ pc'[p] \notin {"pin", "emit", "home", "subid"}
      BY <1>10, <1>pc, Zenon DEF Step, NextWorkload, AcquireLock, Preflight, Hooks, CheckUnits,
          ConfigureSubid, Provision, StartService, StopUnits, RemoveMarker, RemoveSubid,
          RemoveTree, Scan, SweepSubid, SweepDir, Exit, Finish, Goto, At
  <2> QED
      BY <1>10, <2>1, <2>2, Others, UidQuiet, Zenon
<1>11. ASSUME NEW p \in Procs, Start(p) \/ Kill(p) PROVE UidInv'
  <2>1. UNCHANGED <<booted, passwd, conf>>
      BY <1>11, Zenon DEF Start, StartEnable, StartRegen, StartSetup, StartDisable, StartCleanup,
          Kill, CountCommand, etc, run, count, bound
  <2>2. /\ \A q \in Procs \ {p} : pc'[q] = pc[q] /\ uid'[q] = uid[q] /\ wl'[q] = wl[q]
        /\ pc'[p] \notin {"pin", "emit", "home", "subid"}
    <3>1. PICK l \in {"preflight", "lookup", "sysusers", "stop", "scan", "idle"},
               w \in Workloads \cup {NoWorkload} :
              /\ pc' = [pc EXCEPT ![p] = l] /\ wl' = [wl EXCEPT ![p] = w]
              /\ uid' \in {uid, [uid EXCEPT ![p] = Absent]}
        BY <1>11, Turnover
    <3>2. \A q \in Procs \ {p} : pc'[q] = pc[q] /\ wl'[q] = wl[q]
        BY <3>1, <1>pc, <1>wl
    <3>3. \A q \in Procs \ {p} : uid'[q] = uid[q]
        BY <3>1, <1>uid
    <3>4. pc'[p] = l
        BY <3>1, <1>pc
    <3> QED
        BY <3>2, <3>3, <3>4, Zenon
  <2> QED
      BY <2>1, <2>2, UidQuiet, Zenon
<1>12. ASSUME NEW p \in Procs, NEW d \in Deployments, Boot(p, d) PROVE UidInv'
  <2>1. passwd' \in {passwd, [passwd EXCEPT ![d] = passwd[booted]]} /\ booted' = d
      BY <1>12 DEF Boot, etc
  <2>2. \A e \in Deployments, v, w \in Workloads :
            v # w /\ passwd'[e][v] \in Uids => passwd'[e][v] # passwd'[e][w]
      BY <2>1, <1>passwd DEF UidInv
  <2>3. \A v \in Workloads : Held(v)' \subseteq {passwd'[d][v]} \cap Uids
      BY <1>12, <2>1, OwnerFacts DEF Boot, Held
  <2>4. UniqueUids'
      BY <2>2, <2>3 DEF UniqueUids
  <2>5. \A q \in Procs : UidOK(q)'
      BY <1>12 DEF Boot, UidOK
  <2> QED
      BY <2>2, <2>4, <2>5 DEF UidInv
<1>13. CASE UNCHANGED <<booted, passwd, conf, pc, uid, wl>>
    BY <1>13, UidQuiet
<1> QED
    BY <1>1, <1>2, <1>3, <1>4, <1>5, <1>6, <1>7, <1>8, <1>9, <1>10, <1>11, <1>12, <1>13, Zenon
       DEF Next, CreateConfig, RemoveConfig, BreakConfig, Work, Prune, CountCommand, vars, etc,
           run, local, count, bound

(* An entry is written with the UID of the passwd line and goes before it. *)
LEMMA SubidNext ==
    ASSUME TypeOK, ProcessInv, ExclusionInv, StoppedInv, UidInv, SubidInv, [Next]_vars
    PROVE  SubidInv'
<1>pc. pc \in [Procs -> Labels]
    BY DEF TypeOK
<1>cmd. cmd \in [Procs -> Commands]
    BY DEF TypeOK
<1>wl. wl \in [Procs -> Workloads \cup {NoWorkload}]
    BY DEF TypeOK
<1>passwd. passwd \in [Deployments -> [Workloads -> Owner]] /\ booted \in Deployments
    BY DEF TypeOK
<1>subid. subid \in [Deployments -> [Workloads -> Uids \cup {Absent}]]
    BY DEF TypeOK
<1>lab. \A q \in Procs :
            /\ pc[q] \in ProvisionLabels => cmd[q] \in {"enable", "setup"}
            /\ pc[q] \in {"subrm", "userdel"} => cmd[q] \in {"disable", "purge"}
            /\ pc[q] \in {"sweepsub", "sweepuser"} => cmd[q] = "cleanup"
            /\ cmd[q] = "none" => pc[q] = "idle"
    BY <1>cmd
       DEF ProcessInv, ProcessOK, LabelsOf, GeneratorLabels, ProvisionLabels, Commands
<1>tgt. \A q \in Procs : pc[q] \in {"userdel", "sweepuser"} => wl[q] \in Workloads
    BY <1>pc, Target
<1>1. ASSUME NEW p \in Procs, Sysusers(p) PROVE SubidInv'
  <2>w. wl[p] \in Workloads
      BY <1>1, <1>pc, Target DEF Sysusers, At
  <2>1. /\ UNCHANGED <<booted, subid, subidLeft, wl>>
        /\ \A q \in Procs : pc'[q] \in {"userdel", "sweepuser"} => pc'[q] = pc[q]
      BY <1>1, <1>pc DEF Sysusers, Goto, local, count, bound
  <2>2. \A d \in Deployments, w \in Workloads : passwd'[d][w] = passwd[d][w] \/ passwd[d][w] = Absent
    <3>1. CASE passwd' = passwd
        BY <3>1
    <3>2. CASE passwd' # passwd
      <4>1. PICK x : passwd' = [passwd EXCEPT ![booted][wl[p]] = IF @ = Absent THEN x ELSE @]
          BY <1>1, <3>2 DEF Sysusers
      <4>2. passwd' = [passwd EXCEPT ![booted][wl[p]] =
                          IF passwd[booted][wl[p]] = Absent THEN x ELSE passwd[booted][wl[p]]]
          BY <4>1, <1>passwd, <2>w
      <4> HIDE <4>1
      <4> QED
          BY <4>2, <2>w, <1>passwd, Rewritten
    <3> QED
        BY <3>1, <3>2
  <2> QED
      BY <2>1, <2>2 DEF SubidInv
<1>2. ASSUME NEW p \in Procs, ConfigureSubid(p) PROVE SubidInv'
  <2>w. wl[p] \in Workloads \ Vms /\ pc[p] = "subid"
      BY <1>2, <1>pc, Target DEF ConfigureSubid, At, ProcessInv, ProcessOK
  <2>1. /\ UNCHANGED <<booted, passwd, subidLeft, wl>>
        /\ \A q \in Procs : pc'[q] \in {"userdel", "sweepuser"} => pc'[q] = pc[q] /\ q # p
      BY <1>2, <1>pc DEF ConfigureSubid, Goto, local, count, bound, hist
  <2>2. \/ subid' = subid
        \/ subid' = [subid EXCEPT ![booted][wl[p]] = passwd[booted][wl[p]]]
    <3>1. uid[p] = passwd[booted][wl[p]]
        BY <2>w DEF UidInv, UidOK
    <3> QED
      <4>1. \/ subid' = subid
            \/ subid' = [subid EXCEPT ![booted][wl[p]] = IF @ = Absent THEN uid[p] ELSE @]
          BY <1>2 DEF ConfigureSubid
      <4>2. CASE subid[booted][wl[p]] = Absent
          BY <4>1, <4>2, <3>1
      <4>3. CASE subid[booted][wl[p]] # Absent
        <5>1. [subid EXCEPT ![booted][wl[p]] = subid[booted][wl[p]]] = subid
            BY <2>w, <1>subid, <1>passwd
        <5> QED
            BY <4>1, <4>3, <5>1
      <4> QED
          BY <4>2, <4>3
  <2>3. \A q \in Procs \ {p} : pc[q] \in {"userdel", "sweepuser"} => wl[q] # wl[p]
      BY <2>w, <1>lab DEF ExclusionInv, StoppedInv, StoppedOK, Targeted, ProvisionLabels
  <2>4. \A d \in Deployments, w \in Workloads :
            /\ subid'[d][w] \in {subid[d][w], passwd[d][w]}
            /\ w # wl[p] => subid'[d][w] = subid[d][w]
    <3>1. CASE subid' = subid
        BY <3>1
    <3>2. CASE subid' = [subid EXCEPT ![booted][wl[p]] = passwd[booted][wl[p]]]
      <4>1. /\ subid'[booted][wl[p]] = passwd[booted][wl[p]]
            /\ \A d \in Deployments, w \in Workloads :
                   ~(d = booted /\ w = wl[p]) => subid'[d][w] = subid[d][w]
        <5>1. wl[p] \in Workloads /\ booted \in Deployments
            BY <2>w, <1>passwd
        <5> QED
            BY ONLY <3>2, <5>1, <1>subid, Rewritten
      <4> QED
          BY <4>1
    <3> QED
        BY <3>1, <3>2, <2>2
  <2>5. ASSUME NEW q \in Procs, pc'[q] \in {"userdel", "sweepuser"}
        PROVE  subid'[booted][wl[q]] = subid[booted][wl[q]] /\ pc'[q] = pc[q]
    <3>1. q # p /\ pc'[q] = pc[q]
        BY <2>1, <2>5
    <3>2. wl[q] \in Workloads /\ wl[q] # wl[p]
        BY <3>1, <2>3, <2>5, <1>tgt
    <3> QED
        BY <3>1, <3>2, <2>4, <1>passwd
  <2>6. \A d \in Deployments, w \in Workloads :
            /\ subid'[d][w] \in {Absent, passwd'[d][w]} \/ w \in subidLeft'
            /\ w \in Vms => subid'[d][w] = Absent
    <3> SUFFICES ASSUME NEW d \in Deployments, NEW w \in Workloads
                 PROVE  /\ subid'[d][w] \in {Absent, passwd'[d][w]} \/ w \in subidLeft'
                        /\ w \in Vms => subid'[d][w] = Absent
        OBVIOUS
    <3>1. /\ subid[d][w] \in {Absent, passwd[d][w]} \/ w \in subidLeft
          /\ w \in Vms => subid[d][w] = Absent
        BY DEF SubidInv
    <3>2. /\ subid'[d][w] \in {subid[d][w], passwd[d][w]}
          /\ w \in Vms => subid'[d][w] = subid[d][w]
        BY <2>4, <2>w
    <3> QED
        BY <3>1, <3>2, <2>1
  <2> QED
      BY <2>1, <2>5, <2>6, Zenon DEF SubidInv
<1>3. ASSUME NEW p \in Procs, RemoveSubid(p) PROVE SubidInv'
  <2>w. wl[p] \in Workloads /\ pc[p] = "subrm"
      BY <1>3, <1>pc, Target, Zenon DEF RemoveSubid, At
  <2>1. /\ UNCHANGED <<booted, passwd, wl>>
        /\ \A q \in Procs : pc'[q] \in {"userdel", "sweepuser"} => pc'[q] = pc[q] \/ q = p
        /\ pc'[p] = "userdel" /\ subidLeft \subseteq subidLeft'
      BY <1>3, <1>pc DEF RemoveSubid, Goto, local, bound
  <2>2. \A d \in Deployments, w \in Workloads : subid'[d][w] \in {subid[d][w], Absent}
    <3>1. subid' = subid \/ subid' = [subid EXCEPT ![booted][wl[p]] = Absent]
        BY <1>3 DEF RemoveSubid, RemoveEntries
    <3>2. wl[p] \in Workloads /\ booted \in Deployments
        BY <2>w, <1>passwd
    <3>3. CASE subid' = [subid EXCEPT ![booted][wl[p]] = Absent]
        BY ONLY <3>2, <3>3, <1>subid, Rewritten
    <3> QED
        BY <3>1, <3>3
  <2>3. subid'[booted][wl[p]] = Absent \/ wl[p] \in subidLeft'
    <3>1. wl[p] \in subidLeft' \/ subid' = [subid EXCEPT ![booted][wl[p]] = Absent]
        BY <1>3 DEF RemoveSubid, RemoveEntries
    <3>2. wl[p] \in Workloads /\ booted \in Deployments
        BY <2>w, <1>passwd
    <3>3. CASE subid' = [subid EXCEPT ![booted][wl[p]] = Absent]
        BY ONLY <3>2, <3>3, <1>subid, Rewritten
    <3> QED
        BY <3>1, <3>3
  <2>4. ASSUME NEW q \in Procs, q # p, pc'[q] \in {"userdel", "sweepuser"}
        PROVE  /\ pc'[q] = pc[q] /\ wl'[q] = wl[q] /\ wl[q] \in Workloads
               /\ subid'[booted][wl[q]] \in {subid[booted][wl[q]], Absent}
      BY <2>1, <2>2, <2>4, <1>tgt, <1>passwd, Zenon
  <2>5. \A d \in Deployments, w \in Workloads :
            /\ subid'[d][w] \in {Absent, passwd'[d][w]} \/ w \in subidLeft'
            /\ w \in Vms => subid'[d][w] = Absent
    <3> SUFFICES ASSUME NEW d \in Deployments, NEW w \in Workloads
                 PROVE  /\ subid'[d][w] \in {Absent, passwd'[d][w]} \/ w \in subidLeft'
                        /\ w \in Vms => subid'[d][w] = Absent
        BY Zenon
    <3>1. /\ subid[d][w] \in {Absent, passwd[d][w]} \/ w \in subidLeft
          /\ w \in Vms => subid[d][w] = Absent
        BY Zenon DEF SubidInv
    <3>2. subid'[d][w] \in {subid[d][w], Absent} /\ passwd' = passwd /\ subidLeft \subseteq subidLeft'
        BY <2>1, <2>2
    <3> QED
        BY <3>1, <3>2, Zenon
  <2> QED
      BY <2>1, <2>3, <2>4, <2>5 DEF SubidInv
<1>4. ASSUME NEW p \in Procs, SweepSubid(p) PROVE SubidInv'
  <2>1. /\ UNCHANGED <<booted, passwd, subidLeft>>
        /\ \A q \in Procs \ {p} : wl'[q] = wl[q] /\ pc'[q] = pc[q]
        /\ pc'[p] # "userdel"
      BY <1>4, <1>pc, <1>wl DEF SweepSubid, Goto, hist, count, bound
  <2>2. \A d \in Deployments, w \in Workloads : subid'[d][w] \in {subid[d][w], Absent}
      BY <1>4, <1>subid, <1>passwd DEF SweepSubid, RemoveEntries
  <2>3. pc'[p] = "sweepuser" => subid'[booted][wl'[p]] = Absent
    <3>1. todo[p] \subseteq Workloads
        BY DEF TypeOK
    <3> QED
        BY <1>4, <3>1, <1>pc, <1>wl, <1>subid, <1>passwd DEF SweepSubid, RemoveEntries, Goto
  <2> QED
    <3>1. \A d \in Deployments, w \in Workloads :
              /\ subid'[d][w] \in {Absent, passwd'[d][w]} \/ w \in subidLeft'
              /\ w \in Vms => subid'[d][w] = Absent
        BY <2>1, <2>2, Zenon DEF SubidInv
    <3>2. ASSUME NEW q \in Procs \ {p}
          PROVE  /\ pc'[q] = "userdel" => subid'[booted'][wl'[q]] = Absent \/ wl'[q] \in subidLeft'
                 /\ pc'[q] = "sweepuser" => subid'[booted'][wl'[q]] = Absent
      <4>1. pc'[q] = pc[q] /\ wl'[q] = wl[q] /\ booted' = booted /\ subidLeft' = subidLeft
          BY <2>1, <3>2
      <4>2. pc[q] \in {"userdel", "sweepuser"}
                => subid'[booted][wl[q]] \in {subid[booted][wl[q]], Absent}
          BY <2>2, <1>tgt, <1>passwd, <3>2
      <4> QED
          BY <4>1, <4>2, <3>2 DEF SubidInv
    <3> QED
        BY <2>1, <2>3, <3>1, <3>2, Zenon DEF SubidInv
<1>5. ASSUME NEW p \in Procs, DeleteUser(p) \/ SweepUser(p) PROVE SubidInv'
  <2>w. wl[p] \in Workloads /\ pc[p] \in {"userdel", "sweepuser"}
      BY <1>5, <1>pc, Target DEF DeleteUser, SweepUser, At
  <2>1. /\ UNCHANGED <<booted, subid, subidLeft, wl>>
        /\ \A q \in Procs : pc'[q] \in {"userdel", "sweepuser"} => pc'[q] = pc[q]
      BY <1>5, <1>pc DEF DeleteUser, SweepUser, Goto, local, bound, hist
  <2>2. \A d \in Deployments, w \in Workloads :
            \/ passwd'[d][w] = passwd[d][w]
            \/ d = booted /\ w = wl[p] /\ passwd'[d][w] = Absent
    <3>1. passwd' \in {passwd, [passwd EXCEPT ![booted][wl[p]] = Absent]}
        BY <1>5 DEF DeleteUser, SweepUser
    <3> QED
        BY <3>1, <2>w, <1>passwd
  <2>3. subid[booted][wl[p]] = Absent \/ wl[p] \in subidLeft
      BY <2>w DEF SubidInv
  <2> QED
      BY <2>1, <2>2, <2>3 DEF SubidInv
<1>6. ASSUME NEW p \in Procs, Step(p) \/ Start(p) \/ Kill(p), ~Sysusers(p), ~ConfigureSubid(p),
             ~RemoveSubid(p), ~SweepSubid(p), ~DeleteUser(p), ~SweepUser(p)
      PROVE  SubidInv'
  <2>1. UNCHANGED <<booted, passwd, subid, subidLeft>>
      BY <1>6, Zenon DEF Step, NextWorkload, Lookup, AcquireLock, ClaimUid, PinUid, EmitUnits,
          Preflight, Hooks, CheckUnits, EnsureUser, SetupHome, Provision, StartService,
          StopUnits, RemoveMarker, RemoveRunFiles, RemoveTree, Scan, SweepDir, Exit, Start,
          StartEnable, StartRegen, StartSetup, StartDisable, StartCleanup, Kill,
          CountCommand, etc, count, bound, hist
  <2>2. \A q \in Procs : pc'[q] \in {"userdel", "sweepuser"} =>
            wl'[q] = wl[q] /\ (pc'[q] = pc[q] \/ wl[q] \in Vms)
    <3>1. CASE RemoveRunFiles(p)
        BY <3>1, <1>pc, Zenon DEF RemoveRunFiles, Goto, local
    <3>2. CASE Step(p) /\ ~RemoveRunFiles(p)
      <4>1. \A q \in Procs : pc'[q] \in {"userdel", "sweepuser"} => pc'[q] = pc[q] /\ q # p
          BY <1>6, <3>2, <1>pc, Zenon
             DEF Step, NextWorkload, Lookup, AcquireLock, ClaimUid, PinUid,
              EmitUnits, Preflight, Hooks, CheckUnits, EnsureUser, SetupHome, Provision,
              StartService, StopUnits, RemoveMarker, RemoveTree, Scan, SweepDir, Exit,
              Finish, Goto, At, Generated
      <4> QED
          BY <3>2, <4>1, Others, Zenon
    <3>3. CASE Start(p) \/ Kill(p)
        BY <3>3, <1>pc, <1>wl, Turnover
    <3> QED
        BY <1>6, <3>1, <3>2, <3>3
  <2> QED
      BY <2>1, <2>2, <1>passwd, NamesAssumption, Zenon DEF SubidInv
<1>7. ASSUME NEW p \in Procs, NEW d \in Deployments, Boot(p, d) PROVE SubidInv'
  <2>1. \/ UNCHANGED <<passwd, subid>>
        \/ /\ passwd' = [passwd EXCEPT ![d] = passwd[booted]]
           /\ subid' = [subid EXCEPT ![d] = subid[booted]]
      BY <1>7 DEF Boot, etc
  <2>2. \A q \in Procs : pc'[q] \in {"next", "idle"}
      BY <1>7 DEF Boot
  <2>3. \A e \in Deployments, w \in Workloads : \E b \in Deployments :
            passwd'[e][w] = passwd[b][w] /\ subid'[e][w] = subid[b][w]
      BY <2>1, <1>passwd, <1>subid, Zenon
  <2>4. UNCHANGED subidLeft
      BY <1>7 DEF Boot, hist
  <2>5. \A e \in Deployments, w \in Workloads :
            /\ subid'[e][w] \in {Absent, passwd'[e][w]} \/ w \in subidLeft'
            /\ w \in Vms => subid'[e][w] = Absent
    <3> SUFFICES ASSUME NEW e \in Deployments, NEW w \in Workloads
                 PROVE  /\ subid'[e][w] \in {Absent, passwd'[e][w]} \/ w \in subidLeft'
                        /\ w \in Vms => subid'[e][w] = Absent
        OBVIOUS
    <3>1. PICK b \in Deployments : passwd'[e][w] = passwd[b][w] /\ subid'[e][w] = subid[b][w]
        BY <2>3
    <3>2. /\ subid[b][w] \in {Absent, passwd[b][w]} \/ w \in subidLeft
          /\ w \in Vms => subid[b][w] = Absent
        BY DEF SubidInv
    <3> QED
        BY <3>1, <3>2, <2>4, Zenon
  <2> QED
      BY <2>2, <2>5, Zenon DEF SubidInv
<1>8. CASE UNCHANGED <<booted, passwd, subid, subidLeft, pc, wl>>
    BY <1>8 DEF SubidInv
<1> QED
    BY <1>1, <1>2, <1>3, <1>4, <1>5, <1>6, <1>7, <1>8, Zenon
       DEF Next, CreateConfig, RemoveConfig, BreakConfig, Work, Prune, CountCommand, vars, etc,
           local, count, bound, hist

-----------------------------------------------------------------------------
(* Theorems *)

(* IInv is an inductive invariant of the exclusive system. *)
THEOREM Invariant ==
    ASSUME Exclusive
    PROVE  Spec => []IInv
<1>1. Init => IInv
  <2> SUFFICES ASSUME Init PROVE IInv
      OBVIOUS
  <2>1. TypeOK
      BY TypeInit
  <2>2. ProcessInv
      BY NamesAssumption
         DEF Init, ProcessInv, ProcessOK, LabelsOf, TargetLabels, LockedLabels
  <2>3. ExclusionInv /\ StoppedInv
      BY DEF Init, ExclusionInv, StoppedInv, StoppedOK, Targeted
  <2>4. UidInv
      BY NamesAssumption, OwnerFacts DEF Init, UidInv, UniqueUids, Held, UidOK
  <2>5. SubidInv
      BY NamesAssumption DEF Init, SubidInv
  <2> QED
      BY <2>1, <2>2, <2>3, <2>4, <2>5 DEF IInv
<1>2. IInv /\ [Next]_vars => IInv'
  <2> SUFFICES ASSUME IInv, [Next]_vars PROVE IInv'
      OBVIOUS
  <2> QED
      BY TypeNext, ProcessNext, ExclusionNext, StoppedNext, UidNext, SubidNext DEF IInv
<1> QED
    BY <1>1, <1>2, PTL DEF Spec

(* No two workloads hold the same UID, whatever is killed, fails, reboots or *)
(* is rolled back: resolve_uid's claim-and-pin under SUBID_LOCK suffices as  *)
(* long as commands on one workload do not overlap.                          *)
THEOREM UidsStayUnique ==
    ASSUME Exclusive
    PROVE  Spec => []UniqueUids
<1>1. IInv => UniqueUids
    BY DEF IInv, UidInv
<1> QED
    BY <1>1, Invariant, PTL

(* No two users' subuid/subgid entries derive from one UID, on any deployment, *)
(* unless a purge failed to remove an entry (remove_subid_entries).            *)
THEOREM SubidRangesStayDisjoint ==
    ASSUME Exclusive
    PROVE  Spec => []SubidRangesDisjoint
<1>1. IInv => SubidRangesDisjoint
  <2> SUFFICES ASSUME IInv, NEW d \in deployed, NEW v \in Workloads, NEW w \in Workloads,
                      v # w, subid[d][v] # Absent, subid[d][v] = subid[d][w]
               PROVE  {v, w} \cap subidLeft # {}
      BY DEF SubidRangesDisjoint
  <2>1. d \in Deployments /\ subid[d][v] \in Uids
      BY DEF IInv, TypeOK
  <2>2. v \in subidLeft \/ subid[d][v] = passwd[d][v]
      BY <2>1, Zenon DEF IInv, SubidInv
  <2>3. w \in subidLeft \/ subid[d][w] = passwd[d][w]
      BY <2>1 DEF IInv, SubidInv
  <2>4. passwd[d][v] \in Uids => passwd[d][v] # passwd[d][w]
      BY <2>1 DEF IInv, UidInv
  <2> QED
      BY <2>1, <2>2, <2>3, <2>4
<1> QED
    BY <1>1, Invariant, PTL
=============================================================================
