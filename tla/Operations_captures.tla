------------------------- MODULE Operations_captures -------------------------
(***************************************************************************)
(* The types and the inductive invariant of Operations, and what the units *)
(* and the captures do to it.                                              *)
(***************************************************************************)
EXTENDS Operations, TLAPS

-----------------------------------------------------------------------------
(* The types, in full.                                                       *)

Units == {"inactive", "activating", "active", "stopping", "ending"}
Clients == {"free", "notify", "shutdown", "backup"}
Skews == {0, -60, -3600}

VmTypes ==
    /\ unit \in [Workloads -> Units]
    /\ guest \in [Workloads -> {"off", "running", "paused"}]
    /\ monitor \in [Workloads -> Clients]
    /\ tap \in [Workloads -> BOOLEAN]
    /\ skew \in [Workloads -> Skews]
    /\ data \in [Workloads -> Nat]
    /\ boots \in [Workloads -> Nat]
    /\ left \in Allowances

Chains == {"pcap_output", "pcap_input"}
NftCalls == [verb : {"add_chain", "add_rule"}, chain : Chains]
CapturePcs == Running \cup Unwinding \cup {"idle", "object"}
CaptureUnits ==
    [pc : CapturePcs, id : Nat, vantages : SUBSET VANTAGES, todo : Seq(NftCalls),
     object : BOOLEAN, reader : BOOLEAN, chain : 1..2, post : BOOLEAN]

CaptureTypes ==
    /\ cap \in [Workloads -> CaptureUnits]
    /\ chains \subseteq Chains
    /\ rules \subseteq Workloads \X chains
    /\ captures \in Nat
    /\ stage \in [VMs -> Nat]
    /\ \A w \in Workloads : cap[w].id <= captures
    /\ \A v \in VMs : stage[v] <= captures

Restoring == {"halted", "config", "guard", "tree"}
OpPcs == Restoring \cup {"idle", "probe", "connect", "pause", "check", "stopped", "copy",
                         "copy_on", "tar", "finally", "resync", "started"}
Asked == {"none", "crash", "cold", "unsettled", "raced"}
Ops == [pc : OpPcs, workload : Workloads, noStop : BOOLEAN, wasActive : BOOLEAN, boots : Nat,
        asked : Asked, first : Int, second : Int, under : BOOLEAN, force : BOOLEAN,
        warned : BOOLEAN]
Archives == [first : Int, second : Int, under : BOOLEAN, asked : Asked]

BackupTypes ==
    /\ op \in Ops
    /\ archive \in [Workloads -> Archives]
    /\ mount \in [Workloads -> Mounts]
    /\ elsewhere \in [Workloads -> BOOLEAN]
    /\ present \in [Workloads -> BOOLEAN]

Types == VmTypes /\ CaptureTypes /\ BackupTypes

-----------------------------------------------------------------------------
(* The inductive invariant.                                                  *)

(* A payload runs exactly under a unit that is not inactive, its monitor and   *)
(* the object in it go with it, and the supervisor has the monitor until the   *)
(* unit is up.                                                                 *)
UnitInv ==
    \A w \in Workloads :
       /\ guest[w] = "off" <=> unit[w] = "inactive"
       /\ guest[w] = "off" => ~tap[w] /\ monitor[w] = "free"
       /\ w \in VMs /\ unit[w] = "activating" => monitor[w] = "notify"

(* A capture that is still to come to a chain in its cleanup.                  *)
Clears(w, i) ==
    /\ cap[w].pc \notin {"idle", "object"}
    /\ cap[w].post => i >= cap[w].chain

(* Every rule is its capture's to delete, and every chain some capture's to    *)
(* drop: the one that leaves a chain because of another's rule leaves it to a  *)
(* capture that has not come to it.                                            *)
CleanInv ==
    /\ \A w \in Workloads :
          /\ cap[w].post => cap[w].pc \in {"delete", "relist", "drop", "object"}
          /\ cap[w].pc = "object" => cap[w].post
          /\ cap[w].pc \in {"relist", "drop"} => <<w, PCAP_CHAINS[cap[w].chain]>> \notin rules
          /\ \A i \in 1..2 : <<w, PCAP_CHAINS[i]>> \in rules => Clears(w, i)
    /\ \A i \in 1..2 : PCAP_CHAINS[i] \in chains => \E w \in Workloads : Clears(w, i)

(* A capture that knows its tap delivers the file before it goes on.           *)
StageInv ==
    \A v \in VMs :
       cap[v].object /\ ~cap[v].post /\ cap[v].pc \in {"terminate", "delete", "relist", "drop"}
           => stage[v] = 0

(* The workload has not been started since the backup looked.                  *)
SameBoot == boots[op.workload] = op.boots

(* What the archive is to be holds the workload still.                         *)
Still == op.asked = "cold" \/ (op.workload \in VMs /\ op.asked = "crash")

(* How far a backup has come, and what it knows there of the workload.         *)
BackupInv ==
    LET w == op.workload
    IN  /\ op.boots <= boots[w]
        /\ op.pc \in {"probe", "connect", "pause"} => op.noStop /\ w \in VMs
        /\ op.pc \in Restoring \cup {"idle", "probe", "connect", "pause", "check"} => ~op.wasActive
        /\ op.asked = "cold" => ~op.noStop
        /\ op.pc = "resync" => op.noStop
        /\ op.pc \in {"stopped", "copy", "copy_on", "tar", "finally"} /\ op.wasActive
              /\ ~op.noStop /\ SameBoot => unit[w] \notin {"activating", "active"}
        /\ op.pc = "started" => ~SameBoot
        /\ op.pc = "resync" /\ monitor[w] = "backup" => guest[w] # "paused" \/ op.warned

(* Nothing writes to the tree between the two halves of a copy.                *)
CopyInv ==
    LET w == op.workload
    IN  /\ op.pc = "check" /\ Resumes /\ SameBoot => guest[w] # "running"
        /\ op.pc \in {"copy", "copy_on", "tar"} /\ Still /\ SameBoot => guest[w] # "running"
        /\ op.pc = "stopped" => ~op.noStop
        /\ op.pc = "copy_on" /\ Still /\ SameBoot => op.first = data[w]
        /\ op.pc = "tar" /\ Still /\ SameBoot => op.first = op.second
        /\ op.pc \in {"copy_on", "tar"} => op.first \in Nat

(* What a restore has found out before it touches the tree.                    *)
RestoreInv ==
    LET w == op.workload
    IN  /\ \A x \in Workloads : archive[x] # NoArchive => archive[x].first \in Nat
        /\ op.pc \in Restoring => archive[w] # NoArchive
        /\ op.pc = "tree" => ~MountsUnder(w) /\ (op.force => ~DataDirIsMount(w))

OperationsInv ==
    /\ Types /\ UnitInv
    /\ CleanInv /\ StageInv
    /\ BackupInv /\ CopyInv /\ RestoreInv
    /\ ArchiveIsConsistent /\ MountsSurvive

-----------------------------------------------------------------------------
(* The constants of the model.                                               *)

\* What the proofs need of counting.
LEMMA Counts ==
    /\ \A n \in Nat : n <= n /\ 0 <= n
    /\ \A m, n \in Nat : m <= n => m <= n + 1 /\ m # n + 1
    /\ \A m, n \in Nat : m <= n /\ m # n => n > m
OBVIOUS

\* The two chains of the captures, by number and by name.
LEMMA ChainNames ==
    /\ Len(PCAP_CHAINS) = 2
    /\ \A i \in 1..2 : PCAP_CHAINS[i] \in Chains
    /\ \A c \in Chains : \E i \in 1..2 : c = PCAP_CHAINS[i]
    /\ \A i, j \in 1..2 : PCAP_CHAINS[i] = PCAP_CHAINS[j] => i = j
BY DEF PCAP_CHAINS, Chains

\* The nft calls of a capture (pcap_rule_commands) each name one of the chains.
LEMMA CallsTyped ==
    ASSUME NEW direction \in {"out", "inout"}
    PROVE  PcapRuleCommands(direction) \in Seq(NftCalls)
<1>1. CASE direction = "out"
  <2>1. DirectionChains(direction) = <<"pcap_output">>
    BY <1>1 DEF DirectionChains, PCAP_CHAINS
  <2>2. Len(DirectionChains(direction)) = 1 /\ DirectionChains(direction)[1] = "pcap_output"
    BY <2>1
  <2>3. \A i \in 1..2 : (i + 1) \div 2 = 1
    OBVIOUS
  <2>4. PcapRuleCommands(direction)
            = [i \in 1..2 |-> [verb |-> IF i % 2 = 1 THEN "add_chain" ELSE "add_rule",
                               chain |-> DirectionChains(direction)[(i + 1) \div 2]]]
    BY <2>2 DEF PcapRuleCommands
  <2>5. \A i \in 1..2 : [verb |-> IF i % 2 = 1 THEN "add_chain" ELSE "add_rule",
                         chain |-> DirectionChains(direction)[(i + 1) \div 2]] \in NftCalls
    <3>1. \A i \in 1..2 : DirectionChains(direction)[(i + 1) \div 2] \in Chains
      BY <2>2, <2>3 DEF Chains
    <3>. QED  BY <3>1 DEF NftCalls
  <2>6. PcapRuleCommands(direction) \in [1..2 -> NftCalls]
    BY <2>4, <2>5
  <2>7. Seq(NftCalls) = UNION {[1..n -> NftCalls] : n \in Nat}
    OBVIOUS
  <2>. QED  BY <2>6, <2>7, Zenon
<1>2. CASE direction = "inout"
  <2>1. DirectionChains(direction) = <<"pcap_output", "pcap_input">>
    BY <1>2 DEF DirectionChains, PCAP_CHAINS
  <2>2. /\ Len(DirectionChains(direction)) = 2
        /\ \A k \in 1..2 : DirectionChains(direction)[k] \in Chains
    BY <2>1 DEF Chains
  <2>3. \A i \in 1..4 : (i + 1) \div 2 \in 1..2
    OBVIOUS
  <2>4. PcapRuleCommands(direction)
            = [i \in 1..4 |-> [verb |-> IF i % 2 = 1 THEN "add_chain" ELSE "add_rule",
                               chain |-> DirectionChains(direction)[(i + 1) \div 2]]]
    BY <2>2 DEF PcapRuleCommands
  <2>5. \A i \in 1..4 : [verb |-> IF i % 2 = 1 THEN "add_chain" ELSE "add_rule",
                         chain |-> DirectionChains(direction)[(i + 1) \div 2]] \in NftCalls
    <3>1. \A i \in 1..4 : DirectionChains(direction)[(i + 1) \div 2] \in Chains
      BY <2>2, <2>3
    <3>. QED  BY <3>1 DEF NftCalls
  <2>6. PcapRuleCommands(direction) \in [1..4 -> NftCalls]
    BY <2>4, <2>5
  <2>7. Seq(NftCalls) = UNION {[1..n -> NftCalls] : n \in Nat}
    OBVIOUS
  <2>. QED  BY <2>6, <2>7, Zenon
<1>. QED  BY <1>1, <1>2

\* The budget is of the same shape after something was spent, and not the same.
LEMMA SpendTyped ==
    ASSUME left \in Allowances,
           NEW what \in {"commands", "captures", "archives", "mounts", "writes", "faults",
                         "kills"},
           Spend(what)
    PROVE  left' \in Allowances /\ left' # left
<1>1. left[what] \in Nat /\ left[what] - 1 \in Nat /\ left[what] - 1 # left[what]
  BY DEF Spend, Allowances
<1>2. left' = [left EXCEPT ![what] = left[what] - 1]
  BY DEF Spend
<1>3. left'[what] = left[what] - 1
  BY <1>2 DEF Allowances
<1>. QED  BY <1>1, <1>2, <1>3 DEF Allowances

\* No operation is at work on a workload of the model.
LEMMA NoOpTyped == NoOp \in Ops
<1>1. \E w \in Workloads : TRUE
  BY VmAssumption
<1>2. (CHOOSE w \in Workloads : TRUE) \in Workloads
  BY <1>1
<1>. QED  BY <1>2 DEF NoOp, Ops, OpPcs, Restoring, Asked

\* A capture unit that is not there, and the archive that is not, have their type.
LEMMA NothingTyped == Idle \in CaptureUnits /\ NoArchive \in Archives
BY DEF Idle, CaptureUnits, CapturePcs, NoArchive, Archives, Asked

\* The program starts in a state of these types.
LEMMA InitTypes == Init => Types
<1>. SUFFICES ASSUME Init PROVE Types
  OBVIOUS
<1>1. VmTypes
  BY BudgetsAssumption DEF Init, VmInit, VmTypes, Units, Clients, Skews
<1>2. CaptureTypes
  <2>1. cap \in [Workloads -> CaptureUnits] /\ \A w \in Workloads : cap[w].id = 0
    BY NothingTyped DEF Init, CaptureInit, Idle
  <2>. QED  BY <2>1 DEF Init, CaptureInit, CaptureTypes
<1>3. BackupTypes
  BY NoOpTyped, NothingTyped DEF Init, BackupInit, BackupTypes, Mounts
<1>. QED  BY <1>1, <1>2, <1>3 DEF Types

-----------------------------------------------------------------------------
(* The units.                                                                *)

\* The payload is gone and the unit inactive.
LEMMA ExitTyped ==
    ASSUME VmTypes, UnitInv, NEW w \in Workloads, QemuExit(w),
           unit' = [unit EXCEPT ![w] = "inactive"], UNCHANGED <<data, boots>>, left' \in Allowances
    PROVE  VmTypes' /\ UnitInv'
<1>1. VmTypes'
  BY DEF VmTypes, QemuExit, Units, Clients, Skews
<1>2. UnitInv'
  BY DEF VmTypes, QemuExit, Units, Clients, UnitInv
<1>. QED  BY <1>1, <1>2

\* A payload that is started is under a unit that is starting.
LEMMA SuperviseTyped ==
    ASSUME VmTypes, UnitInv, NEW w \in Workloads, Supervise(w), UNCHANGED data,
           left' \in Allowances
    PROVE  VmTypes' /\ UnitInv'
<1>1. unit' \in [Workloads -> Units] /\ guest' \in [Workloads -> {"off", "running", "paused"}]
  BY DEF VmTypes, Supervise, Units
<1>2. monitor' \in [Workloads -> Clients]
  BY DEF VmTypes, Supervise, Clients
<1>3. tap' \in [Workloads -> BOOLEAN] /\ skew' \in [Workloads -> Skews]
  BY DEF VmTypes, Supervise, Skews
<1>4. boots' \in [Workloads -> Nat]
  BY DEF VmTypes, Supervise
<1>5. UnitInv'
  BY DEF VmTypes, Supervise, UnitInv
<1>. QED  BY <1>1, <1>2, <1>3, <1>4, <1>5 DEF VmTypes

\* A stop job leaves a unit inactive that was, and no other.
LEMMA StopStateTyped ==
    ASSUME VmTypes, NEW w \in Workloads
    PROVE  /\ StopState(w) \in {"inactive", "stopping", "ending"}
           /\ StopState(w) = "inactive" <=> unit[w] = "inactive"
           /\ unit[w] = "stopping" => StopState(w) = "stopping"
BY DEF VmTypes, Units, StopState

\* A stop job changes nothing but the unit.
LEMMA StopTyped ==
    ASSUME VmTypes, UnitInv, NEW w \in Workloads,
           unit' = [unit EXCEPT ![w] = StopState(w)],
           UNCHANGED <<guest, monitor, tap, skew, data, boots>>, left' \in Allowances
    PROVE  VmTypes' /\ UnitInv'
<1>1. VmTypes'
  BY StopStateTyped DEF VmTypes, Units
<1>2. UnitInv'
  BY StopStateTyped DEF VmTypes, UnitInv
<1>. QED  BY <1>1, <1>2

\* The time a pause costs a guest is a skew of its clock.
LEMMA LostTyped ==
    ASSUME NEW lost \in {60, 3600}
    PROVE  -lost \in Skews
BY DEF Skews

\* Giving one guest an offset keeps the offsets in their type.
LEMMA SkewTyped ==
    ASSUME skew \in [Workloads -> Skews], NEW w, NEW s \in Skews
    PROVE  [skew EXCEPT ![w] = s] \in [Workloads -> Skews]
BY Zenon

\* The clock keeper leaves an offset as it is, or sets it right.
LEMMA ClockTyped ==
    ASSUME VmTypes, NEW w \in Workloads, NEW t \in Nat
    PROVE  KeepGuestClock(w, t) \in Skews
BY DEF VmTypes, KeepGuestClock, Skews

\* The units' own steps keep the types and what ties a unit to its payload.
LEMMA UnitsTyped ==
    ASSUME VmTypes, UnitInv, VmNext
    PROVE  VmTypes' /\ UnitInv'
<1>1. CASE Suspend
  <2>1. left' \in Allowances
    BY <1>1, SpendTyped DEF Suspend, VmTypes
  <2>2. skew' \in [Workloads -> Skews]
    BY <1>1 DEF Suspend, VmTypes, Skews
  <2>. QED  BY <1>1, <2>1, <2>2 DEF Suspend, VmTypes, UnitInv
<1>2. CASE ~Suspend
  <2>1. PICK w \in left.on :
               \/ UnitStep(w) \/ Start(w) \/ Stop(w) \/ ReadyTimeout(w)
               \/ \E failed \in BOOLEAN : Exits(w, failed)
               \/ Write(w)
               \/ w \in VMs /\ Tick(w)
    BY <1>2 DEF VmNext
  <2>2. w \in Workloads /\ left \in Allowances
    BY DEF VmTypes, Allowances
  <2>3. CASE Ready(w)
    BY <2>2, <2>3 DEF Ready, VmTypes, UnitInv, Units, Clients
  <2>4. CASE Ends(w)
    BY <2>2, <2>4, ExitTyped, Zenon DEF Ends
  <2>5. CASE w \in VMs /\ Shutdown(w)
    BY <2>2, <2>5 DEF Shutdown, Reachable, VmTypes, UnitInv, Clients
  <2>6. CASE w \in VMs /\ PowersOff(w)
    BY <2>2, <2>6, ExitTyped, Zenon DEF PowersOff
  <2>7. CASE w \in VMs /\ IgnoresPowerdown(w)
    <3>1. left' \in Allowances
      BY <2>2, <2>7, SpendTyped DEF IgnoresPowerdown
    <3>. QED  BY <2>2, <2>7, <3>1 DEF IgnoresPowerdown, VmTypes, UnitInv, Units, Clients
  <2>8. CASE w \in VMs /\ ShutdownFails(w)
    BY <2>2, <2>8 DEF ShutdownFails, VmTypes, UnitInv, Units
  <2>9. CASE Start(w)
    BY <2>2, <2>9, SpendTyped, SuperviseTyped DEF Start
  <2>10. CASE Stop(w)
    BY <2>2, <2>10, SpendTyped, StopTyped, Zenon DEF Stop
  <2>11. CASE ReadyTimeout(w)
    <3>1. left' \in Allowances
      BY <2>2, <2>11, SpendTyped DEF ReadyTimeout
    <3>. QED  BY <2>2, <2>11, <3>1 DEF ReadyTimeout, VmTypes, UnitInv, Units
  <2>12. CASE \E failed \in BOOLEAN : Exits(w, failed)
    <3>1. PICK failed \in BOOLEAN : Exits(w, failed)
      BY <2>12
    <3>2. left' \in Allowances
      BY <2>2, <3>1, SpendTyped DEF Exits
    <3>3. CASE failed
      BY <2>2, <3>1, <3>2, <3>3, SuperviseTyped DEF Exits
    <3>4. CASE ~failed
      BY <2>2, <3>1, <3>2, <3>4, ExitTyped DEF Exits
    <3>. QED  BY <3>3, <3>4
  <2>13. CASE Write(w)
    <3>1. left' \in Allowances
      BY <2>2, <2>13, SpendTyped DEF Write
    <3>. QED  BY <2>2, <2>13, <3>1 DEF Write, VmTypes, UnitInv
  <2>14. CASE w \in VMs /\ Tick(w)
    <3>1. KeepGuestClock(w, CLOCK_SKEW_THRESHOLD_SECONDS) \in Skews
      BY <2>2, ClockTyped DEF CLOCK_SKEW_THRESHOLD_SECONDS
    <3>. QED  BY <2>2, <2>14, <3>1 DEF Tick, VmTypes, UnitInv
  <2>. QED  BY <2>1, <2>3, <2>4, <2>5, <2>6, <2>7, <2>8, <2>9, <2>10, <2>11, <2>12, <2>13,
               <2>14 DEF UnitStep
<1>. QED  BY <1>1, <1>2

-----------------------------------------------------------------------------
(* The captures.                                                             *)

\* A step of a capture leaves the units, the payloads and their data alone.
LEMMA CaptureFrame == CaptureNext => UNCHANGED <<unit, guest, monitor, skew, data, boots>>
<1>. DEFINE Frame == UNCHANGED <<unit, guest, monitor, skew, data, boots>>
<1>. SUFFICES ASSUME NEW w \in left.on,
                     \/ \E vantages \in left.vantages, direction \in {"out", "inout"} :
                           StartCapture(w, vantages, direction)
                     \/ CaptureStep(w)
                     \/ ReaderExits(w) \/ Terminate(w) \/ Killed(w)
              PROVE  Frame
  BY DEF CaptureNext
<1>1. (\E vantages \in left.vantages, direction \in {"out", "inout"} :
          StartCapture(w, vantages, direction)) => Frame
  BY Zenon DEF StartCapture, vmVars
<1>2. HostUp(w) \/ Readers(w) => Frame
  BY DEF HostUp, Readers, vmVars
<1>3. GuestVmUp(w) \/ GuestVmUpFails(w) \/ GuestCheck(w) \/ GuestVmDown(w) \/ FinalizeGuest(w)
         => Frame
  BY DEF GuestVmUp, GuestVmUpFails, GuestCheck, GuestVmDown, FinalizeGuest, ObjectDel, vmVars
<1>4. TerminateReaders(w) \/ HostDelete(w) \/ HostRelist(w) \/ HostDrop(w) \/ CleanupObject(w)
         => Frame
  BY DEF TerminateReaders, HostDelete, HostRelist, HostDrop, CleanupObject, ObjectDel, vmVars
<1>5. ReaderExits(w) \/ Terminate(w) \/ Killed(w) => Frame
  BY DEF ReaderExits, Terminate, Killed, vmVars
<1>. QED  BY <1>1, <1>2, <1>3, <1>4, <1>5 DEF CaptureStep

\* The capture that acts, and what it may do.
CaptureActs(w) ==
    \/ \E vantages \in left.vantages, direction \in {"out", "inout"} :
          StartCapture(w, vantages, direction)
    \/ HostUp(w) \/ Readers(w) \/ TerminateReaders(w)
    \/ w \in VMs /\ GuestVmUp(w)
    \/ w \in VMs /\ GuestVmUpFails(w)
    \/ w \in VMs /\ GuestCheck(w)
    \/ w \in VMs /\ GuestVmDown(w)
    \/ w \in VMs /\ FinalizeGuest(w)
    \/ HostDelete(w) \/ HostRelist(w) \/ HostDrop(w) \/ CleanupObject(w)
    \/ ReaderExits(w) \/ Terminate(w) \/ Killed(w)

\* One capture acts at a time, of a workload of the model.
LEMMA CaptureActor ==
    ASSUME VmTypes, CaptureNext
    PROVE  \E w \in Workloads : w \in left.on /\ CaptureActs(w)
<1>1. PICK w \in left.on :
        \/ \E vantages \in left.vantages, direction \in {"out", "inout"} :
              StartCapture(w, vantages, direction)
        \/ CaptureStep(w)
        \/ ReaderExits(w) \/ Terminate(w) \/ Killed(w)
  BY DEF CaptureNext
<1>2. w \in Workloads
  BY DEF VmTypes, Allowances
<1>3. CaptureActs(w)
  BY <1>1 DEF CaptureStep, CaptureActs
<1>. QED  BY <1>2, <1>3

\* Where a capture goes next is somewhere, and it keeps what it is about.
LEMMA MovesTyped ==
    ASSUME cap \in [Workloads -> CaptureUnits], NEW w \in Workloads, NEW pc \in CapturePcs,
           Goto(w, pc) \/ Unwind(w) \/ Cleanup(w) \/ NextChain(w)
    PROVE  /\ cap' \in [Workloads -> CaptureUnits]
           /\ cap'[w].id = cap[w].id
           /\ \A x \in Workloads \ {w} : cap'[x] = cap[x]
<1>1. cap[w] \in CaptureUnits
  OBVIOUS
<1>2. ASSUME NEW p \in CapturePcs, Goto(w, p)
      PROVE  cap' = [cap EXCEPT ![w] = [cap[w] EXCEPT !.pc = p]]
  BY <1>2 DEF Goto
<1>3. ASSUME Cleanup(w)
      PROVE  cap' = [cap EXCEPT ![w] = [cap[w] EXCEPT !.pc = "delete", !.chain = 1, !.post = TRUE]]
  BY <1>3, Zenon DEF Cleanup
<1>4. \A p \in CapturePcs : [cap[w] EXCEPT !.pc = p] \in CaptureUnits
                            /\ [cap[w] EXCEPT !.pc = p].id = cap[w].id
  BY <1>1, Zenon DEF CaptureUnits
<1>5. [cap[w] EXCEPT !.pc = "delete", !.chain = 1, !.post = TRUE] \in CaptureUnits
      /\ [cap[w] EXCEPT !.pc = "delete", !.chain = 1, !.post = TRUE].id = cap[w].id
  <2>1. "delete" \in CapturePcs
    BY DEF CapturePcs, Unwinding
  <2>2. 1 \in 1..2
    OBVIOUS
  <2>. QED  BY <1>1, <2>1, <2>2, Zenon DEF CaptureUnits
<1>6. CASE Goto(w, pc)
  BY <1>2, <1>4, <1>6, Zenon
<1>7. CASE Unwind(w)
  <2>1. PICK p \in {"guest_down", "terminate"} : cap' = [cap EXCEPT ![w].pc = p]
    BY <1>7, Zenon DEF Unwind
  <2>. QED  BY <2>1, <1>2, <1>4 DEF Goto, CapturePcs, Unwinding
<1>8. CASE Cleanup(w)
  BY <1>3, <1>5, <1>8, Zenon
<1>9. CASE NextChain(w)
  <2>1. CASE cap[w].chain < 2
    <3>1. cap[w].chain + 1 \in 1..2
      BY <1>1, <2>1 DEF CaptureUnits
    <3>2. cap' = [cap EXCEPT ![w] = [cap[w] EXCEPT !.pc = "delete", !.chain = cap[w].chain + 1]]
      BY <1>9, <2>1, ChainNames, Zenon DEF NextChain
    <3>3. [cap[w] EXCEPT !.pc = "delete", !.chain = cap[w].chain + 1] \in CaptureUnits
          /\ [cap[w] EXCEPT !.pc = "delete", !.chain = cap[w].chain + 1].id = cap[w].id
      BY <1>1, <3>1, Zenon DEF CaptureUnits, CapturePcs, Unwinding
    <3>. QED  BY <3>2, <3>3
  <2>2. CASE ~(cap[w].chain < 2)
    <3>1. Goto(w, "object") \/ Cleanup(w)
      BY <1>9, <2>2, ChainNames DEF NextChain
    <3>2. CASE Goto(w, "object")
      <4>1. "object" \in CapturePcs
        BY DEF CapturePcs
      <4>. QED  BY <3>2, <4>1, <1>2, <1>4, Zenon
    <3>3. CASE Cleanup(w)
      BY <3>3, <1>3, <1>5, Zenon
    <3>. QED  BY <3>1, <3>2, <3>3
  <2>. QED  BY <2>1, <2>2
<1>. QED  BY <1>6, <1>7, <1>8, <1>9

\* host_up goes on, to the guest's side or the readers, or unwinds.
LEMMA HostUpEffect ==
    ASSUME cap \in [Workloads -> CaptureUnits], NEW w \in Workloads, HostUp(w)
    PROVE  /\ cap[w].pc = "host_up"
           /\ \/ Unwind(w)
              \/ /\ cap'[w].pc \in {"host_up", "guest_up", "readers"}
                 /\ cap'[w].post = cap[w].post /\ cap'[w].object = cap[w].object
           /\ \A r \in rules' \ rules : r[1] = w
           /\ rules \subseteq rules'
<1>0. cap[w] \in CaptureUnits /\ cap[w].pc = "host_up"
  BY DEF HostUp
<1>1. CASE cap[w].todo = <<>>
  <2>1. PICK pc \in {"guest_up", "readers"} : Goto(w, pc)
    BY <1>1 DEF HostUp
  <2>2. UNCHANGED rules
    BY <1>1 DEF HostUp
  <2>. QED  BY <1>0, <2>1, <2>2 DEF Goto, CaptureUnits
<1>2. CASE cap[w].todo # <<>> /\ Unwind(w) /\ UNCHANGED <<chains, rules>>
  BY <1>0, <1>2
<1>3. CASE cap[w].todo # <<>> /\ ~(Unwind(w) /\ UNCHANGED <<chains, rules>>)
  <2>1. /\ cap' = [cap EXCEPT ![w].todo = Tail(@)]
        /\ rules' = rules \/ \E c : rules' = rules \cup {<<w, c>>}
    BY <1>3, Zenon DEF HostUp
  <2>2. /\ cap'[w].pc = cap[w].pc
        /\ cap'[w].post = cap[w].post /\ cap'[w].object = cap[w].object
    BY <1>0, <2>1 DEF CaptureUnits
  <2>3. (\A r \in rules' \ rules : r[1] = w) /\ rules \subseteq rules'
    BY <2>1
  <2>. QED  BY <1>0, <2>2, <2>3
<1>. QED  BY <1>1, <1>2, <1>3

\* The readers are up, or the capture unwinds.
LEMMA ReadersEffect ==
    ASSUME cap \in [Workloads -> CaptureUnits], NEW w \in Workloads, Readers(w)
    PROVE  /\ cap[w].pc = "readers"
           /\ \/ Unwind(w)
              \/ /\ cap'[w].pc = "wait"
                 /\ cap'[w].post = cap[w].post /\ cap'[w].object = cap[w].object
           /\ UNCHANGED rules
<1>0. cap[w] \in CaptureUnits /\ cap[w].pc = "readers" /\ UNCHANGED rules
  BY DEF Readers
<1>1. CASE ~Unwind(w)
  <2>1. PICK b : cap' = [cap EXCEPT ![w].pc = "wait", ![w].reader = b]
    BY <1>1 DEF Readers
  <2>. QED  BY <1>0, <2>1 DEF CaptureUnits
<1>. QED  BY <1>0, <1>1

\* guest_vm_up knows its tap, or the capture unwinds.
LEMMA GuestCheckEffect ==
    ASSUME cap \in [Workloads -> CaptureUnits], NEW w \in Workloads, GuestCheck(w)
    PROVE  /\ cap[w].pc = "guest_check"
           /\ \/ Unwind(w)
              \/ cap'[w].pc = "readers" /\ cap'[w].post = cap[w].post
           /\ UNCHANGED rules
<1>0. cap[w] \in CaptureUnits /\ cap[w].pc = "guest_check" /\ UNCHANGED rules
  BY DEF GuestCheck
<1>1. CASE ~Unwind(w)
  <2>1. cap' = [cap EXCEPT ![w].pc = "readers", ![w].object = TRUE]
    BY <1>1 DEF GuestCheck
  <2>. QED  BY <1>0, <2>1 DEF CaptureUnits
<1>. QED  BY <1>0, <1>1

\* Where each of the ways on leads a capture.
LEMMA MovesEffect ==
    ASSUME cap \in [Workloads -> CaptureUnits], NEW w \in Workloads
    PROVE  /\ Unwind(w) => /\ cap'[w].pc = IF cap[w].object THEN "guest_down" ELSE "terminate"
                           /\ cap'[w].post = cap[w].post /\ cap'[w].object = cap[w].object
           /\ Cleanup(w) => cap'[w].pc = "delete" /\ cap'[w].chain = 1 /\ cap'[w].post
           /\ \A pc : Goto(w, pc) => /\ cap'[w].pc = pc /\ cap'[w].chain = cap[w].chain
                                     /\ cap'[w].post = cap[w].post
                                     /\ cap'[w].object = cap[w].object
           /\ NextChain(w) =>
                 \/ /\ cap[w].chain = 1 /\ cap'[w].chain = 2 /\ cap'[w].pc = "delete"
                    /\ cap'[w].post = cap[w].post /\ cap'[w].object = cap[w].object
                 \/ cap[w].chain = 2 /\ cap[w].post /\ Goto(w, "object")
                 \/ cap[w].chain = 2 /\ ~cap[w].post /\ Cleanup(w)
<1>0. cap[w] \in CaptureUnits /\ cap[w].chain \in 1..2
  BY DEF CaptureUnits
<1>1. Unwind(w) => /\ cap'[w].pc = IF cap[w].object THEN "guest_down" ELSE "terminate"
                   /\ cap'[w].post = cap[w].post /\ cap'[w].object = cap[w].object
  BY <1>0 DEF Unwind, CaptureUnits
<1>2. Cleanup(w) => cap'[w].pc = "delete" /\ cap'[w].chain = 1 /\ cap'[w].post
  BY <1>0 DEF Cleanup, CaptureUnits
<1>3. ASSUME NEW pc, Goto(w, pc)
      PROVE  /\ cap'[w].pc = pc /\ cap'[w].chain = cap[w].chain
             /\ cap'[w].post = cap[w].post /\ cap'[w].object = cap[w].object
  BY <1>0, <1>3 DEF Goto, CaptureUnits
<1>4. ASSUME NextChain(w), cap[w].chain < 2
      PROVE  /\ cap[w].chain = 1 /\ cap'[w].chain = 2 /\ cap'[w].pc = "delete"
             /\ cap'[w].post = cap[w].post /\ cap'[w].object = cap[w].object
  <2>1. cap[w].chain = 1
    BY <1>0, <1>4
  <2>2. cap' = [cap EXCEPT ![w] = [cap[w] EXCEPT !.pc = "delete", !.chain = cap[w].chain + 1]]
    BY <1>4, ChainNames, Zenon DEF NextChain
  <2>. QED  BY <1>0, <2>1, <2>2 DEF CaptureUnits
<1>5. ASSUME NextChain(w), ~(cap[w].chain < 2)
      PROVE  /\ cap[w].chain = 2
             /\ IF cap[w].post THEN Goto(w, "object") ELSE Cleanup(w)
  BY <1>0, <1>5, ChainNames DEF NextChain
<1>. QED  BY <1>1, <1>2, <1>3, <1>4, <1>5

\* A step of a capture keeps the types.
LEMMA CapturesTyped ==
    ASSUME VmTypes, CaptureTypes, UnitInv, NEW w \in Workloads, CaptureActs(w),
           UNCHANGED <<unit, guest, monitor, skew, data, boots>>
    PROVE  /\ VmTypes' /\ UnitInv'
           /\ CaptureTypes'
           /\ \A x \in Workloads \ {w} : cap'[x] = cap[x]
<1>. DEFINE Others == \A x \in Workloads \ {w} : cap'[x] = cap[x]
<1>0. /\ cap \in [Workloads -> CaptureUnits] /\ cap[w] \in CaptureUnits
      /\ left \in Allowances
  BY DEF CaptureTypes, VmTypes
<1>1. ASSUME cap' \in [Workloads -> CaptureUnits], cap'[w].id <= captures, Others,
             UNCHANGED captures
      PROVE  \A x \in Workloads : cap'[x].id <= captures'
  BY <1>1 DEF CaptureTypes
<1>2. ASSUME NEW pc \in CapturePcs,
             Goto(w, pc) \/ Unwind(w) \/ Cleanup(w) \/ NextChain(w), UNCHANGED captures
      PROVE  /\ cap' \in [Workloads -> CaptureUnits] /\ Others
             /\ \A x \in Workloads : cap'[x].id <= captures'
  <2>1. /\ cap' \in [Workloads -> CaptureUnits] /\ Others
        /\ cap'[w].id <= captures
    BY <1>0, <1>2, MovesTyped DEF CaptureTypes
  <2>. QED  BY <2>1, <1>1, <1>2
<1>3. ASSUME UNCHANGED <<tap, left>> PROVE VmTypes' /\ UnitInv'
  BY <1>3 DEF VmTypes, UnitInv
<1>4. ASSUME UNCHANGED tap, left' \in Allowances PROVE VmTypes' /\ UnitInv'
  BY <1>4 DEF VmTypes, UnitInv
<1>5. ASSUME tap' = [tap EXCEPT ![w] = @ /\ ~Reachable(w)], UNCHANGED left
      PROVE  VmTypes' /\ UnitInv'
  <2>1. (tap[w] /\ ~Reachable(w)) \in BOOLEAN
    OBVIOUS
  <2>2. PICK b \in BOOLEAN : (b => tap[w]) /\ tap' = [tap EXCEPT ![w] = b]
    BY <1>5, <2>1, Zenon
  <2>3. VmTypes'
    BY <1>5, <2>2 DEF VmTypes
  <2>4. UnitInv'
    BY <2>2 DEF VmTypes, UnitInv
  <2>. QED  BY <2>3, <2>4
<1>. USE <1>0
<1>10. CASE \E vantages \in left.vantages, direction \in {"out", "inout"} :
               StartCapture(w, vantages, direction)
  <2>1. PICK vantages \in left.vantages, direction \in {"out", "inout"} :
               StartCapture(w, vantages, direction)
    BY <1>10
  <2>2. VmTypes' /\ UnitInv'
    BY <2>1, <1>4, SpendTyped DEF StartCapture
  <2>3. vantages \in SUBSET VANTAGES
    BY DEF Allowances, VANTAGES
  <2>4. PICK todo \in Seq(NftCalls) :
               cap' = [cap EXCEPT ![w] = [Idle EXCEPT !.pc = "host_up", !.id = captures + 1,
                                                      !.vantages = vantages, !.todo = todo]]
    <3>1. (IF "host" \in vantages THEN PcapRuleCommands(direction) ELSE <<>>) \in Seq(NftCalls)
      BY CallsTyped
    <3>. QED  BY <2>1, <3>1, Zenon DEF StartCapture
  <2>5. [Idle EXCEPT !.pc = "host_up", !.id = captures + 1, !.vantages = vantages, !.todo = todo]
            \in CaptureUnits
    <3>1. "host_up" \in CapturePcs /\ captures + 1 \in Nat
      BY DEF CapturePcs, Running, CaptureTypes
    <3>. QED  BY <2>3, <3>1, NothingTyped, Zenon DEF CaptureUnits
  <2>6. cap' \in [Workloads -> CaptureUnits] /\ Others /\ cap'[w].id = captures + 1
    BY <2>4, <2>5 DEF Idle
  <2>7. captures' = captures + 1 /\ UNCHANGED <<chains, rules, stage>>
    BY <2>1 DEF StartCapture
  <2>8. \A x \in Workloads : cap'[x].id <= captures'
    <3>1. captures \in Nat /\ \A x \in Workloads : cap[x].id \in Nat /\ cap[x].id <= captures
      BY DEF CaptureTypes, CaptureUnits
    <3>2. \A x \in Workloads \ {w} : cap'[x].id <= captures'
      BY <2>6, <2>7, <3>1
    <3>3. cap'[w].id <= captures'
      BY <2>6, <2>7, <3>1
    <3>. QED  BY <3>2, <3>3
  <2>9. \A v \in VMs : stage'[v] <= captures'
    BY <2>7 DEF CaptureTypes
  <2>. QED  BY <2>2, <2>6, <2>7, <2>8, <2>9 DEF CaptureTypes
<1>11. CASE HostUp(w)
  <2>1. UNCHANGED <<tap, left, stage, captures>>
    BY <1>11 DEF HostUp, vmVars
  <2>2. CASE cap[w].todo = <<>>
    <3>1. PICK pc \in {"guest_up", "readers"} : Goto(w, pc)
      BY <1>11, <2>2 DEF HostUp
    <3>2. UNCHANGED <<chains, rules>>
      BY <1>11, <2>2 DEF HostUp
    <3>. QED  BY <2>1, <3>1, <3>2, <1>2, <1>3 DEF CaptureTypes, CapturePcs, Running
  <2>3. CASE cap[w].todo # <<>> /\ Unwind(w) /\ UNCHANGED <<chains, rules>>
    BY <2>1, <2>3, <1>2, <1>3, Zenon DEF CaptureTypes, CapturePcs
  <2>4. CASE cap[w].todo # <<>> /\ ~(Unwind(w) /\ UNCHANGED <<chains, rules>>)
    <3>. DEFINE call == Head(cap[w].todo)
    <3>1. call \in NftCalls /\ Tail(cap[w].todo) \in Seq(NftCalls)
      BY <2>4 DEF CaptureUnits
    <3>2. /\ cap' = [cap EXCEPT ![w] = [cap[w] EXCEPT !.todo = Tail(cap[w].todo)]]
          /\ chains' = chains \cup {call.chain}
          /\ rules' = rules \/ rules' = rules \cup {<<w, call.chain>>}
      BY <1>11, <2>4 DEF HostUp
    <3>3. [cap[w] EXCEPT !.todo = Tail(cap[w].todo)] \in CaptureUnits
          /\ [cap[w] EXCEPT !.todo = Tail(cap[w].todo)].id = cap[w].id
      BY <3>1, Zenon DEF CaptureUnits
    <3>4. cap' \in [Workloads -> CaptureUnits] /\ Others /\ cap'[w].id <= captures
      BY <3>2, <3>3 DEF CaptureTypes
    <3>5. call.chain \in Chains
      BY <3>1 DEF NftCalls
    <3>6. chains' \subseteq Chains /\ rules' \subseteq Workloads \X chains'
      BY <3>2, <3>5 DEF CaptureTypes
    <3>. QED  BY <2>1, <3>4, <3>6, <1>1, <1>3 DEF CaptureTypes
  <2>. QED  BY <2>2, <2>3, <2>4
<1>12. CASE Readers(w)
  <2>1. UNCHANGED <<tap, left, chains, rules, stage, captures>>
    BY <1>12 DEF Readers, vmVars
  <2>2. CASE Unwind(w)
    BY <2>1, <2>2, <1>2, <1>3 DEF CaptureTypes, CapturePcs
  <2>3. CASE ~Unwind(w)
    <3>1. PICK b \in BOOLEAN :
                 cap' = [cap EXCEPT ![w] = [cap[w] EXCEPT !.pc = "wait", !.reader = b]]
      <4>1. ((w \in Containers /\ "guest" \in cap[w].vantages) \/ "host" \in cap[w].vantages)
                \in BOOLEAN
        OBVIOUS
      <4>. QED  BY <1>12, <2>3, <4>1, Zenon DEF Readers
    <3>2. [cap[w] EXCEPT !.pc = "wait", !.reader = b] \in CaptureUnits
          /\ [cap[w] EXCEPT !.pc = "wait", !.reader = b].id = cap[w].id
      BY Zenon DEF CaptureUnits, CapturePcs, Running
    <3>3. cap' \in [Workloads -> CaptureUnits] /\ Others /\ cap'[w].id <= captures
      BY <3>1, <3>2 DEF CaptureTypes
    <3>. QED  BY <2>1, <3>3, <1>1, <1>3 DEF CaptureTypes
  <2>. QED  BY <2>2, <2>3
<1>13. CASE TerminateReaders(w)
  <2>1. UNCHANGED <<tap, left, chains, rules, stage, captures>>
    BY <1>13 DEF TerminateReaders, vmVars
  <2>2. CASE Cleanup(w)
    BY <2>1, <2>2, <1>2, <1>3 DEF CaptureTypes, CapturePcs
  <2>3. CASE ~Cleanup(w)
    <3>1. cap' = [cap EXCEPT ![w] = [cap[w] EXCEPT !.reader = FALSE, !.pc = "delete"]]
      BY <1>13, <2>3, Zenon DEF TerminateReaders
    <3>2. [cap[w] EXCEPT !.reader = FALSE, !.pc = "delete"] \in CaptureUnits
          /\ [cap[w] EXCEPT !.reader = FALSE, !.pc = "delete"].id = cap[w].id
      BY Zenon DEF CaptureUnits, CapturePcs, Unwinding
    <3>3. cap' \in [Workloads -> CaptureUnits] /\ Others /\ cap'[w].id <= captures
      BY <3>1, <3>2 DEF CaptureTypes
    <3>. QED  BY <2>1, <3>3, <1>1, <1>3 DEF CaptureTypes
  <2>. QED  BY <2>2, <2>3
<1>14. CASE w \in VMs /\ GuestVmUp(w)
  <2>1. Goto(w, "guest_check") /\ UNCHANGED <<chains, rules, captures>>
    BY <1>14 DEF GuestVmUp
  <2>2. cap' \in [Workloads -> CaptureUnits] /\ Others
        /\ \A x \in Workloads : cap'[x].id <= captures'
    BY <2>1, <1>2 DEF CapturePcs, Running
  <2>3. stage' = stage \/ stage' = [stage EXCEPT ![w] = cap[w].id]
    BY <1>14 DEF GuestVmUp
  <2>4. stage' \in [VMs -> Nat] /\ \A v \in VMs : stage'[v] <= captures'
    BY <1>14, <2>1, <2>3, Zenon DEF CaptureTypes, CaptureUnits
  <2>5. left' \in Allowances
    BY <1>14, SpendTyped DEF GuestVmUp
  <2>6. tap' = [tap EXCEPT ![w] = TRUE] /\ guest[w] # "off"
    BY <1>14 DEF GuestVmUp, Reachable
  <2>7. VmTypes' /\ UnitInv'
    BY <2>5, <2>6 DEF VmTypes, UnitInv
  <2>. QED  BY <2>1, <2>2, <2>4, <2>7 DEF CaptureTypes
<1>15. CASE GuestVmUpFails(w) \/ ReaderExits(w) \/ Terminate(w)
  BY <1>15, <1>2, <1>3
     DEF GuestVmUpFails, ReaderExits, Terminate, CaptureTypes, CapturePcs, vmVars
<1>16. CASE w \in VMs /\ GuestCheck(w)
  <2>1. UNCHANGED <<left, chains, rules, stage, captures>>
    BY <1>16 DEF GuestCheck
  <2>2. CASE stage[w] # 0
    <3>1. cap' = [cap EXCEPT ![w] = [cap[w] EXCEPT !.pc = "readers", !.object = TRUE]]
          /\ UNCHANGED tap
      BY <1>16, <2>2, Zenon DEF GuestCheck
    <3>2. [cap[w] EXCEPT !.pc = "readers", !.object = TRUE] \in CaptureUnits
          /\ [cap[w] EXCEPT !.pc = "readers", !.object = TRUE].id = cap[w].id
      BY Zenon DEF CaptureUnits, CapturePcs, Running
    <3>3. cap' \in [Workloads -> CaptureUnits] /\ Others /\ cap'[w].id <= captures
      BY <3>1, <3>2 DEF CaptureTypes
    <3>. QED  BY <2>1, <3>1, <3>3, <1>1, <1>3 DEF CaptureTypes
  <2>3. CASE stage[w] = 0
    <3>1. Unwind(w) /\ tap' = [tap EXCEPT ![w] = @ /\ ~Reachable(w)]
      BY <1>16, <2>3 DEF GuestCheck
    <3>. QED  BY <2>1, <3>1, <1>2, <1>5, Zenon DEF CaptureTypes, CapturePcs
  <2>. QED  BY <2>2, <2>3
<1>17. CASE w \in VMs /\ GuestVmDown(w)
  <2>1. Goto(w, "finalize") /\ tap' = [tap EXCEPT ![w] = @ /\ ~Reachable(w)]
        /\ UNCHANGED <<left, chains, rules, stage, captures>>
    BY <1>17 DEF GuestVmDown, ObjectDel
  <2>. QED  BY <2>1, <1>2, <1>5 DEF CaptureTypes, CapturePcs, Unwinding
<1>18. CASE w \in VMs /\ FinalizeGuest(w)
  <2>1. UNCHANGED <<tap, chains, rules, captures>> /\ left' \in Allowances
    BY <1>18, SpendTyped DEF FinalizeGuest
  <2>2. Goto(w, "terminate") \/ Cleanup(w)
    BY <1>18 DEF FinalizeGuest
  <2>3. stage' \in [VMs -> Nat] /\ \A v \in VMs : stage'[v] <= captures'
    BY <1>18, <2>1 DEF FinalizeGuest, CaptureTypes
  <2>. QED  BY <2>1, <2>2, <2>3, <1>2, <1>4 DEF CaptureTypes, CapturePcs, Unwinding
<1>19. CASE HostDelete(w)
  <2>1. rules' \subseteq rules /\ UNCHANGED <<tap, left, chains, stage, captures>>
    BY <1>19 DEF HostDelete, vmVars
  <2>2. Goto(w, "relist") \/ NextChain(w)
    BY <1>19 DEF HostDelete
  <2>. QED  BY <2>1, <2>2, <1>2, <1>3 DEF CaptureTypes, CapturePcs, Unwinding
<1>20. CASE HostRelist(w)
  <2>1. UNCHANGED <<tap, left, chains, rules, stage, captures>>
    BY <1>20 DEF HostRelist, vmVars
  <2>2. Goto(w, "drop") \/ NextChain(w)
    BY <1>20 DEF HostRelist
  <2>. QED  BY <2>1, <2>2, <1>2, <1>3 DEF CaptureTypes, CapturePcs, Unwinding
<1>21. CASE HostDrop(w)
  <2>1. /\ UNCHANGED <<tap, left, stage, captures>> /\ NextChain(w)
        /\ chains' = chains \ {PCAP_CHAINS[cap[w].chain]}
        /\ rules' = {r \in rules : r[2] # PCAP_CHAINS[cap[w].chain]}
    BY <1>21 DEF HostDrop, vmVars
  <2>2. chains' \subseteq Chains /\ rules' \subseteq Workloads \X chains'
    BY <2>1 DEF CaptureTypes
  <2>. QED  BY <2>1, <2>2, <1>2, <1>3 DEF CaptureTypes, CapturePcs
<1>22. CASE CleanupObject(w)
  <2>1. cap' = [cap EXCEPT ![w] = Idle] /\ UNCHANGED <<chains, rules, stage, captures>>
    BY <1>22 DEF CleanupObject
  <2>2. cap' \in [Workloads -> CaptureUnits] /\ Others /\ cap'[w].id <= captures
    BY <2>1, NothingTyped DEF CaptureTypes, Idle
  <2>3. VmTypes' /\ UnitInv'
    BY <1>22, <1>3, <1>5 DEF CleanupObject, ObjectDel, vmVars
  <2>. QED  BY <2>1, <2>2, <2>3, <1>1 DEF CaptureTypes
<1>23. CASE Killed(w)
  <2>1. Cleanup(w) /\ UNCHANGED <<tap, chains, rules, stage, captures>> /\ left' \in Allowances
    BY <1>23, SpendTyped DEF Killed
  <2>. QED  BY <2>1, <1>2, <1>4 DEF CaptureTypes, CapturePcs
<1>. QED  BY <1>10, <1>11, <1>12, <1>13, <1>14, <1>15, <1>16, <1>17, <1>18, <1>19, <1>20, <1>21,
             <1>22, <1>23 DEF CaptureActs

\* A capture that has all its cleanup before it answers for every chain.
LEMMA CleanBusy ==
    ASSUME CleanInv, CaptureTypes, CaptureTypes', NEW w \in Workloads,
           \A x \in Workloads \ {w} : cap'[x] = cap[x],
           cap'[w].pc \notin {"idle", "object", "relist", "drop"},
           cap'[w].post => cap'[w].pc = "delete" /\ cap'[w].chain = 1,
           \A r \in rules' \ rules : r[1] = w
    PROVE  CleanInv'
<1>1. \A i \in 1..2 : Clears(w, i)'
  BY DEF Clears
<1>2. \A x \in Workloads \ {w}, i \in 1..2 :
         /\ Clears(x, i)' <=> Clears(x, i)
         /\ <<x, PCAP_CHAINS[i]>> \in rules' => <<x, PCAP_CHAINS[i]>> \in rules
  BY DEF Clears
<1>3. \A x \in Workloads : cap[x].chain \in 1..2
  BY DEF CaptureTypes, CaptureUnits
<1>4. ASSUME NEW x \in Workloads \ {w}
      PROVE  /\ cap'[x].post => cap'[x].pc \in {"delete", "relist", "drop", "object"}
             /\ cap'[x].pc = "object" => cap'[x].post
             /\ cap'[x].pc \in {"relist", "drop"} => <<x, PCAP_CHAINS[cap'[x].chain]>> \notin rules'
             /\ \A i \in 1..2 : <<x, PCAP_CHAINS[i]>> \in rules' => Clears(x, i)'
  BY <1>2, <1>3 DEF CleanInv
<1>. QED  BY <1>1, <1>4 DEF CleanInv

\* Every step of a capture leaves each rule and each chain to somebody.
LEMMA CapturesClean ==
    ASSUME CleanInv, CaptureTypes, CaptureTypes', NEW w \in Workloads, CaptureActs(w),
           \A x \in Workloads \ {w} : cap'[x] = cap[x]
    PROVE  CleanInv'
<1>0. /\ cap \in [Workloads -> CaptureUnits] /\ cap[w] \in CaptureUnits
      /\ cap' \in [Workloads -> CaptureUnits] /\ cap'[w] \in CaptureUnits
      /\ cap[w].chain \in 1..2
  BY DEF CaptureTypes, CaptureUnits
<1>. DEFINE Busy == /\ cap'[w].pc \notin {"idle", "object", "relist", "drop"}
                    /\ cap'[w].post => cap'[w].pc = "delete" /\ cap'[w].chain = 1
                    /\ \A r \in rules' \ rules : r[1] = w
<1>1. cap[w].pc \in Running \cup {"idle", "guest_down", "finalize", "terminate"} => ~cap[w].post
  BY Zenon DEF CleanInv, Running
<1>2. Cleanup(w) => cap'[w].pc = "delete" /\ cap'[w].chain = 1
  BY <1>0, MovesEffect
<1>3. Unwind(w) => cap'[w].pc \in {"guest_down", "terminate"} /\ cap'[w].post = cap[w].post
  BY <1>0, MovesEffect
<1>4. \A pc : Goto(w, pc) => cap'[w].pc = pc /\ cap'[w].post = cap[w].post
                              /\ cap'[w].chain = cap[w].chain
  BY <1>0, MovesEffect
<1>5. ASSUME Busy PROVE CleanInv'
  BY <1>5, CleanBusy
<1>10. CASE \E vantages \in left.vantages, direction \in {"out", "inout"} :
               StartCapture(w, vantages, direction)
  <2>1. cap'[w].pc = "host_up" /\ ~cap'[w].post /\ UNCHANGED rules
    BY <1>0, <1>10 DEF StartCapture, Idle
  <2>. QED  BY <2>1, <1>5
<1>11. CASE HostUp(w)
  <2>1. cap[w].pc = "host_up" /\ ~cap[w].post
    BY <1>1, <1>11 DEF HostUp, Running
  <2>2. cap'[w].pc \in {"guest_up", "readers", "guest_down", "terminate", "host_up"}
        /\ ~cap'[w].post
    BY <1>0, <2>1, <1>3, <1>11, HostUpEffect
  <2>3. \A r \in rules' \ rules : r[1] = w
    BY <1>0, <1>11, HostUpEffect
  <2>. QED  BY <2>2, <2>3, <1>5
<1>12. CASE Readers(w) \/ ReaderExits(w) \/ Terminate(w) \/ GuestVmUpFails(w)
  <2>1. ~cap[w].post /\ UNCHANGED rules
    BY <1>1, <1>12 DEF Readers, ReaderExits, Terminate, GuestVmUpFails, Running
  <2>2. cap'[w].pc \in {"wait", "guest_down", "terminate"} /\ ~cap'[w].post
    BY <1>0, <2>1, <1>3, <1>12, ReadersEffect DEF ReaderExits, Terminate, GuestVmUpFails
  <2>. QED  BY <2>1, <2>2, <1>5
<1>13. CASE TerminateReaders(w)
  <2>1. ~cap[w].post /\ UNCHANGED rules
    BY <1>1, <1>13 DEF TerminateReaders
  <2>2. cap'[w].pc = "delete" /\ (cap'[w].post => cap'[w].chain = 1)
    BY <1>0, <2>1, <1>2, <1>13 DEF TerminateReaders, CaptureUnits
  <2>. QED  BY <2>1, <2>2, <1>5
<1>14. CASE GuestVmUp(w) \/ GuestCheck(w) \/ GuestVmDown(w)
  <2>1. ~cap[w].post /\ UNCHANGED rules
    BY <1>1, <1>14 DEF GuestVmUp, GuestCheck, GuestVmDown, Running
  <2>2. cap'[w].pc \in {"guest_check", "readers", "guest_down", "terminate", "finalize"}
        /\ ~cap'[w].post
    BY <1>0, <2>1, <1>3, <1>4, <1>14, GuestCheckEffect DEF GuestVmUp, GuestVmDown
  <2>. QED  BY <2>1, <2>2, <1>5
<1>15. CASE FinalizeGuest(w)
  <2>1. ~cap[w].post /\ UNCHANGED rules
    BY <1>1, <1>15 DEF FinalizeGuest
  <2>2. \/ cap'[w].pc = "terminate" /\ ~cap'[w].post
        \/ cap'[w].pc = "delete" /\ cap'[w].chain = 1
    BY <2>1, <1>2, <1>4, <1>15 DEF FinalizeGuest
  <2>. QED  BY <2>1, <2>2, <1>5
<1>16. CASE Killed(w)
  BY <1>2, <1>5, <1>16 DEF Killed
<1>20. CASE HostDelete(w) \/ HostRelist(w) \/ HostDrop(w)
  <2>0. PICK k \in 1..2 : k = cap[w].chain
    BY <1>0
  <2>. DEFINE chain == PCAP_CHAINS[k]
  <2>1. /\ cap[w].pc \in {"delete", "relist", "drop"}
        /\ rules' \subseteq rules /\ chains' \subseteq chains
        /\ <<w, chain>> \notin rules'
    BY <1>20, <2>0, Zenon DEF HostDelete, HostRelist, HostDrop, CleanInv
  <2>2. \/ Goto(w, "relist")
        \/ Goto(w, "drop")
        \/ NextChain(w)
    BY <1>20, <2>0 DEF HostDelete, HostRelist, HostDrop
  <2>3. \/ Goto(w, "relist")
        \/ Goto(w, "drop")
        \/ chain \notin chains'
        \/ \E r \in rules' : r[2] = chain
    BY <1>20, <2>0 DEF HostDelete, HostRelist, HostDrop
  <2>4. ASSUME NEW x \in Workloads \ {w}
        PROVE  /\ cap'[x].post => cap'[x].pc \in {"delete", "relist", "drop", "object"}
               /\ cap'[x].pc = "object" => cap'[x].post
               /\ cap'[x].pc \in {"relist", "drop"}
                     => <<x, PCAP_CHAINS[cap'[x].chain]>> \notin rules'
               /\ \A i \in 1..2 : <<x, PCAP_CHAINS[i]>> \in rules' => Clears(x, i)'
    BY <2>1 DEF CleanInv, Clears
  <2>5. CASE Goto(w, "relist") \/ Goto(w, "drop")
    <3>1. /\ cap'[w].pc \in {"relist", "drop"}
          /\ cap'[w].post = cap[w].post /\ cap'[w].chain = k
      BY <2>5, <1>4, <2>0
    <3>2. \A i \in 1..2 : Clears(w, i)' <=> Clears(w, i)
      BY <2>0, <2>1, <3>1 DEF Clears
    <3>3. \A x \in Workloads, i \in 1..2 : Clears(x, i)' <=> Clears(x, i)
      BY <3>2 DEF Clears
    <3>4. \A i \in 1..2 : PCAP_CHAINS[i] \in chains' => \E x \in Workloads : Clears(x, i)'
      BY <2>1, <3>3 DEF CleanInv
    <3>5. \A i \in 1..2 : <<w, PCAP_CHAINS[i]>> \in rules' => Clears(w, i)'
      BY <2>1, <3>2, Zenon DEF CleanInv
    <3>. QED  BY <2>0, <2>1, <2>4, <3>1, <3>4, <3>5, Zenon DEF CleanInv
  <2>6. CASE NextChain(w)
    <3>0. \/ /\ k = 1 /\ cap'[w].chain = 2 /\ cap'[w].pc = "delete"
             /\ cap'[w].post = cap[w].post
          \/ k = 2 /\ cap[w].post /\ cap'[w].pc = "object" /\ cap'[w].post = cap[w].post
          \/ k = 2 /\ ~cap[w].post /\ cap'[w].pc = "delete" /\ cap'[w].chain = 1
      <4>1. \/ /\ k = 1 /\ cap'[w].chain = 2 /\ cap'[w].pc = "delete"
               /\ cap'[w].post = cap[w].post
            \/ k = 2 /\ cap[w].post /\ Goto(w, "object")
            \/ k = 2 /\ ~cap[w].post /\ Cleanup(w)
        BY <1>0, <2>0, <2>6, MovesEffect
      <4>. QED  BY <4>1, <1>2, <1>4
    <3>1. CASE k = 1 \/ ~cap[w].post
      <4>1. /\ cap'[w].pc = "delete"
            /\ cap'[w].post => cap'[w].chain = 1 \/ (cap[w].post /\ k = 1 /\ cap'[w].chain = 2)
        BY <3>0, <3>1
      <4>2. \A i \in 1..2 : i # k => Clears(w, i)'
        BY <2>0, <4>1 DEF Clears
      <4>3. \A i \in 1..2 : <<w, PCAP_CHAINS[i]>> \in rules' => Clears(w, i)'
        BY <2>1, <4>2
      <4>4. chain \in chains' => \E x \in Workloads : Clears(x, k)'
        <5>. SUFFICES ASSUME chain \in chains' PROVE \E x \in Workloads : Clears(x, k)'
          OBVIOUS
        <5>1. PICK r \in rules' : r[2] = chain
          BY <2>3, <1>4, <4>1
        <5>2. r[1] \in Workloads /\ r = <<r[1], chain>>
          BY <5>1 DEF CaptureTypes
        <5>3. r[1] \in Workloads \ {w}
          BY <2>1, <5>1, <5>2
        <5>4. Clears(r[1], k)'
          BY <1>0, <2>4, <5>1, <5>2, <5>3, Zenon
        <5>. QED  BY <5>2, <5>4
      <4>5. \A i \in 1..2 : PCAP_CHAINS[i] \in chains' => \E x \in Workloads : Clears(x, i)'
        BY <4>2, <4>4
      <4>. QED  BY <2>4, <4>1, <4>3, <4>5 DEF CleanInv
    <3>2. CASE k # 1 /\ cap[w].post
      <4>1. k = 2 /\ cap'[w].pc = "object" /\ cap'[w].post
        BY <3>0, <3>2, Zenon
      <4>0. ~Clears(w, 1)
        <5>1. ~(1 >= k)
          BY <4>1
        <5>. QED  BY <2>0, <3>2, <5>1 DEF Clears
      <4>2. \A i \in 1..2 : <<w, PCAP_CHAINS[i]>> \notin rules'
        <5>1. 1 \in 1..2
          OBVIOUS
        <5>2. <<w, PCAP_CHAINS[1]>> \notin rules
          BY <4>0, <5>1, Zenon DEF CleanInv
        <5>. QED  BY <2>1, <4>1, <5>2
      <4>3. \A i \in 1..2 : PCAP_CHAINS[i] \in chains' => \E x \in Workloads : Clears(x, i)'
        <5>. SUFFICES ASSUME NEW i \in 1..2, PCAP_CHAINS[i] \in chains'
                      PROVE  \E x \in Workloads : Clears(x, i)'
          OBVIOUS
        <5>1. CASE i = k
          <6>0. ~Goto(w, "relist") /\ ~Goto(w, "drop")
            <7>1. Goto(w, "relist") => cap'[w].pc = "relist"
              BY <1>4
            <7>2. Goto(w, "drop") => cap'[w].pc = "drop"
              BY <1>4
            <7>. QED  BY <4>1, <7>1, <7>2
          <6>1. PICK r \in rules' : r[2] = chain
            BY <2>3, <5>1, <6>0
          <6>2. r[1] \in Workloads /\ r = <<r[1], chain>>
            BY <6>1 DEF CaptureTypes
          <6>3. r[1] \in Workloads \ {w}
            BY <2>1, <6>1, <6>2
          <6>4. Clears(r[1], i)'
            BY <2>4, <5>1, <6>1, <6>2, <6>3, Zenon
          <6>. QED  BY <6>2, <6>4
        <5>2. CASE i # k
          <6>1. PICK x \in Workloads : Clears(x, i)
            BY <2>1 DEF CleanInv
          <6>2. x # w
            <7>1. i = 1
              BY <4>1, <5>2
            <7>. QED  BY <4>0, <6>1, <7>1
          <6>. QED  BY <6>1, <6>2 DEF Clears
        <5>. QED  BY <5>1, <5>2
      <4>. QED  BY <2>4, <4>1, <4>2, <4>3 DEF CleanInv
    <3>. QED  BY <3>1, <3>2
  <2>. QED  BY <2>2, <2>5, <2>6
<1>21. CASE CleanupObject(w)
  <2>1. cap[w].pc = "object" /\ cap'[w] = Idle /\ UNCHANGED <<chains, rules>>
    BY <1>0, <1>21 DEF CleanupObject
  <2>2. \A i \in 1..2 : ~Clears(w, i)
    BY <2>1 DEF Clears
  <2>3. \A x \in Workloads \ {w}, i \in 1..2 : Clears(x, i)' <=> Clears(x, i)
    BY DEF Clears
  <2>4. \A i \in 1..2 : PCAP_CHAINS[i] \in chains' => \E x \in Workloads : Clears(x, i)'
    BY <2>1, <2>2, <2>3 DEF CleanInv
  <2>5. \A i \in 1..2 : <<w, PCAP_CHAINS[i]>> \notin rules'
    BY <2>1, <2>2, Zenon DEF CleanInv
  <2>6. cap'[w].pc = "idle" /\ ~cap'[w].post
    BY <2>1 DEF Idle
  <2>7. ASSUME NEW x \in Workloads \ {w}
        PROVE  /\ cap'[x].post => cap'[x].pc \in {"delete", "relist", "drop", "object"}
               /\ cap'[x].pc = "object" => cap'[x].post
               /\ cap'[x].pc \in {"relist", "drop"}
                     => <<x, PCAP_CHAINS[cap'[x].chain]>> \notin rules'
               /\ \A i \in 1..2 : <<x, PCAP_CHAINS[i]>> \in rules' => Clears(x, i)'
    BY <2>1, <2>3 DEF CleanInv
  <2>. QED  BY <2>4, <2>5, <2>6, <2>7 DEF CleanInv
<1>. QED  BY <1>10, <1>11, <1>12, <1>13, <1>14, <1>15, <1>16, <1>20, <1>21 DEF CaptureActs

\* A capture past its finalize_guest has no file staged, unless it knows of no tap.
LEMMA CapturesStage ==
    ASSUME StageInv, CaptureTypes, CaptureTypes', NEW w \in Workloads, CaptureActs(w),
           \A x \in Workloads \ {w} : cap'[x] = cap[x]
    PROVE  StageInv'
<1>. DEFINE Late == {"terminate", "delete", "relist", "drop"}
<1>0. /\ cap \in [Workloads -> CaptureUnits] /\ cap[w] \in CaptureUnits
      /\ stage \in [VMs -> Nat]
  BY DEF CaptureTypes
<1>1. \A v \in VMs \ {w} : stage'[v] = stage[v]
  BY <1>0, Zenon DEF CaptureActs, StartCapture, HostUp, Readers, TerminateReaders, GuestVmUp,
              GuestVmUpFails, GuestCheck, GuestVmDown, FinalizeGuest, HostDelete, HostRelist,
              HostDrop, CleanupObject, ReaderExits, Terminate, Killed
<1>2. SUFFICES ASSUME w \in VMs, cap'[w].object, ~cap'[w].post, cap'[w].pc \in Late
               PROVE  stage'[w] = 0
  BY <1>1 DEF StageInv, Workloads
<1>3. ~Cleanup(w)
  BY <1>0, <1>2, MovesEffect
<1>4. ~Unwind(w)
  BY <1>0, <1>2, MovesEffect
<1>5. \A pc : Goto(w, pc) => cap'[w].pc = pc /\ cap'[w].post = cap[w].post
                              /\ cap'[w].object = cap[w].object
  BY <1>0, MovesEffect
<1>6. NextChain(w) => cap'[w].post = cap[w].post /\ cap'[w].object = cap[w].object
  BY <1>0, <1>3, MovesEffect
<1>10. CASE \E vantages \in left.vantages, direction \in {"out", "inout"} :
               StartCapture(w, vantages, direction)
  BY <1>0, <1>2, <1>10 DEF StartCapture, Idle
<1>11. CASE HostUp(w)
  BY <1>0, <1>2, <1>4, <1>11, HostUpEffect
<1>12. CASE Readers(w) \/ ReaderExits(w) \/ Terminate(w) \/ GuestVmUpFails(w)
  BY <1>0, <1>2, <1>4, <1>12, ReadersEffect DEF ReaderExits, Terminate, GuestVmUpFails
<1>13. CASE TerminateReaders(w)
  <2>1. /\ cap[w].pc = "terminate" /\ stage'[w] = stage[w]
        /\ cap' = [cap EXCEPT ![w].reader = FALSE, ![w].pc = "delete"]
    BY <1>3, <1>13, Zenon DEF TerminateReaders
  <2>2. cap'[w].post = cap[w].post /\ cap'[w].object = cap[w].object
    BY <1>0, <2>1 DEF CaptureUnits
  <2>. QED  BY <1>2, <2>1, <2>2 DEF StageInv
<1>14. CASE GuestVmUp(w) \/ GuestVmDown(w)
  <2>1. Goto(w, "guest_check") \/ Goto(w, "finalize")
    BY <1>14 DEF GuestVmUp, GuestVmDown
  <2>2. Goto(w, "guest_check") => cap'[w].pc = "guest_check"
    BY <1>5
  <2>3. Goto(w, "finalize") => cap'[w].pc = "finalize"
    BY <1>5
  <2>. QED  BY <1>2, <2>1, <2>2, <2>3
<1>15. CASE GuestCheck(w)
  BY <1>0, <1>2, <1>4, <1>15, GuestCheckEffect
<1>16. CASE FinalizeGuest(w)
  BY <1>0, <1>2, <1>3, <1>16 DEF FinalizeGuest
<1>17. CASE Killed(w)
  BY <1>3, <1>17 DEF Killed
<1>18. CASE HostDelete(w) \/ HostRelist(w) \/ HostDrop(w)
  <2>1. cap[w].pc \in Late /\ stage'[w] = stage[w]
    BY <1>18 DEF HostDelete, HostRelist, HostDrop
  <2>2. cap'[w].post = cap[w].post /\ cap'[w].object = cap[w].object
    BY <1>5, <1>6, <1>18 DEF HostDelete, HostRelist, HostDrop
  <2>. QED  BY <1>2, <2>1, <2>2 DEF StageInv
<1>19. CASE CleanupObject(w)
  BY <1>0, <1>2, <1>19 DEF CleanupObject, Idle
<1>. QED  BY <1>10, <1>11, <1>12, <1>13, <1>14, <1>15, <1>16, <1>17, <1>18, <1>19, Zenon
          DEF CaptureActs

\* A step of a capture deletes nobody else's rule, leaves its object only to a
\* monitor that is held, and ends its finally with the file delivered.
LEMMA CapturesContained ==
    ASSUME VmTypes, CaptureTypes, UnitInv, StageInv, CleanInv, CaptureTypes',
           NEW w \in Workloads, CaptureActs(w),
           \A x \in Workloads \ {w} : cap'[x] = cap[x]
    PROVE  RulesKept /\ ObjectRemoved /\ StoppedIsDelivered
<1>0. /\ cap \in [Workloads -> CaptureUnits] /\ cap[w] \in CaptureUnits
      /\ stage \in [VMs -> Nat] /\ tap \in [Workloads -> BOOLEAN]
      /\ left \in Allowances
  BY DEF CaptureTypes, VmTypes
<1>2. Unwind(w) => cap'[w].pc # "idle" /\ cap'[w].post = cap[w].post
  BY <1>0, MovesEffect, Zenon
<1>3. \A pc : Goto(w, pc) => cap'[w].pc = pc /\ cap'[w].post = cap[w].post
  BY <1>0, MovesEffect
<1>4. NextChain(w) \/ Cleanup(w) => cap'[w].pc # "idle"
  <2>1. Cleanup(w) => cap'[w].pc = "delete"
    BY <1>0, MovesEffect
  <2>2. NextChain(w) => cap'[w].pc = "delete" \/ Goto(w, "object") \/ Cleanup(w)
    BY <1>0, MovesEffect
  <2>3. Goto(w, "object") => cap'[w].pc = "object"
    BY <1>3
  <2>. QED  BY <2>1, <2>2, <2>3
<1>5. (Goto(w, "guest_check") \/ Goto(w, "finalize") \/ Goto(w, "terminate")
         \/ Goto(w, "relist") \/ Goto(w, "drop"))
      => cap'[w].pc # "idle"
  <2>1. ASSUME NEW pc, pc # "idle", Goto(w, pc) PROVE cap'[w].pc # "idle"
    BY <1>3, <2>1
  <2>. QED  BY <2>1
<1>10. RulesKept
  <2>. SUFFICES ASSUME NEW r \in rules \ rules', cap[r[1]].pc \in Running
                PROVE  \E x \in Workloads \ {r[1]} : cap[x].pc = "drop"
    BY DEF RulesKept
  <2>1. HostDelete(w) \/ HostDrop(w)
    BY Zenon DEF CaptureActs, StartCapture, HostUp, Readers, TerminateReaders, GuestVmUp,
           GuestVmUpFails, GuestCheck, GuestVmDown, FinalizeGuest, HostRelist, CleanupObject,
           ReaderExits, Terminate, Killed
  <2>2. CASE HostDelete(w)
    <3>1. cap[w].pc = "delete" /\ r[1] = w
      BY <2>2 DEF HostDelete
    <3>. QED  BY <3>1 DEF Running
  <2>3. CASE HostDrop(w)
    BY <2>3 DEF HostDrop, Running
  <2>. QED  BY <2>1, <2>2, <2>3
<1>11. CleanupObject(w) \/ cap'[w].pc # "idle" \/ cap[w].pc = "idle"
  <2>1. CASE \E vantages \in left.vantages, direction \in {"out", "inout"} :
                StartCapture(w, vantages, direction)
    BY <2>1 DEF StartCapture
  <2>2. CASE HostUp(w)
    BY <1>0, <1>2, <2>2, HostUpEffect
  <2>3. CASE Readers(w) \/ ReaderExits(w) \/ Terminate(w) \/ GuestVmUpFails(w) \/ GuestCheck(w)
    BY <1>0, <1>2, <2>3, ReadersEffect, GuestCheckEffect, Zenon
       DEF ReaderExits, Terminate, GuestVmUpFails
  <2>4. CASE TerminateReaders(w) \/ Killed(w)
    BY <1>0, <1>4, <2>4 DEF TerminateReaders, Killed, CaptureUnits
  <2>5. CASE GuestVmUp(w) \/ GuestVmDown(w) \/ FinalizeGuest(w)
    <3>1. Goto(w, "guest_check") \/ Goto(w, "finalize") \/ Goto(w, "terminate") \/ Cleanup(w)
      BY <2>5 DEF GuestVmUp, GuestVmDown, FinalizeGuest
    <3>. QED  BY <1>4, <1>5, <3>1
  <2>6. CASE HostDelete(w) \/ HostRelist(w) \/ HostDrop(w)
    <3>1. Goto(w, "relist") \/ Goto(w, "drop") \/ NextChain(w)
      BY <2>6, Zenon DEF HostDelete, HostRelist, HostDrop
    <3>. QED  BY <1>4, <1>5, <3>1
  <2>. QED  BY <2>1, <2>2, <2>3, <2>4, <2>5, <2>6, Zenon DEF CaptureActs
<1>12. ObjectRemoved
  <2>. SUFFICES ASSUME NEW v \in VMs, cap[v].pc # "idle", cap'[v].pc = "idle", tap'[v]
                PROVE  Held(v)
    BY Zenon DEF ObjectRemoved
  <2>1. v \in Workloads /\ v = w /\ CleanupObject(w)
    BY <1>11 DEF Workloads
  <2>2. /\ Reachable(v) \/ Unreachable(v)
        /\ tap' = [tap EXCEPT ![v] = @ /\ ~Reachable(v)]
    BY <2>1 DEF CleanupObject, ObjectDel
  <2>3. tap[v] /\ ~Reachable(v)
    BY <1>0, <2>1, <2>2, Zenon
  <2>4. guest[v] # "off"
    BY <2>1, <2>3 DEF UnitInv
  <2>. QED  BY <2>2, <2>3, <2>4, Zenon DEF Unreachable
<1>13. StoppedIsDelivered
  <2>. SUFFICES ASSUME NEW v \in VMs, cap[v].object, ~cap[v].post, cap'[v].post, left' = left
                PROVE  stage'[v] = 0
    BY DEF StoppedIsDelivered
  <2>1. v \in Workloads /\ v = w
    BY DEF Workloads
  <2>2. ~Killed(w)
    BY <1>0, SpendTyped DEF Killed
  <2>3. ~FinalizeGuest(w)
    BY <1>0, <1>3, <2>1, SpendTyped DEF FinalizeGuest
  <2>4. CASE \E vantages \in left.vantages, direction \in {"out", "inout"} :
                StartCapture(w, vantages, direction)
    BY <1>0, <2>1, <2>4 DEF StartCapture, Idle
  <2>5. CASE HostUp(w)
    BY <1>0, <1>2, <2>1, <2>5, HostUpEffect
  <2>6. CASE Readers(w) \/ ReaderExits(w) \/ Terminate(w) \/ GuestVmUpFails(w) \/ GuestCheck(w)
    BY <1>0, <1>2, <2>1, <2>6, ReadersEffect, GuestCheckEffect, Zenon
       DEF ReaderExits, Terminate, GuestVmUpFails
  <2>7. CASE TerminateReaders(w)
    BY <1>0, <2>1, <2>7 DEF TerminateReaders, StageInv
  <2>8. CASE GuestVmUp(w) \/ GuestVmDown(w)
    BY <1>3, <2>1, <2>8 DEF GuestVmUp, GuestVmDown
  <2>9. CASE HostDelete(w) \/ HostRelist(w) \/ HostDrop(w)
    BY <1>0, <2>1, <2>9, Zenon DEF HostDelete, HostRelist, HostDrop, StageInv
  <2>10. CASE CleanupObject(w)
    BY <1>0, <2>1, <2>10 DEF CleanupObject, Idle
  <2>. QED  BY <2>2, <2>3, <2>4, <2>5, <2>6, <2>7, <2>8, <2>9, <2>10, Zenon DEF CaptureActs
<1>. QED  BY <1>10, <1>12, <1>13
=============================================================================
