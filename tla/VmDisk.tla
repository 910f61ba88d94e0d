------------------------------- MODULE VmDisk -------------------------------
(***************************************************************************)
(* The system disk of one VM workload and its generations: state/          *)
(* system.qcow2, the system.qcow2.gen-N files beside it, the QEMU that has *)
(* one of them open, and who renames, builds and prunes them:              *)
(*   update    rotates the disk out, prunes, builds a new one, restarts;   *)
(*   rollback  stops the VM, rotates the disk out, swaps the newest        *)
(*             generation in, prunes, starts;                              *)
(*   the build unit, which systemd runs before the VM service when there   *)
(*             is no system.qcow2;                                         *)
(*   systemd, which relaunches QEMU whenever the guest exits.              *)
(* A disk is an inode: a rename leaves QEMU on the file it has open, and   *)
(* cp onto an existing file writes into the inode that is there.  No lock  *)
(* is taken by any of them.                                                *)
(***************************************************************************)
EXTENDS Integers, FiniteSets, FiniteSetsExt, Functions

CONSTANTS
    Procs,          \* the process of an operator, running one command at a time
    BuildUnit,      \* the process of workload-<name>-build.service
    Keep,           \* [vm].rollback_keep
    MaxCommands,    \* bound: commands in a behaviour
    MaxFaults       \* bound: failing steps, killed processes, host crashes

ASSUME DiskAssumption ==
    /\ Keep \in Nat \ {0}       \* validate_vm_section rejects anything else
    /\ \A p, q \in Procs : p = q      \* two commands on one VM are not modelled
    /\ BuildUnit \notin Procs
    /\ MaxCommands \in Nat /\ MaxFaults \in Nat

VARIABLES
    sys,            \* the disk at system.qcow2
    gens,           \* N :> the disk at system.qcow2.gen-N
    whole,          \* disks whose content has been written completely
    qemu,           \* the disk QEMU has open
    svc,            \* the VM service
    unit,           \* the build unit
    pc, cmd,        \* per process: where it is and in which command
    rotated,        \* per process: the generation it rotated the disk to
    target,         \* per process: the generation a rollback swaps in
    copying,        \* per process: the disk it is writing
    commands, builds, faults,
    found,          \* history, per process: the disk it rotated out last
    overlapped      \* history: the build unit ran beside a command

files == <<sys, gens, whole>>
host  == <<qemu, svc, unit>>
local == <<cmd, rotated, target, copying, found>>
bound == <<commands, builds>>
state == <<files, host, pc, local, bound, faults>>
vars  == <<state, overlapped>>

None == 0
Disks == Nat \ {0}
Processes == Procs \cup {BuildUnit}

Services == {"down", "start", "build", "launch", "up", "backoff"}
Labels == {"idle", "check", "prune", "copy", "copying", "unlink", "restore", "finish",
           "restart", "stop", "rotate", "swap", "unswap", "prune2", "start", "wait",
           "exit", "failed"}

TypeOK ==
    /\ sys \in Disks \cup {None} /\ qemu \in Disks \cup {None}
    /\ DOMAIN gens \subseteq Nat \ {0} /\ \A n \in DOMAIN gens : gens[n] \in Disks
    /\ whole \subseteq Disks
    /\ svc \in Services /\ unit \in {"inactive", "running", "done"}
    /\ pc \in [Processes -> Labels]
    /\ cmd \in [Processes -> {"none", "update", "rollback", "build"}]
    /\ rotated \in [Processes -> Nat] /\ target \in [Processes -> Nat]
    /\ copying \in [Processes -> Disks \cup {None}]
    /\ found \in [Processes -> Disks \cup {None}]
    /\ commands \in Nat /\ builds \in Nat /\ faults \in Nat /\ overlapped \in BOOLEAN

\* The workload has just been enabled: no disk yet, a start job queued.
Init ==
    /\ sys = None /\ gens = <<>> /\ whole = {}
    /\ qemu = None /\ svc = "start" /\ unit = "inactive"
    /\ pc = [p \in Processes |-> "idle"] /\ cmd = [p \in Processes |-> "none"]
    /\ rotated = [p \in Processes |-> 0] /\ target = [p \in Processes |-> 0]
    /\ copying = [p \in Processes |-> None] /\ found = [p \in Processes |-> None]
    /\ commands = 0 /\ builds = 0 /\ faults = 0 /\ overlapped = FALSE

\* A VM of some days: its disk was there when the host booted, so that the build
\* unit was skipped, and its guest is up.
BootedInit ==
    /\ sys = 1 /\ gens = <<>> /\ whole = {1}
    /\ qemu = 1 /\ svc = "up" /\ unit = "inactive"
    /\ pc = [p \in Processes |-> "idle"] /\ cmd = [p \in Processes |-> "none"]
    /\ rotated = [p \in Processes |-> 0] /\ target = [p \in Processes |-> 0]
    /\ copying = [p \in Processes |-> None] /\ found = [p \in Processes |-> None]
    /\ commands = 0 /\ builds = 1 /\ faults = 0 /\ overlapped = FALSE

-----------------------------------------------------------------------------
At(p, label) == pc[p] = label
Goto(p, label) == pc' = [pc EXCEPT ![p] = label]

Fault == faults < MaxFaults /\ faults' = faults + 1
NoFault == UNCHANGED faults

Begin(p, c, label) ==
    /\ pc' = [pc EXCEPT ![p] = label]
    /\ cmd' = [cmd EXCEPT ![p] = c]

Finish(p) ==
    /\ Goto(p, "idle")
    /\ cmd' = [cmd EXCEPT ![p] = "none"]
    /\ rotated' = [rotated EXCEPT ![p] = 0]
    /\ target' = [target EXCEPT ![p] = 0]
    /\ copying' = [copying EXCEPT ![p] = None]
    /\ UNCHANGED found

\* Mutant of NextGen: generations are numbered by how many there are.
NextGenByCount == Cardinality(DOMAIN gens) + 1

\* One more than the highest N of the system.qcow2.gen-N files.
NextGen == IF DOMAIN gens = {} THEN 1 ELSE Max(DOMAIN gens) + 1

\* The last k of a sorted list of generation numbers.
Newest(S, k) == {n \in S : Cardinality({m \in S : m > n}) < k}

\* system.qcow2 -> system.qcow2.gen-NextGen
RotateOut(p) ==
    /\ gens' = [n \in DOMAIN gens \cup {NextGen} |-> IF n = NextGen THEN sys ELSE gens[n]]
    /\ sys' = None
    /\ rotated' = [rotated EXCEPT ![p] = NextGen]
    /\ found' = [found EXCEPT ![p] = sys]

\* Mutants of Prune: the exempted generation is forgotten; one more is kept.
PruneRotatedToo(p) == gens' = Restrict(gens, Newest(DOMAIN gens \ {rotated[p]}, Keep))
PruneOneShort(p) ==
    gens' = Restrict(gens, (DOMAIN gens \cap {rotated[p]})
                              \cup Newest(DOMAIN gens \ {rotated[p]}, Keep + 1))

\* The prune of rotate_generations and _prune_generations: the generation just
\* rotated is exempt, Keep older ones stay beside it.
Prune(p) ==
    gens' = Restrict(gens, (DOMAIN gens \cap {rotated[p]})
                              \cup Newest(DOMAIN gens \ {rotated[p]}, Keep))

\* system.qcow2.gen-n -> system.qcow2
RenameBack(n) ==
    /\ sys' = gens[n]
    /\ gens' = Restrict(gens, DOMAIN gens \ {n})

-----------------------------------------------------------------------------
(* build_disks, as update (--update) and the build unit run it *)

\* An existing disk is left alone without --update and rotated out with it.
CheckDisk(p) ==
    /\ At(p, "check")
    /\ \/ /\ sys # None /\ cmd[p] = "update"
          /\ RotateOut(p)
          /\ Goto(p, "prune")
       \/ /\ sys # None /\ cmd[p] = "build"
          /\ Goto(p, "finish")
          /\ UNCHANGED <<sys, gens, rotated, found>>
       \/ /\ sys = None
          /\ Goto(p, "copy")
          /\ UNCHANGED <<sys, gens, rotated, found>>
    /\ UNCHANGED <<whole, host, cmd, target, copying, bound, faults>>

PruneGenerations(p) ==
    /\ At(p, "prune")
    /\ Prune(p)
    /\ Goto(p, "copy")
    /\ UNCHANGED <<sys, whole, host, local, bound, faults>>

\* build_system_disk: fetch or build the image (which may fail) and cp it to
\* system.qcow2, into the file that is there if there is one.
BeginCopy(p) ==
    /\ At(p, "copy")
    /\ \/ /\ sys = None
          /\ builds' = builds + 1
          /\ sys' = builds + 1
          /\ copying' = [copying EXCEPT ![p] = builds + 1]
          /\ Goto(p, "copying")
          /\ UNCHANGED <<whole, faults>>
       \/ /\ sys # None
          /\ whole' = whole \ {sys}
          /\ copying' = [copying EXCEPT ![p] = sys]
          /\ Goto(p, "copying")
          /\ UNCHANGED <<sys, builds, faults>>
       \/ /\ Fault
          /\ Goto(p, "unlink")
          /\ UNCHANGED <<sys, whole, copying, builds>>
    /\ UNCHANGED <<gens, host, cmd, rotated, target, found, commands>>

EndCopy(p) ==
    /\ At(p, "copying")
    /\ \/ /\ whole' = IF \E q \in Processes \ {p} : copying[q] = copying[p]
                      THEN whole ELSE whole \cup {copying[p]}
          /\ Goto(p, "finish")
          /\ NoFault
       \/ Goto(p, "unlink") /\ Fault /\ UNCHANGED whole
    /\ copying' = [copying EXCEPT ![p] = None]
    /\ UNCHANGED <<sys, gens, host, cmd, rotated, target, found, bound>>

\* The except clause: drop what was written ...
UnlinkDisk(p) ==
    /\ At(p, "unlink")
    /\ sys' = None
    /\ Goto(p, "restore")
    /\ UNCHANGED <<gens, whole, host, local, bound, faults>>

\* Mutant of RestoreGeneration: nothing is renamed back.
RestoreNothing(p) ==
    /\ At(p, "restore")
    /\ Goto(p, "failed")
    /\ UNCHANGED <<files, host, local, bound, faults>>

\* ... and rename the generation rotated above back, if there is one.
RestoreGeneration(p) ==
    /\ At(p, "restore")
    /\ IF rotated[p] \in DOMAIN gens
       THEN RenameBack(rotated[p])
       ELSE UNCHANGED <<sys, gens>>
    /\ Goto(p, "failed")
    /\ UNCHANGED <<whole, host, local, bound, faults>>

\* Resizing the system disk and creating the data disk; outside the try.
FinishBuild(p) ==
    /\ At(p, "finish")
    /\ \/ Goto(p, IF cmd[p] = "update" THEN "restart" ELSE "exit") /\ NoFault
       \/ Goto(p, "failed") /\ Fault
    /\ UNCHANGED <<files, host, local, bound>>

-----------------------------------------------------------------------------
(* workloadctl update *)

CommandMayStart(p) ==
    /\ At(p, "idle") /\ commands < MaxCommands
    /\ commands' = commands + 1

\* A pet is only restarted.
StartUpdate(p, pet) ==
    /\ CommandMayStart(p)
    /\ Begin(p, "update", IF pet THEN "restart" ELSE "check")
    /\ UNCHANGED <<files, host, rotated, target, copying, found, builds, faults>>

\* Mutant of RestartService: systemctl start.
StartOnly(p) ==
    /\ At(p, "restart")
    /\ svc' = IF svc \in {"down", "backoff"} THEN "start" ELSE svc
    /\ Goto(p, "wait")
    /\ UNCHANGED <<files, qemu, unit, local, bound, faults>>

\* systemctl restart stops QEMU and waits for the start job.
RestartService(p) ==
    /\ At(p, "restart")
    /\ qemu' = None /\ svc' = "start"
    /\ Goto(p, "wait")
    /\ UNCHANGED <<files, unit, local, bound, faults>>

Settled == svc \in {"up", "down", "backoff"}

AwaitService(p) ==
    /\ At(p, "wait")
    /\ Settled
    /\ Goto(p, IF svc = "up" THEN "exit" ELSE "failed")
    /\ UNCHANGED <<files, host, local, bound, faults>>

-----------------------------------------------------------------------------
(* workloadctl rollback *)

\* Without a generation it is an error; the highest N is the target.
StartRollback(p) ==
    /\ CommandMayStart(p)
    /\ DOMAIN gens # {}
    /\ Begin(p, "rollback", "stop")
    /\ target' = [target EXCEPT ![p] = Max(DOMAIN gens)]
    /\ UNCHANGED <<files, host, rotated, copying, found, builds, faults>>

\* systemctl stop; its exit status is not looked at.
StopService(p) ==
    /\ At(p, "stop")
    /\ \/ qemu' = None /\ svc' = "down" /\ NoFault
       \/ Fault /\ UNCHANGED <<qemu, svc>>
    /\ Goto(p, "rotate")
    /\ UNCHANGED <<files, unit, local, bound>>

RotateCurrent(p) ==
    /\ At(p, "rotate")
    /\ IF sys # None THEN RotateOut(p) ELSE UNCHANGED <<sys, gens, rotated, found>>
    /\ Goto(p, "swap")
    /\ UNCHANGED <<whole, host, cmd, target, copying, bound, faults>>

\* gen_path.replace(system_disk), whose OSError is handled by the next step.
SwapIn(p) ==
    /\ At(p, "swap")
    /\ \/ /\ target[p] \in DOMAIN gens
          /\ RenameBack(target[p])
          /\ Goto(p, "prune2")
          /\ NoFault
       \/ /\ Fault
          /\ Goto(p, "unswap")
          /\ UNCHANGED <<sys, gens>>
    /\ UNCHANGED <<whole, host, local, bound>>

UndoSwap(p) ==
    /\ At(p, "unswap")
    /\ IF rotated[p] \in DOMAIN gens /\ sys = None
       THEN RenameBack(rotated[p])
       ELSE UNCHANGED <<sys, gens>>
    /\ Goto(p, "failed")
    /\ UNCHANGED <<whole, host, local, bound, faults>>

\* Only a rollback that rotated a disk out prunes.
PruneAfterSwap(p) ==
    /\ At(p, "prune2")
    /\ IF rotated[p] # 0 THEN Prune(p) ELSE UNCHANGED gens
    /\ Goto(p, "start")
    /\ UNCHANGED <<sys, whole, host, local, bound, faults>>

StartService(p) ==
    /\ At(p, "start")
    /\ svc' = IF svc \in {"down", "backoff"} THEN "start" ELSE svc
    /\ Goto(p, "wait")
    /\ UNCHANGED <<files, qemu, unit, local, bound, faults>>

Exit(p) ==
    /\ p \in Procs
    /\ pc[p] \in {"exit", "failed"}
    /\ Finish(p)
    /\ UNCHANGED <<files, host, bound, faults>>

-----------------------------------------------------------------------------
(* systemd, the guest and the host *)

\* The service requires the build unit, which ConditionPathExists=! skips when
\* there is a disk and RemainAfterExit= keeps from running twice in a boot.
BeginStart ==
    /\ svc = "start"
    /\ IF unit = "inactive" /\ sys = None
       THEN unit' = "running" /\ Begin(BuildUnit, "build", "check")
       ELSE UNCHANGED <<unit, pc, cmd>>
    /\ svc' = IF unit' = "running" THEN "build" ELSE "launch"
    /\ UNCHANGED <<files, qemu, rotated, target, copying, found, bound, faults>>

\* Mutant of EndBuild: a failed build unit is not noticed by the service.
EndBuildUnnoticed ==
    /\ pc[BuildUnit] \in {"exit", "failed"}
    /\ LET ok == At(BuildUnit, "exit") IN
       /\ unit' = IF ok THEN "done" ELSE "inactive"
       /\ svc' = IF svc = "build" /\ ok THEN "launch" ELSE svc
    /\ Finish(BuildUnit)
    /\ UNCHANGED <<files, qemu, bound, faults>>

\* A failed build unit fails the service that requires it.
EndBuild ==
    /\ pc[BuildUnit] \in {"exit", "failed"}
    /\ LET ok == At(BuildUnit, "exit") IN
       /\ unit' = IF ok THEN "done" ELSE "inactive"
       /\ svc' = IF svc = "build" THEN (IF ok THEN "launch" ELSE "down") ELSE svc
    /\ Finish(BuildUnit)
    /\ UNCHANGED <<files, qemu, bound, faults>>

\* QEMU opens system.qcow2; without one it exits and counts as a failure.
Launch ==
    /\ svc = "launch"
    /\ \/ /\ sys # None
          /\ qemu' = sys /\ svc' = "up"
       \/ /\ sys = None
          /\ svc' \in {"backoff", "down"}
          /\ UNCHANGED qemu
    /\ UNCHANGED <<files, unit, pc, local, bound, faults>>

\* The guest reboots, powers off or crashes; Restart= decides what follows.
GuestExit ==
    /\ svc = "up"
    /\ qemu' = None
    /\ svc' \in {"backoff", "down"}
    /\ UNCHANGED <<files, unit, pc, local, bound, faults>>

\* RestartSec is over, or StartLimitBurst is reached.
Relaunch ==
    /\ svc = "backoff"
    /\ svc' \in {"start", "down"}
    /\ UNCHANGED <<files, qemu, unit, pc, local, bound, faults>>

\* workloadctl start, stop and restart
OperatorStart ==
    /\ svc = "down" /\ svc' = "start"
    /\ UNCHANGED <<files, qemu, unit, pc, local, bound, faults>>

OperatorStop ==
    /\ svc # "down" /\ svc' = "down" /\ qemu' = None
    /\ UNCHANGED <<files, unit, pc, local, bound, faults>>

\* A process is killed: Ctrl-C, or TimeoutStartSec= for the build unit.  An unlink
\* of a prune that fails ends the command like this: neither prune is inside the
\* try that would undo the rotation.
Kill(p) ==
    /\ ~At(p, "idle")
    /\ Fault
    /\ Finish(p)
    /\ IF p = BuildUnit
       THEN unit' = "inactive" /\ svc' = IF svc = "build" THEN "down" ELSE svc
       ELSE UNCHANGED <<unit, svc>>
    /\ UNCHANGED <<files, qemu, bound>>

\* The host goes down and comes back; the generator enqueues a start.
Reboot ==
    /\ Fault
    /\ qemu' = None /\ svc' = "start" /\ unit' = "inactive"
    /\ pc' = [p \in Processes |-> "idle"] /\ cmd' = [p \in Processes |-> "none"]
    /\ rotated' = [p \in Processes |-> 0] /\ target' = [p \in Processes |-> 0]
    /\ copying' = [p \in Processes |-> None]
    /\ UNCHANGED <<files, found, bound>>

-----------------------------------------------------------------------------
\* The build unit is at work and so is a command that has not reached systemctl.
Overlapping ==
    unit = "running" /\ \E p \in Procs : pc[p] \notin {"idle", "wait", "exit", "failed"}

Step(p) ==
    \/ CheckDisk(p) \/ PruneGenerations(p) \/ BeginCopy(p) \/ EndCopy(p) \/ UnlinkDisk(p)
    \/ RestoreGeneration(p) \/ FinishBuild(p) \/ RestartService(p) \/ AwaitService(p)
    \/ StopService(p) \/ RotateCurrent(p) \/ SwapIn(p) \/ UndoSwap(p)
    \/ PruneAfterSwap(p) \/ StartService(p) \/ Exit(p)

Systemd == BeginStart \/ EndBuild \/ Launch \/ Relaunch

Next ==
    /\ \/ \E p \in Processes : Step(p) \/ Kill(p)
       \/ \E p \in Procs : StartRollback(p) \/ \E pet \in BOOLEAN : StartUpdate(p, pet)
       \/ Systemd \/ GuestExit \/ OperatorStart \/ OperatorStop \/ Reboot
    /\ overlapped' = (overlapped \/ Overlapping')

Spec == Init /\ [][Next]_vars
BootedSpec == BootedInit /\ [][Next]_vars

\* Commands and the build unit keep going, and systemd works off its jobs; the
\* guest and the operator promise nothing.  AwaitService is strongly fair:
\* systemctl is told that its job is finished, whatever happens next.
FairSpec ==
    /\ Spec
    /\ WF_state(Systemd)
    /\ \A p \in Processes : WF_state(Step(p)) /\ SF_state(AwaitService(p))

-----------------------------------------------------------------------------
(* Properties *)

OnDisk == {sys} \cup Range(gens)

\* The disk of before an update or rollback is there, active or as a generation,
\* until the next one, whatever fails, is killed or crashes, as long as the
\* build unit does not run beside a command.
DiskOfBeforeIsKept ==
    ~overlapped => \A p \in Procs : found[p] \in whole => found[p] \in OnDisk

\* The except clauses of build_disks and rollback_to put the disk of before
\* back, whatever the guest and systemd did meanwhile, the one of rollback unless
\* the build unit ran beside it; ADR 003: "a failed rollback still leaves a
\* bootable VM".
FailureIsUndone ==
    [][\A p \in Procs :
          pc[p] \in {"restore", "unswap"} /\ pc'[p] = "failed" /\ rotated[p] # 0
              => sys' = found[p] \/ (pc[p] = "unswap" /\ overlapped)]_vars

\* ADR 003: a rollback that has swapped its target in left the disk of before
\* as the newest generation, so rolling back again rolls forward.
RollbackIsReversible ==
    \A p \in Procs :
        At(p, "start") /\ rotated[p] # 0
            => sys # found[p] /\ gens[Max(DOMAIN gens)] = found[p]

\* rollback_keep + 1 generations are retained; one more while a command is
\* between its rotation and its prune, or for each one cut short there.
GenerationsBounded ==
    Cardinality(DOMAIN gens)
        <= Keep + 1 + faults + Cardinality({p \in Procs : pc[p] \in {"prune", "swap"}})

\* The two invariants of the files themselves.
DisksInOrder == TypeOK /\ GenerationsBounded

\* An update that reports success with the VM running has it on the disk that
\* is system.qcow2 now: systemctl restart left no QEMU on the rotated one.
GuestRunsNewDisk ==
    \A p \in Procs :
        At(p, "exit") /\ cmd[p] = "update" /\ svc = "up" => qemu = sys

\* docs/workloads.md of a failed rebuild: the rotated generation "is renamed
\* back to `system.qcow2` so the service still has a usable disk", with or
\* without a build unit beside it.
DiskIsNeverLost ==
    \A p \in Procs : found[p] \in whole => found[p] \in OnDisk

\* docs/cli.md: "The VM is restarted after the new disk is ready": QEMU is never
\* started on a disk that is still being written.
NoHalfDiskBooted == qemu \in whole \cup {None}

\* A start job never hangs on the build unit, and every command ends.
StartsSettle ==
    /\ (svc \in {"start", "build", "launch"}) ~> Settled
    /\ \A p \in Procs : (pc[p] # "idle") ~> (pc[p] = "idle")
=============================================================================
