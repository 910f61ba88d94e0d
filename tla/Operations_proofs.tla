-------------------------- MODULE Operations_proofs --------------------------
(***************************************************************************)
(* Captures, backups and restores beside the units they work on: a capture *)
(* takes what it added to the host away with it and disturbs nobody else,  *)
(* an archive is of one moment, a restore spares what is mounted, and a    *)
(* backup gives back what it took: for any number of workloads and every   *)
(* budget of commands, faults and kills.                                   *)
(***************************************************************************)
EXTENDS Operations_captures

-----------------------------------------------------------------------------
(* The units beside a backup.                                                *)

(* What a step of the units may do to a workload, as far as a backup cares: a  *)
(* payload is started only with one boot more, nobody but the guest writes     *)
(* its data, and nobody but a backup pauses it or has the monitor as one.      *)
Undisturbed(w) ==
    /\ boots'[w] = boots[w] \/ boots'[w] = boots[w] + 1
    /\ boots'[w] = boots[w] => /\ unit'[w] \in {"activating", "active"}
                                     => unit[w] \in {"activating", "active"}
                               /\ guest'[w] = "running" => guest[w] = "running"
    /\ guest'[w] = "paused" => guest[w] = "paused"
    /\ monitor'[w] = "backup" => monitor[w] = "backup"
    /\ w \in VMs /\ guest'[w] = "paused" /\ monitor[w] = "backup" => monitor'[w] = "backup"
    /\ data'[w] = data[w] \/ guest[w] = "running"
    /\ w \in VMs /\ unit[w] = "stopping" /\ unit'[w] = "ending"
          => monitor[w] \in {"shutdown", "backup"}

\* The units' own steps disturb no backup so.
LEMMA UnitsUndisturbed ==
    ASSUME VmTypes, UnitInv, VmNext, NEW x \in Workloads
    PROVE  Undisturbed(x)
<1>0. /\ unit \in [Workloads -> Units] /\ guest \in [Workloads -> {"off", "running", "paused"}]
      /\ monitor \in [Workloads -> Clients]
      /\ data \in [Workloads -> Nat] /\ boots \in [Workloads -> Nat]
  BY DEF VmTypes
<1>. USE <1>0 DEF Undisturbed
<1>1. CASE Suspend
  BY <1>1 DEF Suspend
<1>2. CASE ~Suspend
  <2>1. PICK w \in left.on :
               \/ UnitStep(w) \/ Start(w) \/ Stop(w) \/ ReadyTimeout(w)
               \/ \E failed \in BOOLEAN : Exits(w, failed)
               \/ Write(w)
               \/ w \in VMs /\ Tick(w)
    BY <1>2, Zenon DEF VmNext
  <2>2. w \in Workloads
    BY DEF VmTypes, Allowances
  <2>3. CASE Ready(w)
    BY <2>2, <2>3 DEF Ready, UnitInv
  <2>4. CASE Ends(w)
    BY <2>2, <2>4 DEF Ends, QemuExit
  <2>5. CASE Shutdown(w)
    BY <2>2, <2>5 DEF Shutdown, Reachable
  <2>6. CASE PowersOff(w)
    BY <2>2, <2>6 DEF PowersOff, QemuExit
  <2>7. CASE IgnoresPowerdown(w)
    BY <2>2, <2>7 DEF IgnoresPowerdown
  <2>8. CASE ShutdownFails(w)
    BY <2>2, <2>8 DEF ShutdownFails, Held, Clients
  <2>9. CASE Start(w)
    BY <2>2, <2>9 DEF Start, Supervise
  <2>10. CASE Stop(w)
    <3>1. StopState(w) \in {"inactive", "stopping", "ending"}
      BY <2>2, StopStateTyped
    <3>. QED  BY <2>2, <2>10, <3>1, Zenon DEF Stop
  <2>11. CASE ReadyTimeout(w)
    BY <2>2, <2>11 DEF ReadyTimeout
  <2>12. CASE \E failed \in BOOLEAN : Exits(w, failed)
    BY <2>2, <2>12 DEF Exits, Supervise, QemuExit
  <2>13. CASE Write(w)
    BY <2>2, <2>13 DEF Write
  <2>14. CASE Tick(w)
    BY <2>2, <2>14 DEF Tick
  <2>. QED  BY <2>1, <2>3, <2>4, <2>5, <2>6, <2>7, <2>8, <2>9, <2>10, <2>11, <2>12, <2>13,
               <2>14, Zenon DEF UnitStep
<1>. QED  BY <1>1, <1>2

\* What a backup knows outlasts such steps.
LEMMA BackupUndisturbed ==
    ASSUME VmTypes, VmTypes', BackupTypes, BackupInv, CopyInv, RestoreInv,
           \A x \in Workloads : Undisturbed(x), UNCHANGED backupVars
    PROVE  BackupInv' /\ CopyInv' /\ RestoreInv'
<1>0. op \in Ops /\ op.workload \in Workloads /\ op.boots \in Nat /\ op.first \in Int
  BY DEF BackupTypes, Ops
<1>1. /\ boots[op.workload] \in Nat /\ boots'[op.workload] \in Nat
      /\ data[op.workload] \in Nat
  BY <1>0 DEF VmTypes
<1>2. op' = op /\ archive' = archive /\ mount' = mount
  BY DEF backupVars
<1>3. Undisturbed(op.workload)
  BY <1>0
<1>8. op.boots <= boots[op.workload] /\ boots[op.workload] <= boots'[op.workload]
  <2>1. op.boots <= boots[op.workload]
    BY DEF BackupInv
  <2>2. \/ boots'[op.workload] = boots[op.workload]
        \/ boots'[op.workload] = boots[op.workload] + 1
    BY <1>3, Zenon DEF Undisturbed
  <2>. QED  BY <1>1, <2>1, <2>2
<1>4. SameBoot' => SameBoot /\ boots'[op.workload] = boots[op.workload]
  <2>1. boots'[op.workload] = op.boots => boots[op.workload] = op.boots
    BY <1>0, <1>1, <1>8
  <2>. QED  BY <1>2, <2>1 DEF SameBoot
<1>5. BackupInv'
  <2>1. op'.boots <= boots'[op'.workload]
    <3>1. op.boots <= boots'[op.workload]
      BY <1>0, <1>1, <1>8
    <3>. QED  BY <1>2, <3>1
  <2>2. op.pc = "started" => ~SameBoot'
    BY <1>4, Zenon DEF BackupInv
  <2>. QED  BY <1>2, <1>3, <1>4, <2>1, <2>2, Zenon DEF Undisturbed, BackupInv
<1>6. CopyInv'
  BY <1>2, <1>3, <1>4, Zenon DEF Undisturbed, CopyInv, Still, Resumes
<1>7. RestoreInv'
  BY <1>2 DEF RestoreInv, MountsUnder, DataDirIsMount
<1>. QED  BY <1>5, <1>6, <1>7

-----------------------------------------------------------------------------
(* Backups and restores.                                                     *)

\* No operation knows nothing.
LEMMA NoOpFields ==
    /\ NoOp.pc = "idle" /\ NoOp.boots = 0 /\ NoOp.asked = "none"
    /\ ~NoOp.noStop /\ ~NoOp.wasActive
BY DEF NoOp

\* One pc after another is an operation still, or none.
LEMMA StepTyped ==
    ASSUME op \in Ops, NEW from, NEW to \in OpPcs, Step(from, to)
    PROVE  /\ op' \in Ops
           /\ to = "idle" => op' = NoOp
           /\ to # "idle" => /\ op' = [op EXCEPT !.pc = to]
                             /\ op'.pc = to /\ op'.workload = op.workload
                             /\ op'.boots = op.boots /\ op'.asked = op.asked
                             /\ op'.noStop = op.noStop /\ op'.wasActive = op.wasActive
                             /\ op'.first = op.first /\ op'.second = op.second
                             /\ op'.force = op.force
BY NoOpTyped DEF Step, Ops

\* A step of a backup or restore keeps the types, and what ties a unit to its
\* payload.
LEMMA BackupTyped ==
    ASSUME VmTypes, BackupTypes, UnitInv, BackupInv, RestoreInv, BackupNext
    PROVE  VmTypes' /\ UnitInv' /\ BackupTypes'
<1>. DEFINE w == op.workload
<1>0. /\ op \in Ops /\ w \in Workloads /\ left \in Allowances
      /\ boots[w] \in Nat /\ data[w] \in Nat
  BY DEF BackupTypes, VmTypes, Ops
<1>1. UNCHANGED vmVars => VmTypes' /\ UnitInv'
  BY DEF vmVars, VmTypes, UnitInv
<1>2. ASSUME UNCHANGED <<unit, guest, monitor, tap, skew, data, boots>>, left' \in Allowances
      PROVE  VmTypes' /\ UnitInv'
  BY <1>2 DEF VmTypes, UnitInv
<1>3. ASSUME op' \in Ops, UNCHANGED <<archive, mount, elsewhere, present>>
      PROVE  BackupTypes'
  BY <1>3 DEF BackupTypes
<1>4. OpPcs = {"halted", "config", "guard", "tree", "idle", "probe", "connect", "pause", "check",
               "stopped", "copy", "copy_on", "tar", "finally", "resync", "started"}
  BY DEF OpPcs, Restoring
<1>10. CASE Probe
  <2>1. op' \in Ops
    BY <1>0, <1>4, <1>10, Zenon DEF Probe, Ops
  <2>. QED  BY <2>1, <1>1, <1>3, <1>10 DEF Probe
<1>11. CASE Connect
  <2>1. op' \in Ops
    BY <1>0, <1>4, <1>11, StepTyped DEF Connect
  <2>2. VmTypes' /\ UnitInv'
    BY <1>0, <1>11 DEF Connect, Reachable, VmTypes, Clients, UnitInv
  <2>. QED  BY <2>1, <2>2, <1>3, <1>11 DEF Connect
<1>12. CASE ConnectFails
  BY <1>0, <1>1, <1>3, <1>4, <1>12, StepTyped DEF ConnectFails
<1>13. CASE Pause
  <2>1. op' \in Ops
    BY <1>0, <1>4, <1>13, Zenon DEF Pause, Ops
  <2>2. VmTypes' /\ UnitInv'
    BY <1>0, <1>13 DEF Pause, VmTypes, UnitInv
  <2>. QED  BY <2>1, <2>2, <1>3, <1>13 DEF Pause
<1>14. CASE PauseFails
  <2>1. op' \in Ops
    BY <1>0, <1>4, <1>14, StepTyped DEF PauseFails
  <2>2. left' \in Allowances
    BY <1>0, <1>14, SpendTyped DEF PauseFails
  <2>3. UNCHANGED <<unit, tap, skew, data, boots>>
    BY <1>14 DEF PauseFails
  <2>4. CASE monitor[w] # "backup"
    BY <1>2, <1>3, <1>14, <2>1, <2>2, <2>3, <2>4 DEF PauseFails
  <2>5. CASE monitor[w] = "backup"
    <3>1. /\ guest' = guest \/ guest' = [guest EXCEPT ![w] = "paused"]
          /\ monitor' = [monitor EXCEPT ![w] = "free"]
      BY <1>14, <2>5 DEF PauseFails
    <3>2. VmTypes' /\ UnitInv'
      BY <1>0, <2>2, <2>3, <2>5, <3>1 DEF VmTypes, Clients, UnitInv
    <3>. QED  BY <3>2, <1>3, <1>14, <2>1 DEF PauseFails
  <2>. QED  BY <2>4, <2>5
<1>15. CASE Check
  <2>1. op' \in Ops
    <3>1. PICK a \in BOOLEAN, b \in Nat, k \in Asked, p \in {"stopped", "copy"} :
               op' = [op EXCEPT !.wasActive = a, !.boots = b, !.asked = k, !.pc = p]
      <4>1. (unit[w] = "active") \in BOOLEAN
        OBVIOUS
      <4>2. op.boots \in Nat /\ op.asked \in Asked /\ "unsettled" \in Asked
        BY <1>0 DEF Ops, Asked
      <4>. QED  BY <1>0, <1>15, <4>1, <4>2, Zenon DEF Check
    <3>. QED  BY <1>0, <1>4, <3>1, Zenon DEF Ops
  <2>2. VmTypes' /\ UnitInv'
    <3>1. CASE unit' = unit
      BY <1>2, <1>0, <1>15, <3>1 DEF Check
    <3>2. CASE unit' # unit
      BY <1>0, <1>15, <3>2, StopTyped DEF Check
    <3>. QED  BY <3>1, <3>2
  <2>. QED  BY <2>1, <2>2, <1>3, <1>15 DEF Check
<1>16. CASE Stopped("stopped", "copy") \/ Stopped("halted", "config")
  BY <1>0, <1>1, <1>3, <1>4, <1>16, StepTyped DEF Stopped
<1>17. CASE Copy
  <2>1. op' \in Ops
    <3>1. Captured(w) \in BOOLEAN
      BY DEF Captured
    <3>2. data[w] \in Int
      BY <1>0
    <3>. QED  BY <1>0, <1>4, <1>17, <3>1, <3>2, Zenon DEF Copy, Ops
  <2>. QED  BY <2>1, <1>1, <1>3, <1>17 DEF Copy
<1>18. CASE CopyOn
  <2>1. op' \in Ops
    <3>1. data[w] \in Int
      BY <1>0
    <3>. QED  BY <1>0, <1>4, <1>18, <3>1, Zenon DEF CopyOn, Ops
  <2>. QED  BY <2>1, <1>1, <1>3, <1>18 DEF CopyOn
<1>19. CASE Tar
  <2>1. op' \in Ops
    BY <1>0, <1>4, <1>19, StepTyped DEF Tar
  <2>2. PICK k \in Asked :
               archive' = [archive EXCEPT ![w] =
                             [first |-> op.first, second |-> op.second, under |-> op.under,
                              asked |-> k]]
    <3>1. op.asked \in Asked /\ "raced" \in Asked
      BY <1>0 DEF Ops, Asked
    <3>. QED  BY <1>19, <3>1, Zenon DEF Tar
  <2>3. [first |-> op.first, second |-> op.second, under |-> op.under, asked |-> k] \in Archives
    BY <1>0 DEF Ops, Archives
  <2>4. archive' \in [Workloads -> Archives]
    BY <2>2, <2>3, Zenon DEF BackupTypes
  <2>. QED  BY <2>1, <2>4, <1>1, <1>19 DEF Tar, BackupTypes
<1>20. CASE CopyFails
  <2>1. op' \in Ops
    BY <1>0, <1>4, <1>20 DEF CopyFails, Ops
  <2>2. left' \in Allowances
    BY <1>0, <1>20, SpendTyped DEF CopyFails
  <2>. QED  BY <2>1, <2>2, <1>2, <1>3, <1>20 DEF CopyFails
<1>21. CASE Resume
  <2>1. op' \in Ops
    BY <1>0, <1>4, <1>21, StepTyped DEF Resume
  <2>2. CASE monitor[w] = "backup"
    <3>1. PICK lost \in {60, 3600} : skew' = [skew EXCEPT ![w] = -lost]
      BY <1>21, <2>2 DEF Resume
    <3>2. skew' \in [Workloads -> Skews]
      <4>1. -lost \in Skews
        BY LostTyped
      <4>2. skew \in [Workloads -> Skews]
        BY DEF VmTypes
      <4>3. \A s \in Skews : [skew EXCEPT ![w] = s] \in [Workloads -> Skews]
        BY <4>2, SkewTyped
      <4>4. PICK s \in Skews : s = -lost
        BY <4>1
      <4>5. skew' = [skew EXCEPT ![w] = s]
        BY <3>1, <4>4
      <4>. QED  BY <4>3, <4>5
    <3>3. VmTypes' /\ UnitInv'
      BY <1>0, <1>21, <2>2, <3>2 DEF Resume, VmTypes, UnitInv
    <3>4. UNCHANGED <<archive, mount, elsewhere, present>>
      BY <1>21 DEF Resume
    <3>. QED  BY <2>1, <3>3, <3>4, <1>3
  <2>3. CASE monitor[w] # "backup"
    BY <2>1, <2>3, <1>0, <1>2, <1>3, <1>21, Zenon DEF Resume
  <2>. QED  BY <2>2, <2>3
<1>33. CASE StopFails
  <2>1. op' \in Ops
    BY <1>0, <1>4, <1>33, StepTyped, NoOpTyped DEF StopFails
  <2>2. left' \in Allowances
    BY <1>0, <1>33, SpendTyped DEF StopFails
  <2>. QED  BY <2>1, <2>2, <1>2, <1>3, <1>33 DEF StopFails
<1>34. CASE ResumeFails
  <2>1. op' \in Ops
    BY <1>0, <1>4, <1>34, Zenon DEF ResumeFails, Ops
  <2>2. left' \in Allowances
    BY <1>0, <1>34, SpendTyped DEF ResumeFails
  <2>3. CASE UNCHANGED <<guest, skew>>
    BY <2>1, <2>2, <2>3, <1>2, <1>3, <1>34 DEF ResumeFails
  <2>4. CASE guest' = [guest EXCEPT ![w] = "running"] /\ skew' = [skew EXCEPT ![w] = -60]
    <3>1. -60 \in Skews
      BY LostTyped
    <3>2. skew' \in [Workloads -> Skews]
      BY <2>4, <3>1, SkewTyped DEF VmTypes
    <3>3. VmTypes' /\ UnitInv'
      BY <1>0, <1>34, <2>2, <2>4, <3>2 DEF ResumeFails, VmTypes, UnitInv
    <3>. QED  BY <2>1, <3>3, <1>3, <1>34 DEF ResumeFails
  <2>. QED  BY <1>34, <2>3, <2>4 DEF ResumeFails
<1>22. CASE Resync
  <2>1. op' \in Ops
    BY <1>0, <1>4, <1>22, StepTyped DEF Resync
  <2>2. KeepGuestClock(w, BACKUP_RESYNC_THRESHOLD_SECONDS) \in Skews
    BY <1>0, ClockTyped DEF BACKUP_RESYNC_THRESHOLD_SECONDS
  <2>3. skew' \in [Workloads -> Skews]
    BY <1>22, <2>2, Zenon DEF Resync, VmTypes
  <2>4. monitor' = monitor \/ (monitor[w] = "backup" /\ monitor' = [monitor EXCEPT ![w] = "free"])
    BY <1>22, Zenon DEF Resync, VmTypes
  <2>5. VmTypes' /\ UnitInv'
    BY <1>0, <1>22, <2>3, <2>4 DEF Resync, VmTypes, Clients, UnitInv
  <2>. QED  BY <2>1, <2>5, <1>3, <1>22 DEF Resync
<1>23. CASE StartAgain
  <2>1. op' \in Ops
    BY <1>0, <1>4, <1>23, StepTyped DEF StartAgain
  <2>2. VmTypes' /\ UnitInv'
    <3>1. CASE Supervise(w)
      BY <1>0, <1>23, <3>1, SuperviseTyped DEF StartAgain
    <3>2. CASE ~Supervise(w)
      BY <1>0, <1>2, <1>23, <3>2 DEF StartAgain
    <3>. QED  BY <3>1, <3>2
  <2>. QED  BY <2>1, <2>2, <1>3, <1>23 DEF StartAgain
<1>24. CASE StartedAgain
  BY <1>0, <1>1, <1>3, <1>4, <1>24, StepTyped DEF StartedAgain
<1>25. CASE KillBackup
  <2>1. op' \in Ops
    BY <1>25, NoOpTyped DEF KillBackup
  <2>2. left' \in Allowances
    BY <1>0, <1>25, SpendTyped DEF KillBackup
  <2>3. monitor' = monitor \/ (monitor[w] = "backup" /\ monitor' = [monitor EXCEPT ![w] = "free"])
    BY <1>25, Zenon DEF KillBackup, VmTypes
  <2>4. VmTypes' /\ UnitInv'
    BY <1>0, <1>25, <2>2, <2>3 DEF KillBackup, VmTypes, Clients, UnitInv
  <2>. QED  BY <2>1, <2>4, <1>3, <1>25 DEF KillBackup
<1>26. CASE RestoreConfig
  BY <1>0, <1>1, <1>4, <1>26, StepTyped DEF RestoreConfig, BackupTypes
<1>27. CASE Guard
  <2>1. op' \in Ops
    BY <1>0, <1>4, <1>27, StepTyped DEF Guard
  <2>2. left' \in Allowances
    BY <1>0, <1>27, SpendTyped, Zenon DEF Guard
  <2>. QED  BY <2>1, <2>2, <1>2, <1>3, <1>27 DEF Guard
<1>28. CASE RestoreTree
  <2>1. op' \in Ops
    BY <1>0, <1>4, <1>28, StepTyped DEF RestoreTree
  <2>2. archive[w].first \in Nat
    BY <1>0, <1>28 DEF RestoreTree, Step, At, RestoreInv, Restoring
  <2>3. VmTypes' /\ UnitInv'
    BY <1>0, <1>28, <2>2, Zenon DEF RestoreTree, VmTypes, UnitInv
  <2>4. PICK b \in BOOLEAN : elsewhere' = [elsewhere EXCEPT ![w] = b]
    <3>1. (/\ elsewhere[w]
           /\ op.force => mount[w] = "none"
           /\ archive[w].under => mount[w] \notin {"bind_under", "filesystem_under"}) \in BOOLEAN
      OBVIOUS
    <3>. QED  BY <1>28, <3>1, Zenon DEF RestoreTree
  <2>5. elsewhere' \in [Workloads -> BOOLEAN]
    BY <2>4, Zenon DEF BackupTypes
  <2>. QED  BY <2>1, <2>3, <2>5, <1>28 DEF RestoreTree, BackupTypes
<1>29. ASSUME NEW x \in left.on, NEW crash \in BOOLEAN, StartBackup(x, crash)
       PROVE  VmTypes' /\ UnitInv' /\ BackupTypes'
  <2>1. x \in Workloads
    BY <1>0 DEF Allowances
  <2>2. op' \in Ops
    <3>1. PICK k \in {"crash", "cold"}, p \in {"probe", "check"} :
               op' = [NoOp EXCEPT !.workload = x, !.noStop = crash, !.asked = k, !.pc = p]
      BY <1>29, Zenon DEF StartBackup
    <3>. QED  BY <1>4, <2>1, <3>1, NoOpTyped, Zenon DEF Ops, Asked
  <2>3. left' \in Allowances
    BY <1>0, <1>29, SpendTyped DEF StartBackup
  <2>. QED  BY <2>2, <2>3, <1>2, <1>3, <1>29 DEF StartBackup
<1>30. ASSUME NEW x \in left.on, NEW force \in BOOLEAN, StartRestore(x, force)
       PROVE  VmTypes' /\ UnitInv' /\ BackupTypes'
  <2>1. x \in Workloads
    BY <1>0 DEF Allowances
  <2>2. boots[x] \in Nat
    BY <2>1 DEF VmTypes
  <2>3. op' \in Ops
    BY <1>4, <1>30, <2>1, <2>2, NoOpTyped, Zenon DEF StartRestore, Ops
  <2>4. left' \in Allowances
    BY <1>0, <1>30, SpendTyped DEF StartRestore
  <2>5. VmTypes' /\ UnitInv'
    BY <1>30, <2>1, <2>4, StopTyped, Zenon DEF StartRestore
  <2>. QED  BY <2>3, <2>5, <1>3, <1>30 DEF StartRestore
<1>31. ASSUME NEW x \in left.on, NEW what \in Mounts, Mount(x, what)
       PROVE  VmTypes' /\ UnitInv' /\ BackupTypes'
  <2>1. left' \in Allowances
    BY <1>0, <1>31, SpendTyped, Zenon DEF Mount
  <2>2. mount' \in [Workloads -> Mounts]
    BY <1>31, Zenon DEF Mount, BackupTypes
  <2>. QED  BY <2>1, <2>2, <1>2, <1>31 DEF Mount, BackupTypes
<1>32. ASSUME NEW x \in left.on, Forget(x)
       PROVE  VmTypes' /\ UnitInv' /\ BackupTypes'
  <2>1. left' \in Allowances
    BY <1>0, <1>32, SpendTyped DEF Forget
  <2>2. present' \in [Workloads -> BOOLEAN]
    BY <1>32, Zenon DEF Forget, BackupTypes
  <2>. QED  BY <2>1, <2>2, <1>2, <1>32 DEF Forget, BackupTypes
<1>. QED  BY <1>10, <1>11, <1>12, <1>13, <1>14, <1>15, <1>16, <1>17, <1>18, <1>19, <1>20, <1>21,
             <1>22, <1>23, <1>24, <1>25, <1>26, <1>27, <1>28, <1>29, <1>30, <1>31, <1>32,
             <1>33, <1>34, Zenon DEF BackupNext, BackupStep

\* When no operation is at work there is nothing to know.
LEMMA IdleKnows ==
    ASSUME VmTypes', op' = NoOp
    PROVE  BackupInv' /\ CopyInv'
<1>1. op'.workload \in Workloads
  BY NoOpTyped DEF Ops
<1>2. boots'[op'.workload] \in Nat
  BY <1>1 DEF VmTypes
<1>3. /\ op'.pc = "idle" /\ op'.boots = 0 /\ op'.asked = "none"
      /\ ~op'.noStop /\ ~op'.wasActive
  BY NoOpFields
<1>. QED  BY <1>2, <1>3 DEF BackupInv, CopyInv, Restoring

\* A step of a backup or restore keeps what the command knows of the workload.
LEMMA BackupKnows ==
    ASSUME VmTypes, VmTypes', BackupTypes, BackupTypes', UnitInv, BackupInv, CopyInv, BackupNext
    PROVE  BackupInv' /\ CopyInv'
<1>. DEFINE w == op.workload
            Same == /\ op'.workload = w /\ op'.boots = op.boots /\ op'.asked = op.asked
                    /\ op'.noStop = op.noStop /\ op'.wasActive = op.wasActive
                    /\ op'.first = op.first
<1>0. /\ op \in Ops /\ w \in Workloads /\ op.boots \in Nat
      /\ boots[w] \in Nat /\ data[w] \in Nat
      /\ boots \in [Workloads -> Nat]
      /\ unit \in [Workloads -> Units] /\ guest \in [Workloads -> {"off", "running", "paused"}]
      /\ monitor \in [Workloads -> Clients]
  BY DEF BackupTypes, VmTypes, Ops
<1>1. op' = NoOp => BackupInv' /\ CopyInv'
  BY IdleKnows
<1>2. ASSUME NEW from, NEW to \in OpPcs \ {"idle"}, Step(from, to)
      PROVE  op.pc = from /\ op'.pc = to /\ Same
  BY <1>0, <1>2, StepTyped DEF Step, At
<1>3. ASSUME NEW from, Step(from, "idle") PROVE op' = NoOp
  BY <1>3 DEF Step
<1>4. {"halted", "config", "guard", "tree", "pause", "copy", "copy_on", "finally", "resync",
       "started"} \subseteq OpPcs \ {"idle"}
  BY DEF OpPcs, Restoring
<1>5. ASSUME Same, op.pc \in Restoring, op'.pc \in Restoring, UNCHANGED boots
      PROVE  BackupInv' /\ CopyInv'
  <2>1. op'.boots <= boots'[op'.workload] /\ ~op'.wasActive /\ (op'.asked = "cold" => ~op'.noStop)
    BY <1>5 DEF BackupInv
  <2>. QED  BY <1>5, <2>1, Zenon DEF BackupInv, CopyInv, Restoring
<1>10. CASE Probe
  <2>1. /\ op.pc = "probe" /\ op'.workload = w /\ op'.boots = op.boots /\ op'.asked = op.asked
        /\ op'.wasActive = op.wasActive
        /\ \/ op'.pc = "connect" /\ op'.noStop = op.noStop
           \/ op'.pc = "check" /\ op'.noStop = FALSE
    BY <1>0, <1>10 DEF Probe, At, Ops
  <2>2. UNCHANGED <<boots, guest, unit, monitor>>
    BY <1>10 DEF Probe, vmVars
  <2>. QED  BY <2>1, <2>2, Zenon DEF BackupInv, CopyInv, Resumes, Restoring
<1>11. CASE Connect
  <2>1. op.pc = "connect" /\ op'.pc = "pause" /\ Same /\ UNCHANGED boots
    BY <1>2, <1>4, <1>11 DEF Connect
  <2>. QED  BY <2>1, Zenon DEF BackupInv, CopyInv, Restoring
<1>12. CASE ConnectFails \/ PauseFails \/ Resync \/ StartedAgain \/ RestoreTree
  BY <1>1, <1>3, <1>12, Zenon DEF ConnectFails, PauseFails, Resync, StartedAgain, RestoreTree
<1>13. CASE Pause
  <2>1. /\ op.pc = "pause" /\ op'.pc = "check" /\ op'.workload = w /\ op'.boots = boots[w]
        /\ op'.asked = op.asked /\ op'.noStop = op.noStop /\ op'.wasActive = op.wasActive
    BY <1>0, <1>13 DEF Pause, At, Ops
  <2>2. guest'[w] = "paused" /\ UNCHANGED boots
    BY <1>0, <1>13 DEF Pause
  <2>3. BackupInv'
    <3>1. op'.boots <= boots'[op'.workload]
      BY <1>0, <2>1, <2>2, Counts, Zenon
    <3>. QED  BY <2>1, <3>1, Zenon DEF BackupInv, Restoring
  <2>4. CopyInv'
    BY <2>1, <2>2, Zenon DEF CopyInv
  <2>. QED  BY <2>3, <2>4
<1>14. CASE Check
  <2>. DEFINE active == unit[w] = "active"
  <2>1. /\ op.pc = "check" /\ op'.workload = w /\ op'.noStop = op.noStop
        /\ op'.wasActive = active
        /\ op'.boots = IF Resumes THEN op.boots ELSE boots[w]
        /\ op'.asked = IF unit[w] \notin {"active", "inactive"} THEN "unsettled" ELSE op.asked
        /\ op'.pc = IF active /\ ~op.noStop THEN "stopped" ELSE "copy"
    BY <1>0, <1>14 DEF Check, At, Ops
  <2>2. UNCHANGED <<guest, monitor, data, boots>>
    BY <1>14 DEF Check
  <2>3. unit'[w] = IF active /\ ~op.noStop THEN StopState(w) ELSE unit[w]
    BY <1>0, <1>14 DEF Check
  <2>4. op'.pc \in {"stopped", "copy"} /\ op'.boots <= boots'[w]
    <3>1. op.boots <= boots[w] /\ boots[w] <= boots[w]
      BY <1>0, Counts, Zenon DEF BackupInv
    <3>. QED  BY <2>1, <2>2, <3>1
  <2>5. op'.wasActive /\ ~op'.noStop => unit'[w] \notin {"activating", "active"}
    BY <1>0, <2>1, <2>3, StopStateTyped, Zenon
  <2>6. op'.asked = "cold" => ~op'.noStop
    BY <2>1 DEF BackupInv
  <2>7. BackupInv'
    BY <2>1, <2>4, <2>5, <2>6, Zenon DEF BackupInv, Restoring
  <2>8. ASSUME op'.pc = "copy", Still', SameBoot' PROVE guest'[w] # "running"
    <3>1. op'.asked = op.asked /\ unit[w] \in {"active", "inactive"}
      BY <2>1, <2>8 DEF Still
    <3>2. CASE Resumes
      <4>1. SameBoot
        BY <2>1, <2>2, <2>8, <3>2 DEF SameBoot
      <4>. QED  BY <2>1, <2>2, <3>2, <4>1 DEF CopyInv
    <3>3. CASE ~Resumes
      <4>1. ~op.noStop
        BY <2>1, <2>8, <3>1, <3>3, Zenon DEF Still, Resumes, BackupInv
      <4>2. unit[w] = "inactive"
        BY <2>1, <2>8, <3>1, <4>1
      <4>. QED  BY <1>0, <2>2, <4>2 DEF UnitInv
    <3>. QED  BY <3>2, <3>3
  <2>9. CopyInv'
    BY <2>1, <2>8 DEF CopyInv
  <2>. QED  BY <2>7, <2>9
<1>15. CASE Stopped("stopped", "copy")
  <2>1. op.pc = "stopped" /\ op'.pc = "copy" /\ Same /\ UNCHANGED <<boots, unit, guest>>
    BY <1>2, <1>4, <1>15 DEF Stopped, vmVars
  <2>2. SameBoot => unit[w] = "inactive"
    BY <1>15 DEF Stopped, SameBoot
  <2>3. SameBoot' <=> SameBoot
    BY <2>1 DEF SameBoot
  <2>4. SameBoot => guest'[w] = "off"
    BY <1>0, <2>1, <2>2, Zenon DEF UnitInv
  <2>5. BackupInv'
    BY <2>1, <2>3 DEF BackupInv, Restoring
  <2>6. CopyInv'
    BY <2>1, <2>3, <2>4 DEF CopyInv
  <2>. QED  BY <2>5, <2>6
<1>16. CASE Stopped("halted", "config")
  <2>1. op.pc = "halted" /\ op'.pc = "config" /\ Same /\ UNCHANGED boots
    BY <1>2, <1>4, <1>16 DEF Stopped, vmVars
  <2>. QED  BY <1>5, <2>1 DEF Restoring
<1>17. CASE Copy
  <2>1. /\ op.pc = "copy" /\ op'.pc = "copy_on" /\ op'.workload = w /\ op'.boots = op.boots
        /\ op'.asked = op.asked /\ op'.noStop = op.noStop /\ op'.wasActive = op.wasActive
        /\ op'.first = data[w]
    BY <1>0, <1>17 DEF Copy, At, Ops
  <2>2. UNCHANGED <<boots, unit, guest, data>>
    BY <1>17 DEF Copy, vmVars
  <2>3. (SameBoot' <=> SameBoot) /\ (Still' <=> Still)
    BY <2>1, <2>2 DEF SameBoot, Still
  <2>4. BackupInv'
    BY <2>1, <2>2, <2>3 DEF BackupInv, Restoring
  <2>5. CopyInv'
    BY <1>0, <2>1, <2>2, <2>3, Zenon DEF CopyInv
  <2>. QED  BY <2>4, <2>5
<1>18. CASE CopyOn
  <2>1. /\ op.pc = "copy_on" /\ op'.pc = "tar" /\ Same /\ op'.second = data[w]
    BY <1>0, <1>18 DEF CopyOn, At, Ops
  <2>2. UNCHANGED <<boots, unit, guest, data>>
    BY <1>18 DEF CopyOn, vmVars
  <2>3. (SameBoot' <=> SameBoot) /\ (Still' <=> Still)
    BY <2>1, <2>2 DEF SameBoot, Still
  <2>4. BackupInv'
    BY <2>1, <2>2, <2>3, Zenon DEF BackupInv, Restoring
  <2>5. CopyInv'
    BY <2>1, <2>2, <2>3, Zenon DEF CopyInv
  <2>. QED  BY <2>4, <2>5
<1>19. CASE Tar \/ CopyFails
  <2>1. op.pc \in {"copy", "copy_on", "tar"} /\ op'.pc = "finally" /\ Same
    <3>1. CASE Tar
      BY <1>2, <1>4, <3>1, Zenon DEF Tar
    <3>2. CASE CopyFails
      BY <1>0, <3>2 DEF CopyFails, Ops
    <3>. QED  BY <1>19, <3>1, <3>2
  <2>2. UNCHANGED <<boots, unit, guest, data>>
    BY <1>19 DEF Tar, CopyFails, vmVars
  <2>3. SameBoot' <=> SameBoot
    BY <2>1, <2>2 DEF SameBoot
  <2>4. BackupInv'
    BY <2>1, <2>2, <2>3, Zenon DEF BackupInv, Restoring
  <2>5. CopyInv'
    BY <2>1, Zenon DEF CopyInv
  <2>. QED  BY <2>4, <2>5
<1>20. CASE Resume
  <2>1. op.pc = "finally" /\ op'.pc = "resync" /\ Same /\ op.noStop
    BY <1>2, <1>4, <1>20, Zenon DEF Resume, Resumes
  <2>2. UNCHANGED <<boots, monitor>> /\ (monitor[w] = "backup" => guest'[w] = "running")
    BY <1>0, <1>20 DEF Resume
  <2>3. BackupInv'
    <3>1. op.boots <= boots[w]
      BY DEF BackupInv
    <3>2. op'.boots <= boots'[op'.workload]
      BY <2>1, <2>2, <3>1
    <3>. QED  BY <2>1, <2>2, <3>2, Zenon DEF BackupInv, Restoring
  <2>4. CopyInv'
    BY <2>1 DEF CopyInv
  <2>. QED  BY <2>3, <2>4
<1>29. CASE ResumeFails
  <2>1. /\ op.pc = "finally" /\ op'.pc = "resync" /\ Same /\ op.noStop /\ op'.warned
        /\ UNCHANGED boots
    BY <1>0, <1>29 DEF ResumeFails, Resumes, At, Ops
  <2>2. op'.boots <= boots'[op'.workload]
    BY <2>1 DEF BackupInv
  <2>. QED  BY <2>1, <2>2, Zenon DEF BackupInv, CopyInv, Restoring
<1>30. CASE StopFails
  <2>1. CASE op' = NoOp
    BY <1>1, <2>1
  <2>2. CASE Step("halted", "config")
    <3>1. op.pc = "halted" /\ op'.pc = "config" /\ Same /\ UNCHANGED boots
      BY <1>2, <1>4, <1>30, <2>2 DEF StopFails
    <3>. QED  BY <1>5, <3>1 DEF Restoring
  <2>. QED  BY <1>30, <2>1, <2>2 DEF StopFails
<1>21. CASE StartAgain
  <2>. DEFINE restarts == op.wasActive /\ ~op.noStop
  <2>1. CASE ~restarts
    BY <1>1, <1>3, <1>21, <2>1, Zenon DEF StartAgain
  <2>2. CASE restarts
    <3>1. op.pc = "finally" /\ op'.pc = "started" /\ Same
      <4>1. Step("finally", "started")
        BY <1>21, <2>2 DEF StartAgain
      <4>. QED  BY <1>2, <1>4, <4>1
    <3>2. unit[w] \notin {"stopping", "ending"}
      BY <1>21, <2>2 DEF StartAgain
    <3>3. CASE unit[w] = "inactive"
      <4>1. boots'[w] = boots[w] + 1
        BY <1>0, <1>21, <2>2, <3>3, Zenon DEF StartAgain, Supervise
      <4>2. op'.boots <= boots'[op'.workload] /\ ~SameBoot'
        <5>1. op.boots <= boots[w]
          BY DEF BackupInv
        <5>2. op.boots <= boots[w] + 1 /\ op.boots # boots[w] + 1
          BY <1>0, <5>1, Counts, Zenon
        <5>. QED  BY <3>1, <4>1, <5>2, Zenon DEF SameBoot
      <4>. QED  BY <3>1, <4>2, Zenon DEF BackupInv, CopyInv, Restoring
    <3>4. CASE unit[w] # "inactive"
      <4>1. unit[w] \in {"activating", "active"} /\ UNCHANGED boots
        BY <1>0, <1>21, <2>2, <3>2, <3>4, Zenon DEF StartAgain, Units
      <4>2. ~SameBoot
        BY <2>2, <3>1, <4>1 DEF BackupInv
      <4>3. op'.boots <= boots'[op'.workload] /\ ~SameBoot'
        <5>1. op.boots <= boots[w]
          BY DEF BackupInv
        <5>. QED  BY <3>1, <4>1, <4>2, <5>1 DEF SameBoot
      <4>. QED  BY <3>1, <4>3, Zenon DEF BackupInv, CopyInv, Restoring
    <3>. QED  BY <3>3, <3>4
  <2>. QED  BY <2>1, <2>2
<1>22. CASE KillBackup
  BY <1>1, <1>22 DEF KillBackup
<1>23. CASE RestoreConfig
  <2>1. op.pc = "config" /\ op'.pc = "guard" /\ Same /\ UNCHANGED boots
    BY <1>2, <1>4, <1>23 DEF RestoreConfig, vmVars
  <2>. QED  BY <1>5, <2>1 DEF Restoring
<1>24. CASE Guard
  <2>1. CASE op' = NoOp
    BY <1>1, <2>1
  <2>2. CASE op' # NoOp
    <3>1. Step("guard", "tree") /\ UNCHANGED boots
      BY <1>3, <1>24, <2>2 DEF Guard
    <3>2. op.pc = "guard" /\ op'.pc = "tree" /\ Same
      BY <1>2, <1>4, <3>1
    <3>. QED  BY <1>5, <3>1, <3>2 DEF Restoring
  <2>. QED  BY <2>1, <2>2
<1>25. ASSUME NEW x \in left.on, NEW crash \in BOOLEAN, StartBackup(x, crash)
       PROVE  BackupInv' /\ CopyInv'
  <2>1. /\ op'.workload = x /\ op'.noStop = crash /\ op'.boots = 0 /\ ~op'.wasActive
        /\ op'.asked = IF crash THEN "crash" ELSE "cold"
        /\ op'.pc = IF crash /\ x \in VMs THEN "probe" ELSE "check"
    BY <1>25 DEF StartBackup, NoOp
  <2>2. x \in Workloads /\ boots'[x] \in Nat
    BY DEF VmTypes, Allowances
  <2>3. BackupInv'
    <3>1. op'.boots <= boots'[op'.workload]
      BY <2>1, <2>2
    <3>. QED  BY <2>1, <3>1, Zenon DEF BackupInv, Restoring
  <2>4. CopyInv'
    BY <2>1, Zenon DEF CopyInv, Resumes
  <2>. QED  BY <2>3, <2>4
<1>26. ASSUME NEW x \in left.on, NEW force \in BOOLEAN, StartRestore(x, force)
       PROVE  BackupInv' /\ CopyInv'
  <2>1. /\ op'.workload = x /\ ~op'.noStop /\ op'.boots = boots[x] /\ ~op'.wasActive
        /\ op'.asked = "none" /\ op'.pc = "halted" /\ UNCHANGED boots
    BY <1>26 DEF StartRestore, NoOp
  <2>2. x \in Workloads /\ boots[x] \in Nat
    BY DEF VmTypes, Allowances
  <2>3. op'.boots <= boots'[op'.workload]
    BY <2>1, <2>2, Counts, Zenon
  <2>. QED  BY <2>1, <2>3, Zenon DEF BackupInv, CopyInv, Restoring
<1>27. ASSUME UNCHANGED <<op, unit, guest, monitor, data, boots>> PROVE BackupInv' /\ CopyInv'
  BY <1>27, Zenon DEF BackupInv, CopyInv, SameBoot, Still, Resumes
<1>28. ASSUME NEW x \in left.on, (\E what \in Mounts : Mount(x, what)) \/ Forget(x)
       PROVE  BackupInv' /\ CopyInv'
  BY <1>27, <1>28, Zenon DEF Mount, Forget
<1>. QED  BY <1>10, <1>11, <1>12, <1>13, <1>14, <1>15, <1>16, <1>17, <1>18, <1>19, <1>20, <1>21,
             <1>22, <1>23, <1>24, <1>25, <1>26, <1>28, <1>29, <1>30, Zenon
          DEF BackupNext, BackupStep

\* A step of a backup or restore spoils neither an archive nor what is mounted.
LEMMA BackupSpoilsNothing ==
    ASSUME BackupTypes, BackupTypes', CopyInv, RestoreInv, ArchiveIsConsistent, MountsSurvive,
           BackupNext
    PROVE  RestoreInv' /\ ArchiveIsConsistent' /\ MountsSurvive'
<1>. DEFINE w == op.workload
<1>0. op \in Ops /\ w \in Workloads
  BY DEF BackupTypes, Ops
<1>1. ASSUME UNCHANGED <<archive, mount, elsewhere>>,
             \/ op'.pc \notin Restoring
             \/ /\ op.pc \in Restoring /\ op'.workload = w /\ op'.pc \in Restoring \ {"tree"}
      PROVE  RestoreInv' /\ ArchiveIsConsistent' /\ MountsSurvive'
  <2>1. RestoreInv'
    BY <1>1, Zenon DEF RestoreInv, Restoring
  <2>. QED  BY <1>1, <2>1 DEF ArchiveIsConsistent, MountsSurvive
<1>2. ASSUME op' = NoOp PROVE op'.pc \notin Restoring
  BY <1>2, NoOpFields DEF Restoring
<1>3. CASE Probe \/ Connect \/ ConnectFails \/ Pause \/ PauseFails \/ Check
           \/ Stopped("stopped", "copy") \/ Copy \/ CopyOn
  <2>1. UNCHANGED <<archive, mount, elsewhere>>
    BY <1>3 DEF Probe, Connect, ConnectFails, Pause, PauseFails, Check, Stopped, Copy, CopyOn
  <2>2. op'.pc \notin Restoring
    BY <1>0, <1>2, <1>3, Zenon
       DEF Probe, Connect, ConnectFails, Pause, PauseFails, Check, Stopped, Copy, CopyOn,
           Step, Ops, Restoring
  <2>. QED  BY <1>1, <2>1, <2>2
<1>4. CASE CopyFails \/ KillBackup \/ Resume \/ ResumeFails \/ Resync \/ StartAgain
           \/ StartedAgain
  <2>1. UNCHANGED <<archive, mount, elsewhere>>
    BY <1>4 DEF CopyFails, KillBackup, Resume, ResumeFails, Resync, StartAgain, StartedAgain
  <2>2. op'.pc \notin Restoring
    BY <1>0, <1>2, <1>4 DEF CopyFails, KillBackup, Resume, ResumeFails, Resync, StartAgain,
                            StartedAgain, Step, Ops, Restoring
  <2>. QED  BY <1>1, <2>1, <2>2
<1>5. CASE Tar
  <2>1. op.pc = "tar" /\ op'.pc = "finally" /\ UNCHANGED <<mount, elsewhere>>
    BY <1>0, <1>5 DEF Tar, Step, At, Ops
  <2>2. /\ archive'[w].first = op.first /\ archive'[w].second = op.second
        /\ archive'[w].asked = IF boots[w] # op.boots THEN "raced" ELSE op.asked
        /\ \A x \in Workloads \ {w} : archive'[x] = archive[x]
    BY <1>0, <1>5, Zenon DEF Tar, BackupTypes
  <2>3. op.first \in Nat
    BY <2>1 DEF CopyInv
  <2>4. RestoreInv'
    BY <2>1, <2>2, <2>3, Zenon DEF RestoreInv, Restoring
  <2>5. archive'[w].asked = "cold" \/ (w \in VMs /\ archive'[w].asked = "crash")
           => archive'[w].first = archive'[w].second
    BY <2>1, <2>2, Zenon DEF CopyInv, Still, SameBoot
  <2>6. ArchiveIsConsistent'
    BY <2>2, <2>5 DEF ArchiveIsConsistent
  <2>. QED  BY <2>1, <2>4, <2>6 DEF MountsSurvive
<1>6. CASE Stopped("halted", "config") \/ RestoreConfig
  <2>1. UNCHANGED <<archive, mount, elsewhere>>
    BY <1>6 DEF Stopped, RestoreConfig
  <2>2. op.pc \in Restoring /\ op'.workload = w /\ op'.pc \in Restoring \ {"tree"}
    BY <1>0, <1>6 DEF Stopped, RestoreConfig, Step, At, Ops, Restoring
  <2>. QED  BY <1>1, <2>1, <2>2
<1>12. CASE StopFails
  <2>1. UNCHANGED <<archive, mount, elsewhere>>
    BY <1>12 DEF StopFails
  <2>2. CASE op' = NoOp
    BY <1>1, <1>2, <2>1, <2>2
  <2>3. CASE Step("halted", "config")
    <3>1. op.pc \in Restoring /\ op'.workload = w /\ op'.pc \in Restoring \ {"tree"}
      BY <1>0, <2>3 DEF Step, At, Ops, Restoring
    <3>. QED  BY <1>1, <2>1, <3>1
  <2>. QED  BY <1>12, <2>2, <2>3 DEF StopFails
<1>7. CASE Guard
  <2>1. UNCHANGED <<archive, mount, elsewhere>>
    BY <1>7 DEF Guard
  <2>2. CASE op' = NoOp
    BY <1>1, <1>2, <2>1, <2>2
  <2>3. CASE op' # NoOp
    <3>1. /\ Step("guard", "tree")
          /\ ~MountsUnder(w) /\ (op.force => ~DataDirIsMount(w))
      BY <1>7, <2>3 DEF Guard, Step
    <3>2. op.pc = "guard" /\ op'.pc = "tree" /\ op'.workload = w /\ op'.force = op.force
      BY <1>0, <3>1 DEF Step, At, Ops
    <3>3. RestoreInv'
      BY <2>1, <3>1, <3>2 DEF RestoreInv, Restoring, MountsUnder, DataDirIsMount
    <3>. QED  BY <2>1, <3>3 DEF ArchiveIsConsistent, MountsSurvive
  <2>. QED  BY <2>2, <2>3
<1>8. CASE RestoreTree
  <2>1. op.pc = "tree" /\ op' = NoOp /\ UNCHANGED <<archive, mount>>
    BY <1>8 DEF RestoreTree, Step, At
  <2>2. mount[w] \in Mounts
    BY <1>0 DEF BackupTypes
  <2>3. /\ mount[w] \notin {"bind_under", "filesystem_under"}
        /\ op.force => mount[w] = "none"
    BY <2>1, <2>2 DEF RestoreInv, MountsUnder, DataDirIsMount, Mounts
  <2>4. elsewhere' = [elsewhere EXCEPT ![w] =
                        /\ @
                        /\ op.force => mount[w] = "none"
                        /\ archive[w].under => mount[w] \notin {"bind_under", "filesystem_under"}]
    BY <1>8, Zenon DEF RestoreTree
  <2>5. elsewhere[w] /\ elsewhere \in [Workloads -> BOOLEAN]
    BY <1>0 DEF MountsSurvive, BackupTypes
  <2>6. elsewhere'[w]
    BY <1>0, <2>3, <2>4, <2>5
  <2>7. \A x \in Workloads \ {w} : elsewhere'[x] = elsewhere[x]
    BY <2>4, <2>5, Zenon
  <2>8. MountsSurvive'
    BY <2>6, <2>7 DEF MountsSurvive
  <2>9. RestoreInv'
    BY <1>2, <2>1 DEF RestoreInv, Restoring
  <2>. QED  BY <2>1, <2>8, <2>9 DEF ArchiveIsConsistent
<1>9. ASSUME NEW x \in left.on, NEW crash \in BOOLEAN, StartBackup(x, crash)
      PROVE  RestoreInv' /\ ArchiveIsConsistent' /\ MountsSurvive'
  <2>1. op'.pc \notin Restoring /\ UNCHANGED <<archive, mount, elsewhere>>
    BY <1>9 DEF StartBackup, NoOp, Restoring
  <2>. QED  BY <1>1, <2>1
<1>10. ASSUME NEW x \in left.on, NEW force \in BOOLEAN, StartRestore(x, force)
       PROVE  RestoreInv' /\ ArchiveIsConsistent' /\ MountsSurvive'
  <2>1. /\ op'.pc = "halted" /\ op'.workload = x /\ archive[x] # NoArchive
        /\ UNCHANGED <<archive, mount, elsewhere>>
    BY <1>10 DEF StartRestore, NoOp
  <2>2. RestoreInv'
    BY <2>1 DEF RestoreInv
  <2>. QED  BY <2>1, <2>2 DEF ArchiveIsConsistent, MountsSurvive
<1>11. ASSUME NEW x \in left.on, (\E what \in Mounts : Mount(x, what)) \/ Forget(x)
       PROVE  RestoreInv' /\ ArchiveIsConsistent' /\ MountsSurvive'
  <2>1. op.pc # "tree" /\ UNCHANGED <<op, archive, elsewhere>>
    BY <1>11 DEF Mount, Forget, At
  <2>2. RestoreInv'
    BY <2>1 DEF RestoreInv, Restoring
  <2>. QED  BY <2>1, <2>2 DEF ArchiveIsConsistent, MountsSurvive
<1>. QED  BY <1>3, <1>4, <1>5, <1>6, <1>7, <1>8, <1>9, <1>10, <1>11, <1>12, Zenon
          DEF BackupNext, BackupStep

\* A step of a backup or restore ends in no guest that is paused and nobody's, in
\* no service that is not started again, and cuts no shutdown short.
LEMMA BackupReturns ==
    ASSUME VmTypes, BackupTypes, BackupInv, BackupNext
    PROVE  PauseIsOwned /\ ServiceIsBack /\ StopPowersOff
<1>. DEFINE w == op.workload
            Untouched == UNCHANGED <<unit, guest, monitor>>
<1>0. /\ op \in Ops /\ w \in Workloads /\ op.boots \in Nat /\ boots[w] \in Nat
      /\ unit \in [Workloads -> Units] /\ guest \in [Workloads -> {"off", "running", "paused"}]
      /\ monitor \in [Workloads -> Clients]
      /\ VMs \subseteq Workloads
  BY DEF BackupTypes, VmTypes, Ops, Workloads
<1>1. Untouched => PauseIsOwned /\ StopPowersOff
  BY DEF PauseIsOwned, StopPowersOff
<1>2. ~op.wasActive \/ op.noStop \/ op'.pc # "idle" \/ op.pc = "idle" => ServiceIsBack
  BY DEF ServiceIsBack
<1>3. UNCHANGED unit => StopPowersOff
  BY DEF StopPowersOff
<1>10. CASE Probe \/ ConnectFails \/ RestoreConfig \/ Guard \/ RestoreTree
            \/ Stopped("halted", "config")
  <2>1. op.pc \in Restoring \cup {"probe", "connect"}
    BY <1>10 DEF Probe, ConnectFails, RestoreConfig, Guard, RestoreTree, Stopped, Step, At,
                 Restoring
  <2>2. ~op.wasActive
    BY <2>1, Zenon DEF BackupInv
  <2>3. Untouched
    BY <1>10 DEF Probe, ConnectFails, RestoreConfig, Guard, RestoreTree, Stopped, vmVars
  <2>. QED  BY <1>1, <1>2, <2>2, <2>3
<1>11. CASE Connect
  <2>1. op.pc = "connect" /\ monitor' = [monitor EXCEPT ![w] = "backup"]
        /\ UNCHANGED <<unit, guest>>
    BY <1>11 DEF Connect, Step, At
  <2>2. PauseIsOwned
    BY <1>0, <2>1 DEF PauseIsOwned
  <2>3. ServiceIsBack
    BY <1>2, <2>1 DEF BackupInv
  <2>. QED  BY <1>3, <2>1, <2>2, <2>3
<1>12. CASE Pause
  <2>1. /\ op.pc = "pause" /\ monitor[w] = "backup" /\ guest' = [guest EXCEPT ![w] = "paused"]
        /\ UNCHANGED <<unit, monitor>>
    BY <1>12 DEF Pause, At
  <2>2. PauseIsOwned
    BY <1>0, <2>1 DEF PauseIsOwned
  <2>3. ServiceIsBack
    BY <1>2, <2>1 DEF BackupInv
  <2>. QED  BY <1>3, <2>1, <2>2, <2>3
<1>13. CASE PauseFails
  <2>1. op.pc = "pause" /\ UNCHANGED unit
    BY <1>13 DEF PauseFails, Step, At
  <2>2. PauseIsOwned
    BY <1>13 DEF PauseIsOwned
  <2>3. ServiceIsBack
    BY <1>2, <2>1 DEF BackupInv
  <2>. QED  BY <1>3, <2>1, <2>2, <2>3
<1>14. CASE Check
  <2>1. op.pc = "check" /\ UNCHANGED <<guest, monitor>>
    BY <1>14 DEF Check, At
  <2>2. StopPowersOff
    BY <1>0, <1>14 DEF StopPowersOff, Check
  <2>3. ServiceIsBack
    BY <1>2, <2>1 DEF BackupInv
  <2>. QED  BY <2>1, <2>2, <2>3 DEF PauseIsOwned
<1>15. CASE Stopped("stopped", "copy") \/ Copy \/ CopyOn \/ Tar \/ CopyFails
  <2>1. op'.pc # "idle" /\ Untouched
    BY <1>0, <1>15, Zenon DEF Stopped, Copy, CopyOn, Tar, CopyFails, Step, Ops, vmVars
  <2>. QED  BY <1>1, <1>2, <2>1
<1>16. CASE Resume
  <2>1. /\ op'.pc # "idle" /\ UNCHANGED <<unit, monitor>>
        /\ \/ guest' = guest
           \/ monitor[w] = "backup" /\ guest' = [guest EXCEPT ![w] = "running"]
    BY <1>0, <1>16 DEF Resume, Step, Ops
  <2>2. PauseIsOwned
    BY <1>0, <2>1 DEF PauseIsOwned
  <2>. QED  BY <1>2, <1>3, <2>1, <2>2
<1>23. CASE ResumeFails
  <2>1. /\ op'.pc # "idle" /\ UNCHANGED <<unit, monitor>>
        /\ \/ guest' = guest
           \/ monitor[w] = "backup" /\ guest' = [guest EXCEPT ![w] = "running"]
    BY <1>0, <1>23 DEF ResumeFails, Ops
  <2>2. PauseIsOwned
    BY <1>0, <2>1 DEF PauseIsOwned
  <2>. QED  BY <1>2, <1>3, <2>1, <2>2
<1>24. CASE StopFails
  <2>1. Untouched
    BY <1>24 DEF StopFails
  <2>. QED  BY <1>1, <1>24, <2>1 DEF ServiceIsBack
<1>17. CASE Resync
  <2>1. /\ op.pc = "resync" /\ UNCHANGED <<unit, guest>>
        /\ \A x \in Workloads : monitor'[x] = monitor[x] \/ (x = w /\ monitor[w] = "backup")
    BY <1>0, <1>17 DEF Resync, Step, At
  <2>2. PauseIsOwned
    BY <1>0, <2>1, Zenon DEF PauseIsOwned, BackupInv
  <2>3. ServiceIsBack
    BY <1>2, <2>1 DEF BackupInv
  <2>. QED  BY <1>3, <2>1, <2>2, <2>3
<1>18. CASE StartAgain
  <2>1. Supervise(w) \/ Untouched
    BY <1>18 DEF StartAgain
  <2>2. PauseIsOwned /\ StopPowersOff
    <3>1. CASE Supervise(w)
      BY <1>0, <3>1 DEF Supervise, PauseIsOwned, StopPowersOff
    <3>. QED  BY <1>1, <2>1, <3>1
  <2>3. ServiceIsBack
    <3>1. CASE op.wasActive /\ ~op.noStop
      <4>1. op'.pc = "started"
        BY <1>0, <1>18, <3>1 DEF StartAgain, Step, Ops
      <4>. QED  BY <1>2, <4>1
    <3>. QED  BY <1>2, <3>1
  <2>. QED  BY <2>2, <2>3
<1>19. CASE StartedAgain
  <2>1. op.pc = "started" /\ Untouched /\ UNCHANGED boots
    BY <1>19 DEF StartedAgain, Step, At, vmVars
  <2>2. boots'[w] > op.boots
    <3>1. op.boots <= boots[w] /\ boots[w] # op.boots
      BY <2>1 DEF BackupInv, SameBoot
    <3>. QED  BY <1>0, <2>1, <3>1
  <2>. QED  BY <1>1, <2>1, <2>2 DEF ServiceIsBack
<1>20. CASE KillBackup
  <2>1. UNCHANGED unit
    BY <1>20 DEF KillBackup
  <2>. QED  BY <1>3, <1>20, <2>1 DEF PauseIsOwned, ServiceIsBack
<1>21. ASSUME NEW x \in left.on,
              \/ \E crash \in BOOLEAN : StartBackup(x, crash)
              \/ \E what \in Mounts : Mount(x, what)
              \/ Forget(x)
       PROVE  PauseIsOwned /\ ServiceIsBack /\ StopPowersOff
  <2>1. (op.pc = "idle" \/ op' = op) /\ Untouched
    BY <1>21, Zenon DEF StartBackup, Mount, Forget, At
  <2>. QED  BY <1>1, <1>2, <2>1
<1>22. ASSUME NEW x \in left.on, NEW force \in BOOLEAN, StartRestore(x, force)
       PROVE  PauseIsOwned /\ ServiceIsBack /\ StopPowersOff
  <2>1. /\ op.pc = "idle" /\ UNCHANGED <<guest, monitor>>
        /\ unit' = [unit EXCEPT ![x] = StopState(x)]
    BY <1>22 DEF StartRestore, At
  <2>2. x \in Workloads
    BY DEF VmTypes, Allowances
  <2>3. unit[x] = "stopping" => StopState(x) = "stopping"
    BY <2>2, StopStateTyped
  <2>4. StopPowersOff
    BY <1>0, <2>1, <2>3 DEF StopPowersOff
  <2>. QED  BY <1>2, <2>1, <2>4 DEF PauseIsOwned
<1>. QED  BY <1>10, <1>11, <1>12, <1>13, <1>14, <1>15, <1>16, <1>17, <1>18, <1>19, <1>20, <1>21,
             <1>22, <1>23, <1>24, Zenon DEF BackupNext, BackupStep

-----------------------------------------------------------------------------
(* The theorems.                                                             *)

\* Nothing is installed, and nothing at work, at the start.
LEMMA InitSound == Init => OperationsInv
<1>. SUFFICES ASSUME Init PROVE OperationsInv
  OBVIOUS
<1>1. Types
  BY InitTypes
<1>2. UnitInv
  BY DEF Init, VmInit, UnitInv
<1>3. \A w \in Workloads : cap[w] = Idle
  BY DEF Init, CaptureInit
<1>4. CleanInv /\ StageInv
  BY <1>3, Zenon DEF Init, CaptureInit, CleanInv, StageInv, Idle, Workloads
<1>5. op = NoOp
  BY DEF Init, BackupInit
<1>6. op.workload \in Workloads /\ boots[op.workload] = 0
  BY <1>1, <1>5, Zenon DEF Types, BackupTypes, Ops, Init, VmInit
<1>7. /\ op.pc = "idle" /\ op.boots = 0 /\ op.asked = "none"
      /\ ~op.noStop /\ ~op.wasActive
  BY <1>5, NoOpFields
<1>8. BackupInv /\ CopyInv
  <2>1. op.boots <= boots[op.workload]
    BY <1>6, <1>7
  <2>. QED  BY <1>7, <2>1 DEF BackupInv, CopyInv
<1>9. \A w \in Workloads : archive[w] = NoArchive /\ elsewhere[w]
  BY DEF Init, BackupInit
<1>10. RestoreInv
  BY <1>7, <1>9 DEF RestoreInv, Restoring
<1>11. ArchiveIsConsistent /\ MountsSurvive
  BY <1>9 DEF ArchiveIsConsistent, MountsSurvive, NoArchive
<1>. QED  BY <1>1, <1>2, <1>4, <1>8, <1>10, <1>11 DEF OperationsInv

\* A step of any of them keeps the invariant, and is one that the captures and the
\* backups are allowed.
LEMMA NextSound ==
    ASSUME OperationsInv, Next
    PROVE  /\ OperationsInv'
           /\ RulesKept /\ ObjectRemoved /\ StoppedIsDelivered /\ StopPowersOff
           /\ PauseIsOwned /\ ServiceIsBack
<1>. USE DEF OperationsInv, Types
<1>1. UNCHANGED captureVars => /\ CaptureTypes' /\ CleanInv' /\ StageInv'
                               /\ RulesKept /\ ObjectRemoved /\ StoppedIsDelivered
  BY Zenon DEF captureVars, CaptureTypes, CleanInv, Clears, StageInv, RulesKept, ObjectRemoved,
         StoppedIsDelivered
<1>2. UNCHANGED backupVars => /\ BackupTypes' /\ ArchiveIsConsistent' /\ MountsSurvive'
                              /\ ServiceIsBack
  BY Zenon DEF backupVars, BackupTypes, ArchiveIsConsistent, MountsSurvive, ServiceIsBack
<1>3. ASSUME \A x \in Workloads : Undisturbed(x) PROVE PauseIsOwned /\ StopPowersOff
  BY <1>3, Zenon DEF Undisturbed, PauseIsOwned, StopPowersOff, Workloads
<1>4. CASE VmNext /\ UNCHANGED <<captureVars, backupVars>>
  <2>1. VmTypes' /\ UnitInv'
    BY <1>4, UnitsTyped
  <2>2. \A x \in Workloads : Undisturbed(x)
    BY <1>4, UnitsUndisturbed
  <2>3. BackupInv' /\ CopyInv' /\ RestoreInv'
    BY <1>4, <2>1, <2>2, BackupUndisturbed
  <2>. QED  BY <1>1, <1>2, <1>3, <1>4, <2>1, <2>2, <2>3
<1>5. CASE CaptureNext /\ UNCHANGED backupVars
  <2>1. UNCHANGED <<unit, guest, monitor, skew, data, boots>>
    BY <1>5, CaptureFrame
  <2>2. PICK w \in Workloads : CaptureActs(w)
    BY <1>5, CaptureActor
  <2>3. /\ VmTypes' /\ UnitInv' /\ CaptureTypes'
        /\ \A x \in Workloads \ {w} : cap'[x] = cap[x]
    BY <2>1, <2>2, CapturesTyped, Zenon
  <2>4. CleanInv' /\ StageInv'
    BY <2>2, <2>3, CapturesClean, CapturesStage, Zenon
  <2>5. RulesKept /\ ObjectRemoved /\ StoppedIsDelivered
    BY <2>2, <2>3, CapturesContained
  <2>6. \A x \in Workloads : Undisturbed(x)
    BY <2>1 DEF Undisturbed
  <2>7. BackupInv' /\ CopyInv' /\ RestoreInv'
    BY <1>5, <2>3, <2>6, BackupUndisturbed
  <2>. QED  BY <1>2, <1>3, <1>5, <2>3, <2>4, <2>5, <2>6, <2>7
<1>6. CASE BackupNext /\ UNCHANGED captureVars
  <2>1. VmTypes' /\ UnitInv' /\ BackupTypes'
    BY <1>6, BackupTyped
  <2>2. BackupInv' /\ CopyInv'
    BY <1>6, <2>1, BackupKnows
  <2>3. RestoreInv' /\ ArchiveIsConsistent' /\ MountsSurvive'
    BY <1>6, <2>1, BackupSpoilsNothing
  <2>4. PauseIsOwned /\ ServiceIsBack /\ StopPowersOff
    BY <1>6, BackupReturns
  <2>. QED  BY <1>1, <1>6, <2>1, <2>2, <2>3, <2>4
<1>. QED  BY <1>4, <1>5, <1>6 DEF Next

\* A step that changes nothing changes nothing of it.
LEMMA StutterSound ==
    ASSUME OperationsInv, UNCHANGED vars
    PROVE  OperationsInv'
<1>. USE DEF OperationsInv, Types, vars, vmVars, captureVars, backupVars
<1>1. VmTypes' /\ UnitInv'
  BY DEF VmTypes, UnitInv
<1>2. CaptureTypes' /\ CleanInv' /\ StageInv'
  BY Zenon DEF CaptureTypes, CleanInv, Clears, StageInv
<1>3. BackupTypes' /\ ArchiveIsConsistent' /\ MountsSurvive'
  BY Zenon DEF BackupTypes, ArchiveIsConsistent, MountsSurvive
<1>4. BackupInv'
  BY Zenon DEF BackupInv, SameBoot
<1>5. CopyInv' /\ RestoreInv'
  BY Zenon DEF CopyInv, RestoreInv, SameBoot, Still, Resumes, MountsUnder, DataDirIsMount
<1>. QED  BY <1>1, <1>2, <1>3, <1>4, <1>5

\* The invariant holds in every state of the commands and the units.
LEMMA OperationsInvariant == Spec => []OperationsInv
<1>1. OperationsInv /\ [Next]_vars => OperationsInv'
  BY NextSound, StutterSound
<1>. QED  BY <1>1, InitSound, PTL DEF Spec

\* The invariant says of the captures what is promised of them.
LEMMA CleanFromInv == OperationsInv => CapturesCleanUp
<1>. SUFFICES ASSUME OperationsInv PROVE CapturesCleanUp
  OBVIOUS
<1>1. Types /\ UnitInv /\ CleanInv
  BY DEF OperationsInv
<1>2. NoRuleLeft
  <2>. SUFFICES ASSUME NEW r \in rules PROVE cap[r[1]].pc # "idle"
    BY DEF NoRuleLeft
  <2>1. r[1] \in Workloads /\ r[2] \in Chains /\ r = <<r[1], r[2]>>
    BY <1>1 DEF Types, CaptureTypes
  <2>2. PICK i \in 1..2 : r[2] = PCAP_CHAINS[i]
    BY <2>1, ChainNames
  <2>3. Clears(r[1], i)
    BY <1>1, <2>1, <2>2, Zenon DEF CleanInv
  <2>. QED  BY <2>3 DEF Clears
<1>3. NoChainLeft
  <2>. SUFFICES ASSUME \A w \in Workloads : cap[w].pc = "idle", NEW c \in chains PROVE FALSE
    BY Zenon DEF NoChainLeft
  <2>1. PICK i \in 1..2 : c = PCAP_CHAINS[i]
    BY <1>1, ChainNames DEF Types, CaptureTypes
  <2>. QED  BY <1>1, <2>1, Zenon DEF CleanInv, Clears
<1>4. TypeOK
  <2>1. /\ unit \in [Workloads -> {"inactive", "activating", "active", "stopping", "ending"}]
        /\ guest \in [Workloads -> {"off", "running", "paused"}]
        /\ monitor \in [Workloads -> {"free", "notify", "shutdown", "backup", "capture"}]
        /\ tap \in [Workloads -> BOOLEAN]
        /\ skew \in [Workloads -> {0, -60, -3600}]
        /\ data \in [Workloads -> Nat] /\ boots \in [Workloads -> Nat]
    BY <1>1 DEF Types, VmTypes, Units, Clients, Skews
  <2>2. \A w \in Workloads :
          /\ cap[w].pc \in Running \cup Unwinding \cup {"idle", "object"}
          /\ cap[w].vantages \subseteq VANTAGES
    BY <1>1 DEF Types, CaptureTypes, CaptureUnits, CapturePcs
  <2>3. \A w \in Workloads :
          /\ guest[w] = "off" <=> unit[w] = "inactive"
          /\ guest[w] = "off" => ~tap[w] /\ monitor[w] = "free"
    BY <1>1, Zenon DEF UnitInv
  <2>4. /\ chains \subseteq {PCAP_CHAINS[i] : i \in 1..Len(PCAP_CHAINS)}
        /\ rules \subseteq Workloads \X chains
    BY <1>1, ChainNames DEF Types, CaptureTypes
  <2>5. stage \in [VMs -> 0..captures]
    BY <1>1 DEF Types, CaptureTypes
  <2>6. /\ op.workload \in Workloads
        /\ mount \in [Workloads -> Mounts]
        /\ elsewhere \in [Workloads -> BOOLEAN] /\ present \in [Workloads -> BOOLEAN]
    BY <1>1 DEF Types, BackupTypes, Ops
  <2>7. \A w \in Workloads :
          /\ cap[w].pc \in Running \cup Unwinding \cup {"idle", "object"}
          /\ cap[w].vantages \subseteq VANTAGES
          /\ guest[w] = "off" <=> unit[w] = "inactive"
          /\ guest[w] = "off" => ~tap[w] /\ monitor[w] = "free"
    BY <2>2, <2>3, Zenon
  <2>. QED  BY <2>1, <2>4, <2>5, <2>6, <2>7, PTL DEF TypeOK
<1>. QED  BY <1>2, <1>3, <1>4 DEF CapturesCleanUp

\* However captures of any number of workloads interleave and end, the unit of one
\* that is gone has no log rule in the table, and the last to go leaves no chain
\* (host_down and ExecStopPost).
THEOREM CapturesLeaveNothing == Spec => []CapturesCleanUp
BY OperationsInvariant, CleanFromInv, PTL

\* The halves of an archive that was to be of one moment are, and no restore
\* spoils what is mounted on data/ or under it.
THEOREM DataStaysSafe == Spec => []DataIsSafe
<1>1. OperationsInv => DataIsSafe
  BY DEF OperationsInv, DataIsSafe
<1>. QED  BY <1>1, OperationsInvariant, PTL

\* No step of a capture takes another's rules, leaves its object in QEMU but to a
\* monitor that is held, loses a file it knows of, or makes a stop cut a guest off.
THEOREM CapturesStayContained == Spec => CapturesAreContained
<1>1. OperationsInv /\ [Next]_vars
         => [RulesKept /\ ObjectRemoved /\ StoppedIsDelivered /\ StopPowersOff]_vars
  BY NextSound
<1>. QED  BY <1>1, OperationsInvariant, PTL DEF Spec, CapturesAreContained

\* A backup that ends, the copy having failed or not, has resumed the guest that it
\* paused and started the service that it stopped (the finally clauses), unless it
\* was killed, its QMP `stop` went without an answer, its `cont` failed and it said
\* so, or it was the `systemctl stop` that failed.
THEOREM BackupsGiveBack == Spec => BackupGivesBack
<1>1. OperationsInv /\ [Next]_vars => [PauseIsOwned /\ ServiceIsBack]_vars
  BY NextSound
<1>. QED  BY <1>1, OperationsInvariant, PTL DEF Spec, BackupGivesBack
=============================================================================
