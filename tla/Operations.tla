----------------------------- MODULE Operations -----------------------------
(***************************************************************************)
(* The operator's commands on running workloads, together: captures of two *)
(* workloads, a backup or a restore, starts and stops, and the units those *)
(* work on.  They share the units, the nftables chains of the captures and *)
(* each VM's one control monitor; no lock keeps them apart.                *)
(***************************************************************************)
EXTENDS Capture, Backup

vars == <<vmVars, captureVars, backupVars>>

Init == VmInit /\ CaptureInit /\ BackupInit

Next ==
    \/ VmNext /\ UNCHANGED <<captureVars, backupVars>>
    \/ CaptureNext /\ UNCHANGED backupVars
    \/ BackupNext /\ UNCHANGED captureVars

\* Every process that is at work goes on, and a clock timer that is due fires;
\* the operator, the guests and the faults owe nothing.
Spec ==
    /\ Init /\ [][Next]_vars
    /\ WF_vars(BackupStep /\ UNCHANGED captureVars)
    /\ \A w \in Workloads :
          /\ WF_vars(UnitStep(w) /\ UNCHANGED <<captureVars, backupVars>>)
          /\ WF_vars(CaptureStep(w) /\ UNCHANGED backupVars)
    /\ \A v \in VMs : WF_vars(Tick(v) /\ UNCHANGED <<captureVars, backupVars>>)

-----------------------------------------------------------------------------
(* Properties *)

TypeOK ==
    /\ unit \in [Workloads -> {"inactive", "activating", "active", "stopping",
                               "ending"}]
    /\ guest \in [Workloads -> {"off", "running", "paused"}]
    /\ monitor \in [Workloads -> {"free", "notify", "shutdown", "backup",
                                  "capture"}]
    /\ tap \in [Workloads -> BOOLEAN]
    /\ skew \in [Workloads -> {0, -60, -3600}]
    /\ data \in [Workloads -> Nat] /\ boots \in [Workloads -> Nat]
    /\ \A w \in Workloads :
          /\ cap[w].pc \in Running \cup Unwinding \cup {"idle", "object"}
          /\ cap[w].vantages \subseteq VANTAGES
          /\ guest[w] = "off" <=> unit[w] = "inactive"
          /\ guest[w] = "off" => ~tap[w] /\ monitor[w] = "free"
    /\ chains \subseteq {PCAP_CHAINS[i] : i \in 1..Len(PCAP_CHAINS)}
    /\ rules \subseteq Workloads \X chains
    /\ stage \in [VMs -> 0..captures]
    /\ op.workload \in Workloads
    /\ mount \in [Workloads -> Mounts]
    /\ elsewhere \in [Workloads -> BOOLEAN] /\ present \in [Workloads -> BOOLEAN]

\* However a capture ends, SIGKILL at any point included, once its unit is gone
\* none of its log rules is left in the table (the unit's ExecStopPost).
NoRuleLeft == \A r \in rules : cap[r[1]].pc # "idle"

\* The chains go with the last capture: two captures that end at once do not
\* each leave the chain to the other (host_down lists the chain again after its
\* own deletes).
NoChainLeft == (\A w \in Workloads : cap[w].pc = "idle") => chains = {}

\* A capture takes all it added to the host's table away with it.
CapturesCleanUp == TypeOK /\ NoRuleLeft /\ NoChainLeft

\* A capture that waits for packets keeps its log rules, whatever the captures of
\* other workloads do, but for one that drops a chain it found empty before the
\* rule was added (host_down is narrowed to the workload's nflog group).
RulesKept ==
    \A r \in rules \ rules' :
       cap[r[1]].pc \in Running =>
           \E w \in Workloads \ {r[1]} : cap[w].pc = "drop"

\* A capture's unit leaves its object in QEMU only when another client had the
\* control monitor as the cleanup ran (cleanup removes the object by its name).
ObjectRemoved ==
    \A v \in VMs :
       cap[v].pc # "idle" /\ cap'[v].pc = "idle" /\ tap'[v] => Held(v)

\* A capture of a VM's guest side that is stopped once its tap is known delivers
\* its file; only a kill, or a failed move, leaves it staged.
StoppedIsDelivered ==
    \A v \in VMs :
       cap[v].object /\ ~cap[v].post /\ cap'[v].post /\ left' = left
           => stage'[v] = 0

\* A stop cuts a guest off, instead of having it power off, only when the guest
\* did nothing about the power button or a backup had the monitor: no capture
\* keeps the shutdown helper waiting.
StopPowersOff ==
    \A v \in VMs :
       unit[v] = "stopping" /\ unit'[v] = "ending" =>
           monitor[v] \in {"shutdown", "backup"}

\* What a step of a capture does to other captures, to the guest and to its own
\* file.
CapturesAreContained ==
    [][RulesKept /\ ObjectRemoved /\ StoppedIsDelivered /\ StopPowersOff]_vars

\* A guest is left paused, with no backup there to resume it, only by the death of
\* the backup's process, by a QMP `stop` that was not answered, or by a `cont` that
\* failed, of which the backup has warned: a copy that fails resumes it.
PauseIsOwned ==
    \A v \in VMs :
       guest'[v] = "paused" /\ monitor'[v] # "backup" =>
           \/ guest[v] = "paused" /\ monitor[v] # "backup"
           \/ KillBackup \/ PauseFails \/ op.warned

\* The two halves of an archive are of one moment, unless the workload was
\* starting or stopping when the service was looked at, was started since its
\* guest was paused (or, with nothing to pause, since the service was looked at),
\* or is a container that was copied live, as asked.
ArchiveIsConsistent ==
    \A w \in Workloads :
        archive[w].asked = "cold" \/ (w \in VMs /\ archive[w].asked = "crash")
            => archive[w].first = archive[w].second

\* A service that a cold backup stopped has been started again when the command
\* is over, the copy having failed or not, unless it was the `systemctl stop` that
\* failed, or the process that died.
ServiceIsBack ==
    op.pc # "idle" /\ op'.pc = "idle" /\ op.wasActive /\ ~op.noStop =>
        boots'[op.workload] > op.boots \/ KillBackup \/ StopFails

\* No restore deletes or overwrites what is mounted on data/ or under it by way of
\* --force, nor writes through a mount under it.
MountsSurvive == \A w \in Workloads : elsewhere[w]

\* A backup that failed gives back what it took: the guest it paused, the service
\* it stopped (the finally clauses of backup.py).
BackupGivesBack == [][PauseIsOwned /\ ServiceIsBack]_vars

\* Neither what a backup archives nor what a restore finds in place is spoilt.
DataIsSafe == ArchiveIsConsistent /\ MountsSurvive

\* A guest with an agent whose clock is more than five minutes out, after a pause
\* or a suspend, has it set again while it runs (the clock keeper).
ClockIsKept ==
    \A v \in Agents :
        (unit[v] = "active" /\ guest[v] = "running"
            /\ Abs(skew[v]) > CLOCK_SKEW_THRESHOLD_SECONDS)
        ~> (unit[v] # "active" \/ guest[v] # "running"
            \/ Abs(skew[v]) <= CLOCK_SKEW_THRESHOLD_SECONDS)

\* Every backup and restore comes to an end, and every capture told to stop: none
\* waits for a monitor or a unit for ever.
CommandsEnd ==
    /\ op.pc # "idle" ~> op.pc = "idle"
    /\ \A w \in Workloads :
          cap[w].pc \in Unwinding \cup {"object"} ~> cap[w].pc = "idle"

-----------------------------------------------------------------------------
(* What the sources say and the code does not keep; see README.md.           *)

\* A paused guest is resumed, or goes (lib/backup.py: "a failed or interrupted copy
\* never leaves the guest permanently paused").  A backup that is killed, or whose
\* `cont` fails, leaves it.
PausedIsResumed ==
    \A v \in VMs : guest[v] = "paused" ~> guest[v] # "paused"
=============================================================================
