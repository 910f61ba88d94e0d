----------------------------- MODULE VmControl -----------------------------
(***************************************************************************)
(* The services the operator's commands work on: the unit of each workload *)
(* and its payload, and for a VM the things every command shares: QEMU's   *)
(* control monitor (qmp.sock), which serves one client at a time, the      *)
(* capture object of the monitor, and the guest's clock.                   *)
(*                                                                         *)
(* A client of the monitor is served when it is free.  A call that is over *)
(* at once (lib/pcap_vm_tap.py: qmp_command) is one step; the clients that *)
(* keep the connection are the supervisor until the guest runs, the        *)
(* shutdown helper, and a crash-consistent backup.                         *)
(***************************************************************************)
EXTENDS Integers, Sequences, FiniteSets

CONSTANTS
    VMs, Containers,      \* the workloads
    Agents,               \* the VMs whose guest runs qemu-guest-agent
    Budgets               \* how often the environment acts, a set of records

Workloads == VMs \cup Containers

ASSUME VmAssumption ==
    /\ VMs \cap Containers = {} /\ Agents \subseteq VMs
    /\ Workloads # {}

\* What a budget counts, and which workloads and vantages it allows.
Allowances ==
    [on : SUBSET Workloads, vantages : SUBSET SUBSET {"host", "guest"},
     commands : Nat, captures : Nat, archives : Nat, mounts : Nat, writes : Nat,
     faults : Nat, kills : Nat]

ASSUME BudgetsAssumption == Budgets \subseteq Allowances

VARIABLES
    unit,       \* the state of the workload's service
    guest,      \* its payload: "off", "running", or a VM's vCPUs "paused"
    monitor,    \* the client the control monitor serves
    tap,        \* whether the capture object is in QEMU
    skew,       \* seconds the guest's clock is ahead of the host's
    data,       \* the version of the workload's data/ tree
    boots,      \* how often the payload was started
    left        \* what is left of the budget; left.on: the workloads it is for

vmVars == <<unit, guest, monitor, tap, skew, data, boots, left>>

\* One more command, capture, archive, mount, guest write, fault or killed
\* process of the budget.
Spend(what) ==
    /\ left[what] > 0
    /\ left' = [left EXCEPT ![what] = @ - 1]

\* Any of the workloads the commands are about is up.
VmInit ==
    /\ left \in Budgets
    /\ unit \in [Workloads -> {"inactive", "active"}]
    /\ \A w \in Workloads \ left.on : unit[w] = "inactive"
    /\ guest = [w \in Workloads |-> IF unit[w] = "active" THEN "running" ELSE "off"]
    /\ monitor = [w \in Workloads |-> "free"]
    /\ tap = [w \in Workloads |-> FALSE]
    /\ skew = [w \in Workloads |-> 0]
    /\ data = [w \in Workloads |-> 0]
    /\ boots = [w \in Workloads |-> 0]

-----------------------------------------------------------------------------
(* The control monitor *)

\* A client that connects now is served.
Reachable(v) == guest[v] # "off" /\ monitor[v] = "free"

\* The monitor is kept by a client that outlasts another's read timeout.  A capture
\* would be one if it kept its connection; qmp_command closes it after each call.
Held(v) == monitor[v] \in {"shutdown", "backup", "capture"}

Unreachable(v) == guest[v] = "off" \/ Held(v)

\* QEMU is gone, and with it its monitor and the objects in it.
QemuExit(w) ==
    /\ guest' = [guest EXCEPT ![w] = "off"]
    /\ monitor' = [monitor EXCEPT ![w] = "free"]
    /\ tap' = [tap EXCEPT ![w] = FALSE]
    /\ skew' = [skew EXCEPT ![w] = 0]

-----------------------------------------------------------------------------
(* The unit *)

\* The main process starts the payload; the supervisor of a VM takes the
\* monitor until the vCPUs run (supervise).
Supervise(w) ==
    /\ unit' = [unit EXCEPT ![w] = "activating"]
    /\ guest' = [guest EXCEPT ![w] = "running"]
    /\ monitor' = [monitor EXCEPT ![w] = IF w \in VMs THEN "notify" ELSE "free"]
    /\ tap' = [tap EXCEPT ![w] = FALSE]
    /\ skew' = [skew EXCEPT ![w] = 0]
    /\ boots' = [boots EXCEPT ![w] = @ + 1]

\* READY=1: the vCPUs run, the supervisor lets go of the monitor.
Ready(w) ==
    /\ unit[w] = "activating"
    /\ unit' = [unit EXCEPT ![w] = "active"]
    /\ monitor' = [monitor EXCEPT ![w] = "free"]
    /\ UNCHANGED <<guest, tap, skew, data, boots, left>>

\* No READY=1 within TimeoutStartSec: the unit is killed.
ReadyTimeout(w) ==
    /\ unit[w] = "activating"
    /\ Spend("faults")
    /\ unit' = [unit EXCEPT ![w] = "ending"]
    /\ UNCHANGED <<guest, monitor, tap, skew, data, boots>>

\* The state a stop job takes the unit to: a VM that is up has its shutdown
\* helper run (ExecStop), anything else goes to the kill phase at once.
StopState(w) ==
    CASE unit[w] = "active" /\ w \in VMs -> "stopping"
      [] unit[w] = "inactive" -> "inactive"
      [] unit[w] = "stopping" -> "stopping"
      [] OTHER -> "ending"

\* `systemctl start` and `systemctl stop`, by an operator.
Start(w) ==
    /\ unit[w] = "inactive"
    /\ Spend("commands")
    /\ Supervise(w)
    /\ UNCHANGED data

Stop(w) ==
    /\ unit[w] \in {"activating", "active"}
    /\ Spend("commands")
    /\ unit' = [unit EXCEPT ![w] = StopState(w)]
    /\ UNCHANGED <<guest, monitor, tap, skew, data, boots>>

\* The shutdown helper: it is served and sends system_powerdown.
Shutdown(v) ==
    /\ unit[v] = "stopping"
    /\ Reachable(v)
    /\ monitor' = [monitor EXCEPT ![v] = "shutdown"]
    /\ UNCHANGED <<unit, guest, tap, skew, data, boots, left>>

\* The guest powers off.
PowersOff(v) ==
    /\ unit[v] = "stopping" /\ monitor[v] = "shutdown" /\ guest[v] = "running"
    /\ QemuExit(v)
    /\ unit' = [unit EXCEPT ![v] = "inactive"]
    /\ UNCHANGED <<data, boots, left>>

\* A guest that does nothing about the power button, paused or deaf to it, for
\* the whole of the helper's timeout.
IgnoresPowerdown(v) ==
    /\ unit[v] = "stopping" /\ monitor[v] = "shutdown"
    /\ \/ guest[v] = "paused" /\ UNCHANGED left
       \/ guest[v] = "running" /\ Spend("faults")
    /\ monitor' = [monitor EXCEPT ![v] = "free"]
    /\ unit' = [unit EXCEPT ![v] = "ending"]
    /\ UNCHANGED <<guest, tap, skew, data, boots>>

\* The helper cannot reach the monitor and leaves the guest to the kill phase.
ShutdownFails(v) ==
    /\ unit[v] = "stopping"
    /\ Held(v) /\ monitor[v] # "shutdown"
    /\ unit' = [unit EXCEPT ![v] = "ending"]
    /\ UNCHANGED <<guest, monitor, tap, skew, data, boots, left>>

\* The kill phase; for a container, after `podman stop`.
Ends(w) ==
    /\ unit[w] = "ending"
    /\ QemuExit(w)
    /\ unit' = [unit EXCEPT ![w] = "inactive"]
    /\ UNCHANGED <<data, boots, left>>

\* The payload exits by itself: powered off from inside, or failed, which
\* Restart=on-failure answers with a new start.
Exits(w, failed) ==
    /\ unit[w] = "active" /\ guest[w] = "running"
    /\ Spend("faults")
    /\ IF failed THEN Supervise(w)
                 ELSE /\ QemuExit(w)
                      /\ unit' = [unit EXCEPT ![w] = "inactive"]
                      /\ UNCHANGED boots
    /\ UNCHANGED data

\* The payload writes to data/.
Write(w) ==
    /\ guest[w] = "running"
    /\ Spend("writes")
    /\ data' = [data EXCEPT ![w] = @ + 1]
    /\ UNCHANGED <<unit, guest, monitor, tap, skew, boots>>

-----------------------------------------------------------------------------
(* The guest's clock *)

CLOCK_SKEW_THRESHOLD_SECONDS == 300

BACKUP_RESYNC_THRESHOLD_SECONDS == 1

Abs(n) == IF n < 0 THEN -n ELSE n

\* Mutant of KeepGuestClock: a guest that is behind is left so.
KeepGuestClockAhead(v, threshold) ==
    IF v \notin Agents \/ guest[v] # "running" \/ skew[v] <= threshold
      THEN skew[v]
      ELSE 0

\* One tick of the keeper: the offset afterwards.  A guest without an agent, or
\* one that does not run, answers nothing.
KeepGuestClock(v, threshold) ==
    IF v \notin Agents \/ guest[v] # "running" \/ Abs(skew[v]) <= threshold
      THEN skew[v]
      ELSE 0

\* The clock timer's service, while the VM is up.
Tick(v) ==
    /\ unit[v] = "active"
    /\ KeepGuestClock(v, CLOCK_SKEW_THRESHOLD_SECONDS) # skew[v]
    /\ skew' = [skew EXCEPT
                  ![v] = KeepGuestClock(v, CLOCK_SKEW_THRESHOLD_SECONDS)]
    /\ UNCHANGED <<unit, guest, monitor, tap, data, boots, left>>

\* The host sleeps for an hour, which its guests do not notice.
Suspend ==
    /\ Spend("faults")
    /\ skew' = [w \in Workloads |->
                  IF w \in VMs /\ guest[w] # "off" THEN -3600 ELSE skew[w]]
    /\ UNCHANGED <<unit, guest, monitor, tap, data, boots>>

\* What the units do by themselves, and what befalls them.
UnitStep(w) ==
    \/ Ready(w)
    \/ Ends(w)
    \/ w \in VMs /\ (Shutdown(w) \/ PowersOff(w) \/ IgnoresPowerdown(w)
                        \/ ShutdownFails(w))

VmNext ==
    \/ Suspend
    \/ \E w \in left.on :
          \/ UnitStep(w)
          \/ Start(w) \/ Stop(w)
          \/ ReadyTimeout(w)
          \/ \E failed \in BOOLEAN : Exits(w, failed)
          \/ Write(w)
          \/ w \in VMs /\ Tick(w)
=============================================================================
