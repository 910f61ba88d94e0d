-------------------------- MODULE WorkloadIdentity --------------------------
(***************************************************************************)
(* The identity of a workload: which UID it runs under, which subordinate  *)
(* range its namespace maps, and which state under /var it finds there.    *)
(*                                                                         *)
(* On a bootc host the pieces live in three places with three lifetimes:   *)
(*   /etc  (per deployment)  the TOML, the .enabled marker, the passwd     *)
(*                           line, the subuid/subgid entry;                *)
(*   /var  (shared)          the workload's tree and its provenance stamp; *)
(*   /run  (per boot)        the pending sysusers conf, queued start jobs. *)
(*                                                                         *)
(* The actors are processes: enable, disable [--purge], cleanup --apply,   *)
(* recreate (regen, which edit does for a changed TOML too), the generator *)
(* run of the boot, and the workload's setup unit.  No lock covers a whole *)
(* command; only SUBID_LOCK (held while a UID is claimed and pinned, and   *)
(* around each rewrite of the subid files) and the per-workload            *)
(* ensure-user lock serialise anything, so a process is a program counter  *)
(* and every file operation is a step of its own.                          *)
(***************************************************************************)
EXTENDS Integers, FiniteSets

CONSTANTS
    Workloads,          \* workload names
    Vms,                \* the ones whose TOML has a [vm] section
    Procs,              \* process slots, i.e. how many commands may overlap
    Deployments,        \* ostree deployment ids
    FirstDeployment,    \* the one booted initially
    NoDeployment,       \* a tree without a provenance stamp
    NoProc,             \* SUBID_LOCK is free
    NoWorkload,         \* a process without a workload argument
    UidMin, UidMax,     \* the workload UID range
    Exclusive,          \* the operator never overlaps two commands on a workload
    HandEdits,          \* the operator may leave a TOML unparseable
    MaxCommands,        \* bound: operator commands in a behaviour
    MaxBoots,           \* bound: reboots in a behaviour
    MaxFaults           \* bound: steps that fail and processes that are killed

Uids == UidMin .. UidMax
Absent == -1            \* no such passwd line, subid entry, conf or directory
Root == 0               \* a directory that exists but is owned by root
SystemUid == 1          \* a UID outside the workload range

ASSUME UidRangeAssumption ==
    UidMin \in Nat /\ UidMax \in Nat /\ UidMin > SystemUid /\ UidMin <= UidMax

ASSUME NamesAssumption ==
    /\ Vms \subseteq Workloads /\ NoWorkload \notin Workloads
    /\ FirstDeployment \in Deployments /\ NoDeployment \notin Deployments
    /\ NoProc \notin Procs

ASSUME BoundsAssumption ==
    /\ Exclusive \in BOOLEAN /\ HandEdits \in BOOLEAN
    /\ MaxCommands \in Nat /\ MaxBoots \in Nat /\ MaxFaults \in Nat

VARIABLES
    booted, deployed,                   \* the booted deployment; all that exist
    config, marker, passwd, subid,      \* /etc, per deployment
    tree, content, prov,                \* /var: owner of state/ and data/, whose
                                        \* files they hold, provenance.json
    conf, startq, running,              \* /run: sysusers confs, start jobs, services
    lock,                               \* holder of SUBID_LOCK
    pc, cmd, wl, uid, mine,             \* per process: where it is, its command
    todo, dirs, noted,                  \* and arguments, what it has read so far
    commands, boots, faults,            \* how much of the bounds is used
    stranded, subidLeft, split          \* history, see the properties

etc   == <<config, marker, passwd, subid>>
var   == <<tree, content, prov>>
run   == <<conf, startq, running>>
local == <<cmd, wl, uid, mine, todo, dirs, noted>>
bound == <<booted, deployed, commands, boots>>
count == <<bound, faults>>
hist  == <<stranded, subidLeft, split>>
vars  == <<etc, var, run, lock, pc, local, count, hist>>

Owner == Uids \cup {Absent, SystemUid}

Commands == {"none", "enable", "disable", "purge", "cleanup", "regen", "boot", "setup"}

Labels == {"idle", "exit", "failed",
           "preflight", "hooks",                               \* cmd_enable
           "next", "lookup", "lock", "claim", "pin", "emit",   \* workload-generate
           "check", "sysusers", "ensure", "home", "subid",     \* provisioning and
           "provision", "start",                               \* workload-ensure-user
           "stop", "unmark", "unconf", "subrm", "userdel", "rmtree",
           "scan", "sweepsub", "sweepuser", "sweepdir"}        \* cmd_disable, cmd_cleanup

LockedLabels == {"claim", "pin"}
EnsureLabels == {"home", "subid", "provision"}

Configs == {"none", "ok", "invalid", "broken"}

TypeOK ==
    /\ booted \in Deployments /\ deployed \subseteq Deployments /\ booted \in deployed
    /\ config \in [Deployments -> [Workloads -> Configs]]
    /\ marker \in [Deployments -> SUBSET Workloads]
    /\ passwd \in [Deployments -> [Workloads -> Owner]]
    /\ subid \in [Deployments -> [Workloads -> Uids \cup {Absent}]]
    /\ tree \in [Workloads -> Owner \cup {Root}]
    /\ content \in [Workloads -> SUBSET Owner]
    /\ prov \in [Workloads -> Deployments \cup {NoDeployment}]
    /\ conf \in [Workloads -> Owner]
    /\ startq \subseteq Workloads /\ running \subseteq Workloads
    /\ lock \in Procs \cup {NoProc}
    /\ pc \in [Procs -> Labels] /\ cmd \in [Procs -> Commands]
    /\ wl \in [Procs -> Workloads \cup {NoWorkload}]
    /\ uid \in [Procs -> Owner]
    /\ mine \in [Procs -> SUBSET Uids]
    /\ todo \in [Procs -> SUBSET Workloads] /\ dirs \in [Procs -> SUBSET Workloads]
    /\ noted \in [Procs -> SUBSET Workloads]
    /\ commands \in Nat /\ boots \in Nat /\ faults \in Nat
    /\ stranded \subseteq Workloads /\ subidLeft \subseteq Workloads
    /\ split \subseteq Workloads

Init ==
    /\ booted = FirstDeployment /\ deployed = {FirstDeployment}
    /\ config = [d \in Deployments |-> [w \in Workloads |->
                    IF d = FirstDeployment THEN "ok" ELSE "none"]]
    /\ marker = [d \in Deployments |-> {}]
    /\ passwd = [d \in Deployments |-> [w \in Workloads |-> Absent]]
    /\ subid = [d \in Deployments |-> [w \in Workloads |-> Absent]]
    /\ tree = [w \in Workloads |-> Absent]
    /\ content = [w \in Workloads |-> {}]
    /\ prov = [w \in Workloads |-> NoDeployment]
    /\ conf = [w \in Workloads |-> Absent]
    /\ startq = {} /\ running = {}
    /\ lock = NoProc
    /\ pc = [p \in Procs |-> "idle"] /\ cmd = [p \in Procs |-> "none"]
    /\ wl = [p \in Procs |-> NoWorkload] /\ uid = [p \in Procs |-> Absent]
    /\ mine = [p \in Procs |-> {}]
    /\ todo = [p \in Procs |-> {}] /\ dirs = [p \in Procs |-> {}]
    /\ noted = [p \in Procs |-> {}]
    /\ commands = 0 /\ boots = 0 /\ faults = 0
    /\ stranded = {} /\ subidLeft = {} /\ split = {}

-----------------------------------------------------------------------------
(* Processes *)

At(p, label) == pc[p] = label
Goto(p, label) == pc' = [pc EXCEPT ![p] = label]

\* The process ends: its locals are gone.
Finish(p) ==
    /\ Goto(p, "idle")
    /\ cmd' = [cmd EXCEPT ![p] = "none"]
    /\ wl' = [wl EXCEPT ![p] = NoWorkload]
    /\ uid' = [uid EXCEPT ![p] = Absent]
    /\ mine' = [mine EXCEPT ![p] = {}]
    /\ todo' = [todo EXCEPT ![p] = {}]
    /\ dirs' = [dirs EXCEPT ![p] = {}]
    /\ noted' = [noted EXCEPT ![p] = {}]

Begin(p, c, w, label) ==
    /\ At(p, "idle")
    /\ Goto(p, label)
    /\ cmd' = [cmd EXCEPT ![p] = c]
    /\ wl' = [wl EXCEPT ![p] = w]

\* workload-generate.service is ordered Before=basic.target, so no command and
\* no setup unit runs while the generator of the boot does.
Booting == \E q \in Procs : cmd[q] = "boot"

\* With Exclusive the operator never has two commands working on w, and runs
\* cleanup, which works on every workload, while nothing else is under way.
Uncontended(w) ==
    Exclusive => \A q \in Procs : \/ cmd[q] \in {"none", "setup"}
                                  \/ wl[q] # w /\ cmd[q] # "cleanup"

CommandMayStart(w) ==
    /\ ~Booting
    /\ commands < MaxCommands
    /\ Uncontended(w)

CountCommand == commands' = commands + 1 /\ UNCHANGED <<booted, deployed, boots, faults>>

\* The TOML parses, so WorkloadConfig(name) and load_workload_config do not raise.
Loads(w) == config[booted][w] \in {"ok", "invalid"}

\* A step whose failure the code handles fails, or a process is killed.
Fault == faults < MaxFaults /\ faults' = faults + 1
NoFault == UNCHANGED faults

Unmark(w) == marker' = [marker EXCEPT ![booted] = @ \ {w}]

Exit(p) ==
    /\ pc[p] \in {"exit", "failed"}
    /\ Finish(p)
    /\ UNCHANGED <<etc, var, run, lock, count, hist>>

-----------------------------------------------------------------------------
(* workload-generate, as enable, recreate (regen) and the boot run it *)

\* Where the process goes when the generator is done with its workload.
Generated(p) ==
    CASE cmd[p] = "enable" -> "check"
      [] cmd[p] = "boot" -> "next"
      [] OTHER -> "start"

\* generate_all: the boot's run takes every bundle in turn and enqueues a start
\* job for the ones it wrote.
NextWorkload(p) ==
    /\ At(p, "next")
    /\ \/ \E w \in todo[p] :
            /\ wl' = [wl EXCEPT ![p] = w]
            /\ todo' = [todo EXCEPT ![p] = @ \ {w}]
            /\ Goto(p, "lookup")
            /\ UNCHANGED <<cmd, uid, mine, dirs, noted, run>>
       \/ /\ todo[p] = {}
          /\ startq' = startq \cup noted[p]
          /\ Finish(p)
          /\ UNCHANGED <<conf, running>>
    /\ UNCHANGED <<etc, var, lock, count, hist>>

\* generate_workload up to resolve_uid's getpwnam, which holds no lock.  A
\* bundle that is not enabled or does not validate is skipped.
Lookup(p) ==
    /\ At(p, "lookup")
    /\ LET w == wl[p] IN
       IF w \in marker[booted] /\ config[booted][w] = "ok"
       THEN /\ uid' = [uid EXCEPT ![p] = passwd[booted][w]]
            /\ Goto(p, IF passwd[booted][w] = Absent THEN "lock" ELSE "emit")
       ELSE /\ Goto(p, Generated(p))
            /\ UNCHANGED uid
    /\ UNCHANGED <<etc, var, run, lock, cmd, wl, mine, todo, dirs, noted, count, hist>>

\* Mutation: the lock is not waited for.
AcquireLockAnyway(p) ==
    /\ At(p, "lock")
    /\ lock' = p
    /\ Goto(p, "claim")
    /\ UNCHANGED <<etc, var, run, local, count, hist>>

AcquireLock(p) ==
    /\ At(p, "lock")
    /\ lock = NoProc
    /\ lock' = p
    /\ Goto(p, "claim")
    /\ UNCHANGED <<etc, var, run, local, count, hist>>

\* _reserved_uids_in_pending_sysusers: UIDs that only a conf knows so far.
PendingUids == {conf[v] : v \in Workloads}

\* Mutation: the passwd lines are not looked at.
UnsavedUids(p) == mine[p] \cup PendingUids

\* _used_uids: this process's own claims, the pending confs, the passwd lines.
UsedUids(p) == mine[p] \cup PendingUids \cup {passwd[booted][v] : v \in Workloads}

\* Mutation: no tree is ever adopted.
NoStateOwner(w) == Absent

\* state_owner_uid: who owns the workload's state/ and data/.
StateOwner(w) == tree[w]

\* claim_uid: the owner of the workload's tree if no one holds that UID, else
\* the lowest free UID; RuntimeError when there is none.
ClaimUid(p) ==
    /\ At(p, "claim")
    /\ LET owner == StateOwner(wl[p])
           free == Uids \ UsedUids(p)
       IN \/ /\ free = {}
             /\ Goto(p, Generated(p))
             /\ lock' = NoProc
             /\ UNCHANGED <<uid, mine, stranded>>
          \/ \E u \in free :
             /\ IF owner \in free THEN u = owner ELSE \A v \in free : u <= v
             /\ uid' = [uid EXCEPT ![p] = u]
             /\ mine' = [mine EXCEPT ![p] = @ \cup {u}]
             /\ stranded' = IF owner \in Uids \ free
                            THEN stranded \cup {wl[p]} ELSE stranded
             /\ Goto(p, "pin")
             /\ UNCHANGED lock
    /\ UNCHANGED <<etc, var, run, cmd, wl, todo, dirs, noted, count, subidLeft, split>>

\* Mutation: a failing write leaves the lock held.
PinUidLeaksLock(p) ==
    /\ At(p, "pin")
    /\ \/ /\ conf' = [conf EXCEPT ![wl[p]] = uid[p]]
          /\ lock' = NoProc
          /\ Goto(p, "emit")
          /\ NoFault
       \/ /\ Goto(p, Generated(p))
          /\ Fault
          /\ UNCHANGED <<conf, lock>>
    /\ UNCHANGED <<etc, var, startq, running, local, bound, hist>>

\* pin_allocated_uid writes the sysusers conf before the lock is released; the
\* write may fail, and generate_all logs the exception and goes on.
PinUid(p) ==
    /\ At(p, "pin")
    /\ lock' = NoProc
    /\ \/ /\ conf' = [conf EXCEPT ![wl[p]] = uid[p]]
          /\ Goto(p, "emit")
          /\ NoFault
       \/ /\ Goto(p, Generated(p))
          /\ Fault
          /\ UNCHANGED conf
    /\ UNCHANGED <<etc, var, startq, running, local, bound, hist>>

\* generate_{vm,container}_workload renders every file of the workload, the
\* conf among them, from the UID resolved above.
EmitUnits(p) ==
    /\ At(p, "emit")
    /\ \/ /\ conf' = [conf EXCEPT ![wl[p]] = uid[p]]
          /\ noted' = [noted EXCEPT ![p] = IF cmd[p] = "boot" THEN @ \cup {wl[p]} ELSE @]
          /\ NoFault
       \/ Fault /\ UNCHANGED <<conf, noted>>
    /\ Goto(p, Generated(p))
    /\ UNCHANGED <<etc, var, startq, running, lock, cmd, wl, uid, mine, todo, dirs, bound, hist>>

-----------------------------------------------------------------------------
(* workloadctl enable *)

\* The marker is touched as soon as the TOML is known to exist.
StartEnable(p, w) ==
    /\ CommandMayStart(w)
    /\ config[booted][w] # "none"
    /\ Begin(p, "enable", w, "preflight")
    /\ marker' = [marker EXCEPT ![booted] = @ \cup {w}]
    /\ CountCommand
    /\ UNCHANGED <<config, passwd, subid, var, run, lock, uid, mine, todo, dirs, noted, hist>>

\* WorkloadConfig raises on a TOML that does not parse; the home directory is
\* made before the checks, whose failure takes the marker back.
Preflight(p) ==
    /\ At(p, "preflight")
    /\ LET w == wl[p] IN
       IF Loads(w)
       THEN /\ tree' = [tree EXCEPT ![w] = IF @ = Absent THEN Root ELSE @]
            /\ \/ Goto(p, "hooks") /\ NoFault /\ UNCHANGED marker
               \/ Goto(p, "failed") /\ Fault /\ Unmark(w)
       ELSE Goto(p, "failed") /\ UNCHANGED <<tree, marker, faults>>
    /\ UNCHANGED <<config, passwd, subid, content, prov, run, lock, local, bound, hist>>

\* run_host_setup, apply_selinux_policy, apply_vm_fcontext: a failure exits.
Hooks(p) ==
    /\ At(p, "hooks")
    /\ \/ Goto(p, "lookup") /\ NoFault
       \/ Goto(p, "failed") /\ Fault
    /\ UNCHANGED <<etc, var, run, lock, local, bound, hist>>

\* generate_units looks for the conf: without one the marker is taken back.  A
\* failing generator or daemon-reload raises CalledProcessError instead.
CheckUnits(p) ==
    /\ At(p, "check")
    /\ IF conf[wl[p]] = Absent
       THEN Unmark(wl[p]) /\ Goto(p, "failed") /\ NoFault
       ELSE /\ \/ Goto(p, "sysusers") /\ NoFault
               \/ Goto(p, "failed") /\ Fault
            /\ UNCHANGED marker
    /\ UNCHANGED <<config, passwd, subid, var, run, lock, local, bound, hist>>

\* systemd-sysusers on the workload's conf: creates the user unless it exists,
\* with a UID of its own choosing if another user has the requested one.
Sysusers(p) ==
    /\ At(p, "sysusers")
    /\ LET w == wl[p]
           u == IF \E v \in Workloads : passwd[booted][v] = conf[w]
                THEN SystemUid ELSE conf[w]
       IN IF conf[w] = Absent
          THEN Goto(p, "failed") /\ UNCHANGED <<passwd, split>>
          ELSE /\ Goto(p, "ensure")
               /\ passwd' = [passwd EXCEPT ![booted][w] = IF @ = Absent THEN u ELSE @]
               /\ split' = IF \E d \in deployed : passwd[d][w] \notin {Absent, passwd'[booted][w]}
                           THEN split \cup {w} ELSE split
    /\ UNCHANGED <<config, marker, subid, var, run, lock, local, count, stranded, subidLeft>>

-----------------------------------------------------------------------------
(* workload-ensure-user, run by enable and by the setup unit *)

\* Takes the workload's ensure-user lock and reads the passwd line once.
EnsureUser(p) ==
    /\ At(p, "ensure")
    /\ \A q \in Procs : pc[q] \in EnsureLabels => wl[q] # wl[p]
    /\ LET w == wl[p] IN
       IF passwd[booted][w] # Absent /\ Loads(w)
       THEN uid' = [uid EXCEPT ![p] = passwd[booted][w]] /\ Goto(p, "home")
       ELSE Goto(p, "failed") /\ UNCHANGED uid
    /\ UNCHANGED <<etc, var, run, lock, cmd, wl, mine, todo, dirs, noted, count, hist>>

\* setup_home_directory chowns the tops of state/ and data/, and
\* record_deployment_provenance stamps the root; a failure of either is logged.
SetupHome(p) ==
    /\ At(p, "home")
    /\ LET w == wl[p] IN
       /\ \/ /\ tree' = [tree EXCEPT ![w] = uid[p]]
             /\ prov' = [prov EXCEPT ![w] = booted]
             /\ NoFault
          \/ /\ tree' = [tree EXCEPT ![w] = IF @ = Absent THEN Root ELSE @]
             /\ prov' = [prov EXCEPT ![w] = booted]
             /\ Fault
          \/ /\ tree' = [tree EXCEPT ![w] = uid[p]]
             /\ Fault
             /\ UNCHANGED prov
       /\ Goto(p, IF w \in Vms THEN "provision" ELSE "subid")
    /\ UNCHANGED <<etc, content, run, lock, local, bound, hist>>

\* configure_subuid_subgid under SUBID_LOCK: a user that has an entry keeps it.
\* A UID outside the range has no derived range and is an error.
ConfigureSubid(p) ==
    /\ At(p, "subid")
    /\ lock = NoProc
    /\ LET w == wl[p] IN
       IF uid[p] \in Uids
       THEN /\ subid' = [subid EXCEPT ![booted][w] = IF @ = Absent THEN uid[p] ELSE @]
            /\ Goto(p, "provision")
       ELSE Goto(p, "failed") /\ UNCHANGED subid
    /\ UNCHANGED <<config, marker, passwd, var, run, lock, local, count, hist>>

\* The remaining steps touch no identity; the must-succeed ones may fail.
Provision(p) ==
    /\ At(p, "provision")
    /\ \/ Goto(p, "start") /\ NoFault
       \/ Goto(p, "failed") /\ Fault
    /\ UNCHANGED <<etc, var, run, lock, local, bound, hist>>

\* enable and recreate transfer a container's image, which may fail, and start
\* or restart the units if there are any; the service waits for the setup unit.
\* recreate restarts the setup unit before the transfer, and the service with it.
StartService(p) ==
    /\ At(p, "start")
    /\ \/ /\ cmd[p] # "setup" /\ wl[p] \notin Vms
          /\ ~(cmd[p] = "regen" /\ conf[wl[p]] # Absent)
          /\ Goto(p, "failed")
          /\ Fault
          /\ UNCHANGED run
       \/ /\ cmd[p] = "regen" /\ wl[p] \notin Vms /\ conf[wl[p]] # Absent
          /\ startq' = startq \cup {wl[p]}
          /\ running' = running \ {wl[p]}
          /\ Goto(p, "failed")
          /\ Fault
          /\ UNCHANGED conf
       \/ /\ cmd[p] # "setup" /\ conf[wl[p]] = Absent
          /\ Goto(p, "failed")
          /\ UNCHANGED <<run, faults>>
       \/ /\ cmd[p] # "setup" /\ conf[wl[p]] # Absent
          /\ startq' = startq \cup {wl[p]}
          /\ running' = IF cmd[p] = "regen" THEN running \ {wl[p]} ELSE running
          /\ Goto(p, "exit")
          /\ UNCHANGED <<conf, faults>>
       \/ /\ cmd[p] = "setup"
          /\ running' = running \cup {wl[p]}
          /\ Goto(p, "exit")
          /\ UNCHANGED <<conf, startq, faults>>
    /\ UNCHANGED <<etc, var, lock, local, bound, hist>>

\* systemd runs a queued start job: the setup unit first.
StartSetup(p, w) ==
    /\ w \in startq /\ ~Booting
    /\ Exclusive => \A q \in Procs : cmd[q] # "cleanup"
    /\ Begin(p, "setup", w, "sysusers")
    /\ startq' = startq \ {w}
    /\ UNCHANGED <<etc, var, conf, running, lock, uid, mine, todo, dirs, noted, count, hist>>

-----------------------------------------------------------------------------
(* workloadctl disable [--purge] *)

StartDisable(p, w, c) ==
    /\ CommandMayStart(w)
    /\ c \in {"disable", "purge"}
    /\ Loads(w)
    /\ Begin(p, c, w, "stop")
    /\ CountCommand
    /\ UNCHANGED <<etc, var, run, lock, uid, mine, todo, dirs, noted, hist>>

\* systemctl stop on the service and on its oneshot helpers: cancels a queued
\* start and ends a setup unit that is still activating.
StopUnits(p) ==
    /\ At(p, "stop")
    /\ startq' = startq \ {wl[p]}
    /\ running' = running \ {wl[p]}
    /\ pc' = [q \in Procs |-> IF q = p THEN "unmark"
                              ELSE IF cmd[q] = "setup" /\ wl[q] = wl[p] THEN "exit"
                              ELSE pc[q]]
    /\ UNCHANGED <<etc, var, conf, lock, local, count, hist>>

\* Every step from here is attempted whether or not the one before it worked.
RemoveMarker(p) ==
    /\ At(p, "unmark")
    /\ \/ Unmark(wl[p]) /\ NoFault
       \/ UNCHANGED marker /\ Fault
    /\ Goto(p, "unconf")
    /\ UNCHANGED <<config, passwd, subid, var, run, lock, local, bound, hist>>

\* _remove_run_files unlinks the conf with the units.
RemoveRunFiles(p) ==
    /\ At(p, "unconf")
    /\ \/ conf' = [conf EXCEPT ![wl[p]] = Absent] /\ NoFault
       \/ UNCHANGED conf /\ Fault
    /\ Goto(p, IF cmd[p] = "disable" THEN "exit"
               ELSE IF wl[p] \in Vms THEN "userdel" ELSE "subrm")
    /\ UNCHANGED <<etc, var, startq, running, lock, local, bound, hist>>

\* remove_subid_entries
RemoveEntries(w) == subid' = [subid EXCEPT ![booted][w] = Absent]

\* Mutation: a purge forgets the subid entry.
ForgetSubid(p) ==
    /\ At(p, "subrm")
    /\ Goto(p, "userdel")
    /\ UNCHANGED <<etc, var, run, lock, local, count, hist>>

\* ContainerSubstrate.teardown(purge=True) under SUBID_LOCK.
RemoveSubid(p) ==
    /\ At(p, "subrm")
    /\ lock = NoProc
    /\ \/ /\ RemoveEntries(wl[p])
          /\ UNCHANGED <<subidLeft, faults>>
       \/ /\ subid[booted][wl[p]] # Absent
          /\ Fault
          /\ subidLeft' = subidLeft \cup {wl[p]}
          /\ UNCHANGED subid
    /\ Goto(p, "userdel")
    /\ UNCHANGED <<config, marker, passwd, var, run, lock, local, bound, stranded, split>>

DeleteUser(p) ==
    /\ At(p, "userdel")
    /\ \/ passwd' = [passwd EXCEPT ![booted][wl[p]] = Absent] /\ NoFault
       \/ UNCHANGED passwd /\ Fault
    /\ Goto(p, "rmtree")
    /\ UNCHANGED <<config, marker, subid, var, run, lock, local, bound, hist>>

\* rmtree of the workload's root: all of it, or whatever it got to.
RmTree(w) ==
    \/ /\ tree' = [tree EXCEPT ![w] = Absent]
       /\ content' = [content EXCEPT ![w] = {}]
       /\ prov' = [prov EXCEPT ![w] = NoDeployment]
       /\ stranded' = stranded \ {w}
       /\ NoFault
    \/ /\ Fault
       /\ \E kept \in SUBSET content[w] : content' = [content EXCEPT ![w] = kept]
       /\ prov' \in {prov, [prov EXCEPT ![w] = NoDeployment]}
       /\ UNCHANGED <<tree, stranded>>

RemoveTree(p) ==
    /\ At(p, "rmtree")
    /\ RmTree(wl[p])
    /\ Goto(p, "exit")
    /\ UNCHANGED <<etc, run, lock, local, bound, subidLeft, split>>

-----------------------------------------------------------------------------
(* workloadctl cleanup --apply *)

\* The names of every TOML that parses are collected first ...
StartCleanup(p) ==
    /\ ~Booting /\ commands < MaxCommands
    /\ Exclusive => \A q \in Procs : cmd[q] = "none"
    /\ Begin(p, "cleanup", NoWorkload, "scan")
    /\ noted' = [noted EXCEPT ![p] = {w \in Workloads : Loads(w)}]
    /\ CountCommand
    /\ UNCHANGED <<etc, var, run, lock, uid, mine, todo, dirs, hist>>

\* Mutation: provenance is not consulted.
BelongsNowhereElse(w) == FALSE

\* deployment.other_deployments_state
BelongsElsewhere(w) == prov[w] \in deployed \ {booted}

\* ... then the users and directories that are orphaned by that list.
Scan(p) ==
    /\ At(p, "scan")
    /\ LET orphans == {w \in Workloads \ noted[p] : ~BelongsElsewhere(w)} IN
       /\ todo' = [todo EXCEPT ![p] = {w \in orphans : passwd[booted][w] # Absent}]
       /\ dirs' = [dirs EXCEPT ![p] = {w \in orphans : tree[w] # Absent}]
    /\ Goto(p, "sweepsub")
    /\ UNCHANGED <<etc, var, run, lock, cmd, wl, uid, mine, noted, count, hist>>

SweepSubid(p) ==
    /\ At(p, "sweepsub")
    /\ \/ /\ lock = NoProc
          /\ \E w \in todo[p] :
                /\ wl' = [wl EXCEPT ![p] = w]
                /\ todo' = [todo EXCEPT ![p] = @ \ {w}]
                /\ RemoveEntries(w)
          /\ Goto(p, "sweepuser")
       \/ /\ todo[p] = {}
          /\ Goto(p, "sweepdir")
          /\ UNCHANGED <<wl, todo, subid>>
    /\ UNCHANGED <<config, marker, passwd, var, run, lock, cmd, uid, mine, dirs, noted, count, hist>>

\* userdel -r after terminate-user; it refuses a user that is still in use.
SweepUser(p) ==
    /\ At(p, "sweepuser")
    /\ LET w == wl[p] IN
       \/ /\ passwd' = [passwd EXCEPT ![booted][w] = Absent]
          /\ running' = running \ {w}
          /\ \E kept \in SUBSET content[w] : content' = [content EXCEPT ![w] = kept]
          /\ NoFault
       \/ Fault /\ UNCHANGED <<passwd, running, content>>
    /\ Goto(p, "sweepsub")
    /\ UNCHANGED <<config, marker, subid, tree, prov, conf, startq, lock, local, bound, hist>>

SweepDir(p) ==
    /\ At(p, "sweepdir")
    /\ \/ \E w \in dirs[p] :
            /\ dirs' = [dirs EXCEPT ![p] = @ \ {w}]
            /\ RmTree(w)
          /\ UNCHANGED pc
       \/ /\ dirs[p] = {}
          /\ Goto(p, "exit")
          /\ UNCHANGED <<dirs, tree, content, prov, stranded, faults>>
    /\ UNCHANGED <<etc, run, lock, cmd, wl, uid, mine, todo, noted, bound, subidLeft, split>>

-----------------------------------------------------------------------------
(* The rest of the system: the operator's files, the workload, the host *)

\* cmd_create refuses a name whose directory exists; a config that validates
\* badly is reported and left where it is.
CreateConfig(w) ==
    /\ CommandMayStart(w)
    /\ config[booted][w] = "none"
    /\ \E c \in {"ok", "invalid"} : config' = [config EXCEPT ![booted][w] = c]
    /\ CountCommand
    /\ UNCHANGED <<marker, passwd, subid, var, run, lock, pc, local, hist>>

\* The operator deletes the workload's directory, marker and all.
RemoveConfig(w) ==
    /\ CommandMayStart(w)
    /\ config[booted][w] # "none"
    /\ config' = [config EXCEPT ![booted][w] = "none"]
    /\ Unmark(w)
    /\ CountCommand
    /\ UNCHANGED <<passwd, subid, var, run, lock, pc, local, hist>>

\* A hand edit leaves the TOML unparseable.
BreakConfig(w) ==
    /\ HandEdits
    /\ CommandMayStart(w)
    /\ Loads(w)
    /\ config' = [config EXCEPT ![booted][w] = "broken"]
    /\ CountCommand
    /\ UNCHANGED <<marker, passwd, subid, var, run, lock, pc, local, hist>>

\* recreate runs the generator, which skips a workload that is not enabled, and
\* restarts the setup unit and the service.
StartRegen(p, w) ==
    /\ CommandMayStart(w)
    /\ Loads(w)
    /\ Begin(p, "regen", w, "lookup")
    /\ CountCommand
    /\ UNCHANGED <<etc, var, run, lock, uid, mine, todo, dirs, noted, hist>>

\* Whose files w's processes create: a container's are owned out of its
\* subordinate range, a VM's by its user.
Mapping(w) == IF w \in Vms THEN passwd[booted][w] ELSE subid[booted][w]

\* A running workload writes below the directories it owns.
Work(w) ==
    /\ w \in running
    /\ Mapping(w) # Absent /\ tree[w] = passwd[booted][w]
    /\ content' = [content EXCEPT ![w] = @ \cup {Mapping(w)}]
    /\ UNCHANGED <<etc, tree, prov, run, lock, pc, local, count, hist>>

\* The command is killed; the kernel drops its flock.
Kill(p) ==
    /\ ~At(p, "idle")
    /\ Fault
    /\ Finish(p)
    /\ lock' = IF lock = p THEN NoProc ELSE lock
    /\ UNCHANGED <<etc, var, run, bound, hist>>

\* A reboot, a rollback (d exists) or an upgrade (d is new and its /etc is the
\* booted one's, merged at shutdown).  /run is empty and the generator of the
\* boot is the first thing to run.
Boot(p, d) ==
    /\ boots < MaxBoots
    /\ boots' = boots + 1
    /\ booted' = d
    /\ deployed' = deployed \cup {d}
    /\ IF d \in deployed THEN UNCHANGED etc
       ELSE /\ config' = [config EXCEPT ![d] = config[booted]]
            /\ marker' = [marker EXCEPT ![d] = marker[booted]]
            /\ passwd' = [passwd EXCEPT ![d] = passwd[booted]]
            /\ subid' = [subid EXCEPT ![d] = subid[booted]]
    /\ conf' = [w \in Workloads |-> Absent]
    /\ startq' = {} /\ running' = {}
    /\ lock' = NoProc
    /\ pc' = [q \in Procs |-> IF q = p THEN "next" ELSE "idle"]
    /\ cmd' = [q \in Procs |-> IF q = p THEN "boot" ELSE "none"]
    /\ wl' = [q \in Procs |-> NoWorkload]
    /\ uid' = [q \in Procs |-> Absent]
    /\ mine' = [q \in Procs |-> {}]
    /\ todo' = [q \in Procs |-> IF q = p THEN Workloads ELSE {}]
    /\ dirs' = [q \in Procs |-> {}] /\ noted' = [q \in Procs |-> {}]
    /\ UNCHANGED <<var, commands, faults, hist>>

\* ostree prunes a deployment that is not booted.
Prune(d) ==
    /\ d \in deployed \ {booted}
    /\ deployed' = deployed \ {d}
    /\ UNCHANGED <<etc, var, run, lock, pc, local, booted, commands, boots, faults, hist>>

-----------------------------------------------------------------------------
Step(p) ==
    \/ NextWorkload(p) \/ Lookup(p) \/ AcquireLock(p) \/ ClaimUid(p) \/ PinUid(p)
    \/ EmitUnits(p) \/ Preflight(p) \/ Hooks(p) \/ CheckUnits(p) \/ Sysusers(p)
    \/ EnsureUser(p) \/ SetupHome(p) \/ ConfigureSubid(p) \/ Provision(p)
    \/ StartService(p) \/ StopUnits(p) \/ RemoveMarker(p) \/ RemoveRunFiles(p)
    \/ RemoveSubid(p) \/ DeleteUser(p) \/ RemoveTree(p) \/ Scan(p) \/ SweepSubid(p)
    \/ SweepUser(p) \/ SweepDir(p) \/ Exit(p)

Start(p) ==
    \/ \E w \in Workloads : \/ StartEnable(p, w) \/ StartRegen(p, w) \/ StartSetup(p, w)
                            \/ \E c \in {"disable", "purge"} : StartDisable(p, w, c)
    \/ StartCleanup(p)

Next ==
    \/ \E p \in Procs : Step(p) \/ Start(p) \/ Kill(p)
    \/ \E w \in Workloads :
          CreateConfig(w) \/ RemoveConfig(w) \/ BreakConfig(w) \/ Work(w)
    \/ \E d \in Deployments : Prune(d) \/ \E p \in Procs : Boot(p, d)

Spec == Init /\ [][Next]_vars

\* Every process that has started keeps taking steps (the kernel schedules it,
\* and every subprocess it waits for has a timeout or ends); the operator, the
\* workload and systemd's job queue promise nothing.
FairSpec ==
    /\ Spec
    /\ \A p \in Procs : WF_vars(Step(p))

-----------------------------------------------------------------------------
(* Properties *)

\* UIDs a workload holds on the booted deployment: its passwd line and its
\* pending sysusers conf.
Held(w) == {passwd[booted][w], conf[w]} \cap Uids

\* resolve_uid pins a claimed UID before it lets go of SUBID_LOCK, so no two
\* workloads ever hold the same UID, whichever of them the conf or the passwd
\* line exists for so far.  The UID selects the egress policy of a workload.
UniqueUids ==
    \A v, w \in Workloads : v # w => Held(v) \cap Held(w) = {}

\* Two users whose subuid/subgid entries derive from the same UID share a
\* range.  configure_subuid_subgid never corrects an entry, so the only way
\* there is a purge that could not remove the entry of a user it then deleted.
SubidRangesDisjoint ==
    \A d \in deployed, v, w \in Workloads :
        v # w /\ subid[d][v] # Absent /\ subid[d][v] = subid[d][w]
            => {v, w} \cap subidLeft # {}

\* claim_uid adopts the owner of a tree that outlived its user: whatever was
\* killed, failed or rolled back before, a running workload can read the files
\* it wrote, unless the generator reported a collision, a purge left a subid
\* entry behind, or two deployments came to know its user by different UIDs.
OwnData ==
    \A w \in running :
        \/ content[w] \subseteq {Mapping(w)} \/ Mapping(w) = Absent
        \/ w \in stranded \cup subidLeft \cup split

\* State that provenance.json ascribes to another deployment that still exists
\* is never swept: its tree and its user only go by a purge of that workload.
OtherDeploymentsStateIsSpared ==
    [][\A w \in Workloads :
          /\ prov[w] \in deployed \ {booted} /\ booted' = booted
          /\ \/ tree[w] # Absent /\ tree'[w] = Absent
             \/ passwd[booted][w] # Absent /\ passwd'[booted][w] = Absent
          => \E p \in Procs : cmd[p] = "purge" /\ wl[p] = w]_vars

\* cmd_cleanup: "A user with a config (even disabled) is not orphaned".
CleanupSparesConfigured ==
    [][\A p \in Procs :
          At(p, "sweepuser") /\ passwd'[booted] # passwd[booted] /\ pc'[p] = "sweepsub"
              => config[booted][wl[p]] = "none"]_vars

\* cmd_enable: "Every step that can fail before anything is started reverts the
\* enabled marker".
FailedEnableLeavesDisabled ==
    \A p \in Procs :
        At(p, "failed") /\ cmd[p] = "enable" => wl[p] \notin marker[booted]

\* claim_uid: a collision means that "/var belongs to a UID that is now someone
\* else's".
CollisionIsWithAnother ==
    [][\A w \in stranded' \ stranded :
          \E v \in Workloads \ {w} : tree[w] \in Held(v)]_vars

\* Whatever a command waits for (SUBID_LOCK, the ensure-user lock) it gets: no
\* order in which commands and setup units take the two locks leaves one stuck.
CommandsFinish ==
    \A p \in Procs : (pc[p] # "idle") ~> (pc[p] = "idle")

-----------------------------------------------------------------------------
(* Why the UIDs stay unique: what each process may rely on between its steps. *)
(* Holds when the operator does not overlap commands on a workload.           *)

GeneratorLabels == {"lookup", "lock", "claim", "pin", "emit"}
ProvisionLabels == {"sysusers", "ensure", "home", "subid", "provision"}

\* The labels a command passes through.
LabelsOf(c) ==
    CASE c = "none" -> {"idle"}
      [] c = "enable" -> {"preflight", "hooks", "check", "start", "exit", "failed"}
                             \cup GeneratorLabels \cup ProvisionLabels
      [] c = "regen" -> {"start", "exit", "failed"} \cup GeneratorLabels
      [] c = "boot" -> {"next"} \cup GeneratorLabels
      [] c = "setup" -> {"start", "exit", "failed"} \cup ProvisionLabels
      [] c = "disable" -> {"stop", "unmark", "unconf", "exit"}
      [] c = "purge" -> {"stop", "unmark", "unconf", "subrm", "userdel", "rmtree", "exit"}
      [] c = "cleanup" -> {"scan", "sweepsub", "sweepuser", "sweepdir", "exit"}

\* The labels at which a process works on its wl.
TargetLabels == Labels \ {"idle", "next", "scan", "sweepsub", "sweepdir", "exit", "failed"}

ProcessOK(p) ==
    /\ pc[p] \in LabelsOf(cmd[p])
    /\ pc[p] \in TargetLabels => wl[p] \in Workloads
    /\ pc[p] = "subid" => wl[p] \notin Vms
    /\ lock = p <=> pc[p] \in LockedLabels

ProcessInv == \A p \in Procs : ProcessOK(p)

\* The commands the operator points at one workload.
Targeted == {"enable", "regen", "disable", "purge"}

ExclusionInv ==
    \A p, q \in Procs : p # q =>
        /\ cmd[p] \in Targeted /\ cmd[q] \in Targeted => wl[p] # wl[q]
        /\ cmd[p] \in {"boot", "cleanup"} => cmd[q] = "none"

\* A disable or purge that has stopped the units meets no setup unit any more.
StoppedOK(p) ==
    pc[p] \in {"unmark", "unconf", "subrm", "userdel", "rmtree"} =>
        /\ wl[p] \notin startq
        /\ \A q \in Procs : cmd[q] = "setup" /\ wl[q] = wl[p] => pc[q] = "exit"

StoppedInv == \A p \in Procs : StoppedOK(p)

\* What the generator and workload-ensure-user know of the UID they work with.
UidOK(p) ==
    /\ pc[p] = "pin" => /\ uid[p] \in Uids
                        /\ \A v \in Workloads \ {wl[p]} : uid[p] \notin Held(v)
    /\ pc[p] = "emit" => uid[p] \in {passwd[booted][wl[p]], conf[wl[p]]} \ {Absent}
    /\ pc[p] \in {"home", "subid"} => uid[p] \in {passwd[booted][wl[p]]} \ {Absent}

UidInv ==
    /\ UniqueUids
    /\ \A d \in Deployments, v, w \in Workloads :
          v # w /\ passwd[d][v] \in Uids => passwd[d][v] # passwd[d][w]
    /\ \A p \in Procs : UidOK(p)

\* A subid entry derives from its user's UID unless a purge left it behind.
SubidInv ==
    /\ \A d \in Deployments, w \in Workloads :
          /\ subid[d][w] \in {Absent, passwd[d][w]} \/ w \in subidLeft
          /\ w \in Vms => subid[d][w] = Absent
    /\ \A p \in Procs :
          /\ pc[p] = "userdel" => subid[booted][wl[p]] = Absent \/ wl[p] \in subidLeft
          /\ pc[p] = "sweepuser" => subid[booted][wl[p]] = Absent

IInv == TypeOK /\ ProcessInv /\ ExclusionInv /\ StoppedInv /\ UidInv /\ SubidInv
=============================================================================
