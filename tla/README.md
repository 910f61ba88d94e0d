# workloadctl in TLA+

`workloadctl` (under `src/workloadctl/`) manages workloads on bootc hosts: a
workload is a directory `/etc/workloads.d/<name>/` with a `workload.toml`, run
as rootless podman containers or as a KVM virtual machine, under a system user
of its own. Most of the program is Python that rewrites files and calls
`systemctl`, `podman`, `nft` and `qemu-img`, with no lock around a command. What
makes it hard to get right is therefore not one algorithm but the state that
several commands, systemd units, reboots and rollbacks share. These modules
model that state and those steps.

## The system and its parts

| Part | Code | Module |
|------|------|--------|
| Identity: UID, subordinate ranges, users, trees | `workload_uid`, `ensure_*`, `deployment`, `cmd_enable`, `cmd_disable`, `cmd_cleanup`, `provisioning` | `WorkloadIdentity` |
| Boot generator | `gen_run`, `gen_common` | `WorkloadIdentity`, `RunFiles` |
| Addresses derived from a UID | `workload_addr` | `WorkloadAddr` |
| Egress policy: validation, rendering, nft elements | `vm_egress_validate`, `container_validate`, `egress_policy`, `broker_config`, `nft_elements`, `nft`, `filter_arm`, `inspect_arm`, the two rulesets | `EgressPolicy` |
| Units, their hooks, and the order systemd runs them in | `gen_vm`, `gen_container`, `gen_container_heads`, `gen_egress`, `cmd_lifecycle` | `WorkloadUnits`, which implements `Confinement` |
| System disk of a VM, update and rollback of VMs | `vm_disk_build`, `vm_disk_generations`, `substrate_vm` | `VmDisk` |
| Seed, instance-id and provisioning record of a VM | `ensure_vm`, `vm_provision`, `vm_ssh_keys`, `vm_notify`, the provisioning part of `diagnose` | `VmSeed` |
| Images of containers, update, rollback, recreate | `cmd_update`, `substrate_container`, `provisioning` | `ContainerUpdate` |
| Control monitor, shutdown, guest clock | `qmp`, `vm_clock`, the libexec helpers | `VmControl` |
| Packet capture | `pcap_session`, `pcap_host_tap`, `pcap_vm_tap`, `pcap_container_tap`, `pcap_file` | `Capture`, `PcapFile` |
| Backup and restore | `backup`, `cmd_backup` | `Backup` |
| The three together, on one VM and one container | | `Operations` |
| Unit files and secrets under `/run`; edit, drift, rotate | `run_files`, `secrets_env`, `cmd_edit`, `cmd_drift`, `cmd_secret` | `RunFiles` |
| Metrics, reports, SELinux text, command line, bundles, images | see `PROJECT.json` | not modelled |

`components` in `PROJECT.json` lists every source file with what is and what is
not modelled of it.

How the parts interact: `enable` gives a workload its identity (a UID, a user,
a subordinate range, a tree under `/var`) and hands it to systemd; the units
that the boot generator writes run it. From then on `update`, `rollback` and
`recreate` change what it runs, an image in its user's podman store or a disk
in its tree, while systemd restarts it whenever it ends. `disable --purge` and
`cleanup` take the identity away. Whatever a workload sends leaves through
elements of two nft tables that are keyed on its UID: the hooks of its units arm
them, and web traffic is turned to an inspector of its own, with a responder for
names and a broker for credentials beside it (the moatery package, external).
Captures, backups and the clock keeper share QEMU's control monitor with the
helper that shuts the guest down. `/etc` belongs to one ostree deployment and
comes back with a rollback of the host, `/var` is shared by all deployments,
and `/run` starts empty at every boot; much of what can go wrong is one of the
three knowing something that the others do not.

## How the modules are written

A process is a program counter (`pc`) with local variables; each operation on a
file, a unit or an image is one action, and everything the code reads before
and uses after another operation is a local variable. A step that the code
expects to be able to fail has a second disjunct with `Fault`, which counts
against `MaxFaults`; so do killed processes and crashes of the host. `Finish`
drops the locals. Names of labels, variables and actions follow the code, and
`map` in `PROJECT.json` names the lines each definition stands for.

A few definitions are marked as mutants. They are wrong versions of the
definition that follows them, as a slip in the code would make them
(a forgotten unlock, a prune the wrong way round), and no specification uses
them. Putting one in the place of the right definition makes TLC report the
property that `mutants` in `PROJECT.json` names, which shows that the property
depends on that code.

The properties that a run checks are often conjunctions (`UnitsAreSound`,
`CapturesAreContained`): each conjunct is a definition with a comment of its own,
and the conjunction is what the `.cfg` names. A module has one `TypeOK`, checked
by itself or as the first conjunct of an invariant. Action properties are
`[][A]_vars` where `A` says what a step may not do.

Last in a module may come statements that a doc, a comment or a test makes and the
code does not keep. They are listed under *Disagreements* of the module. Two have a
run in `PROJECT.json`, three more a `.cfg` of their own (`EgressUntriggered`,
`PcapFile`, `VmSeedRestart`), and any other can be put in the place of the
properties of the module's `.cfg`; TLC shows the violation of each.

Every run sets `CHECK_DEADLOCK FALSE`: all models are bounded, and a system
whose operator has no commands left and whose services are up has nothing to do.

## WorkloadIdentity

**State.** Per deployment: `config` (no TOML, a valid one, an invalid one, one
that does not parse), `marker` (`.enabled`), `passwd`, `subid`. Shared: `tree`
(owner of the directories), `content` (whose files are below), `prov`
(`provenance.json`). Per boot: `conf` (pending sysusers confs), `startq` (start
jobs), `running`. `lock` is SUBID_LOCK. A UID is a number of `UidMin..UidMax`;
a subordinate range is named by the UID that it derives from, since
`derived_subid_range` is a function of the UID.

**Actions.** `enable`: `Preflight`, `Hooks`, the generator run (`Lookup`,
`AcquireLock`, `ClaimUid`, `PinUid`, `EmitUnits`, `CheckUnits`), `Sysusers`,
`workload-ensure-user` (`EnsureUser`, `SetupHome`, `ConfigureSubid`,
`Provision`) and `StartService`. The setup unit runs the same middle part, the
boot runs the generator over all configs (`NextWorkload`). `disable` and
`purge`: `StopUnits`, `RemoveMarker`, `RemoveRunFiles`, `RemoveSubid`,
`DeleteUser`, `RemoveTree`. `cleanup --apply`: `Scan`, and then per orphan
`SweepSubid`, `SweepUser`, `SweepDir`. The environment: `CreateConfig`,
`RemoveConfig`, `BreakConfig`, `Work` (the workload writes files), `Kill`,
`Boot` (reboot, upgrade or rollback) and `Prune` (of a deployment).

**Properties.**

- `UniqueUids`: no two workloads hold one UID, counting passwd lines and
  pending confs. The UID selects a workload's egress policy, its addresses and
  its subordinate range, so most of the rest of the system rests on this.
- `SubidRangesDisjoint`: no two users' ranges are the same, unless the removal
  of an entry failed in a purge (`subidLeft` remembers).
- `OwnData`: a running workload can read what it wrote before, whatever was
  killed, failed or rolled back in between. Excepted are the cases in which the
  code itself reports a collision (`stranded`), a left entry, and a user known
  by two UIDs on two deployments (`split`).
- `OtherDeploymentsStateIsSpared`: `cleanup` never takes a tree, or its user,
  that another existing deployment's provenance claims.
- `CommandsFinish`: every command ends. Weak fairness of each process's steps is
  justified by the operating system's scheduling and by the timeouts of the
  subprocesses; nothing is assumed of the operator or of systemd's queue.

**Runs.** `IdentityConcurrent` (two workloads, two overlapping processes, four
commands, one fault) checks `OwnData`, `SubidRangesDisjoint` and the inductive
invariant `IInv`, whose first conjunct is `TypeOK` and from which `UniqueUids`
follows (see below). Two UIDs for two workloads make every collision
possible and let the range run out. `IdentityRollback` (one process, two
deployments, two boots, three commands) checks `UniqueUids`, `OwnData` and
`OtherDeploymentsStateIsSpared`: a second deployment is where `/etc` and `/var`
come apart, and two boots go there and back. The only fault here is a boot, which
may cut a command off at any step; steps that fail are in `IdentityConcurrent`.
`IdentityLiveness` (two processes, a container and a VM, commands on one
workload may overlap) checks `CommandsFinish`. Workloads that are not VMs and
process slots are interchangeable and used as symmetry sets where no liveness
is checked.

`Exclusive = TRUE` says that the operator does not point two commands at one
workload at the same time, and does not run `cleanup` beside others. The code
does nothing to enforce it. Without it `UniqueUids` does not hold: `enable`
looks a UID up, a `disable --purge` of the same workload deletes the user,
another workload takes the UID, and the first `enable` writes a conf with it
(`gen_run.py:109`). `CommandsFinish` is checked without it.

**Disagreements** between the code and what it says of itself:

- `FailedEnableLeavesDisabled`: `cmd_enable.py:6-8` promises that a failed `enable`
  leaves the workload disabled; a failing `provision_user` or image transfer
  leaves the marker.
- `CleanupSparesConfigured`: `cleanup` treats a TOML that does not parse as no TOML
  (`cmd_cleanup.py:55`) and removes the workload's user and tree.
- `CollisionIsWithAnother`: an `enable` that is run again before `systemd-sysusers`
  created the user meets its own pending conf, reports a collision with
  somebody else and strands the tree.

Seen while modelling: `create` leaves an invalid config behind
because `sys.exit` is not the exception it catches (`cmd_create.py:169`), and
`cleanup` works on names listed before, so that a workload created meanwhile is
swept (`cmd_cleanup.py:42`).

## VmDisk

**State.** A disk is an inode: `sys` is the one at `system.qcow2`, `gens` the
ones at `system.qcow2.gen-N`, `whole` those written completely, `qemu` the one
QEMU has open. `svc` is the VM service, `unit` the build unit. Two processes:
an operator with one command at a time, and the build unit.

**Actions.** `update`: `CheckDisk` (rotate), `PruneGenerations`, `BeginCopy`,
`EndCopy`, on failure `UnlinkDisk` and `RestoreGeneration`, `FinishBuild`,
`RestartService`, `AwaitService`. `rollback`: `StopService`, `RotateCurrent`,
`SwapIn`, on failure `UndoSwap`, `PruneAfterSwap`, `StartService`. systemd:
`BeginStart`, `EndBuild`, `Launch`, `Relaunch`. Also `GuestExit`,
`OperatorStart`, `OperatorStop`, `Kill`, `Reboot`.

**Run `VmDiskCommands`** (three commands, two faults, `rollback_keep` = 1):
the disk of before is on disk until the next command (`DiskOfBeforeIsKept`), the
two except clauses put it back (`FailureIsUndone`), a rollback can be rolled back
(`RollbackIsReversible`), retention is bounded (`GenerationsBounded`, with
`TypeOK` in `DisksInOrder`), an update
that succeeds has moved the guest to the new disk (`GuestRunsNewDisk`), and start
jobs and commands end (`StartsSettle`). Three commands are needed before a
prune has something to choose from, two faults for one in a command and one in
its error path. Fairness: the processes and systemd's own job queue take their
steps; the guest and the operator owe nothing. When the build unit runs beside a
command (`overlapped`), `DiskOfBeforeIsKept` and the half of `FailureIsUndone` about
rollbacks do not hold, and except it; this is the first of the two disagreements:

- `DiskIsNeverLost`, run `VmDiskOverlap` (one update, two faults, from a VM that is up):
  the guest ends while the update has the disk rotated out, the service starts again
  and with it the build unit; if both builds fail, the only disk is deleted.
- `NoHalfDiskBooted`: the image is copied to `system.qcow2` itself, so a guest reboot
  or a crash starts QEMU on a partial disk.

Seen while modelling: a failing resize after the new disk is in
place is outside the `try` that restores the old one (`vm_disk_build.py:204`); the
result of `systemctl stop` in a rollback is not looked at (`substrate_vm.py:431`). An
`unlink` that fails in either prune is outside the `try` too (`vm_disk_generations.py:48`);
it ends the command where it is, as `Kill` does in the model, but for what of the
oldest generations was removed before it.

## ContainerUpdate

**State.** An image is a number; `remote` is what the registry serves under a
container's reference, `root` what root's store holds of images built here,
`img` the reference in the workload user's store and `saved` the rollback tag.
`bad` are the images that do not come up, or come up and end. `ctr` is the image
a container was created from, `up` the containers that run. A pet has a writable
`layer` and `snaps`. One operator runs one command at a time. `toml`, chosen
at the beginning, says which containers form a workload, their pull policies, and
which workloads are pets and which containers have a health block.

**Actions.** `update [--all] [--force]`: per workload `NextWorkload`, per
container `InspectImage` and `FetchImage`, then `TagOld`, `SnapshotPet`,
`RemovePet`, `RestartWorkload`; after the last workload `Verify`, `Recheck`, and
for what failed `RetagImage` and `RestartRolledBack`. `rollback`: the last two.
`recreate`: `StartRecreate`, `TransferImage`, then as `update`. Beside it
`OperatorStart`, `OperatorStop`, systemd's `Relaunch`, and `Crash`, `Publish`,
`Build`, `Kill`, `Reboot`. What a unit start runs is decided by `Resolved`
(`podman run --pull=...`, or the pet's existing container) and `Launch`.

**Run `ContainerUpdate`** (two commands, one fault, four hosts: a pet beside a
workload built here; one workload of two containers with two new images; pull
policies `always` and `newer`; `never` beside `missing`):

- `RunningIsReferenced`: between commands a running container runs the image
  that its reference names (with `TypeOK`, `ImagesInOrder`);
- `RollbackRestores`: an automatic rollback brings every container of a
  workload back to what it ran before the update;
- `GoodImageKept`: no sequence of updates, forced or rolled back, loses the last
  image with which a container that has a health block worked;
- `VerifiedIsHealthy`: of a workload that ran good images, the containers with a
  health block are healthy when its verification ends. With a health block anywhere
  in the workload the other containers are not looked at (`cmd_update.py:107-112`),
  and nothing is said of them;
- `RemovedLayerIsSaved`: a pet's layer is removed only after it was committed
  to a snapshot that is still there, or the failed commit was reported.

Two images after the first ones let a good update be followed by a bad one, and
two commands let each meet what the other left. `cut` remembers workloads that
a command left half way, by a kill or by an exception that nobody catches;
nothing in the code repairs those, and the properties leave them out. `Pinned`
leaves out `newer` and `always`, with which a restart may pull what the rollback
has just put away.

**Disagreements.**

- `RollbackRunsSaved`, run `ContainerPetRollback`: `rollback` of a pet retags the image but keeps the
  container that was created from the new one, and reports success.
- `UpdateLeavesGoodImages`: an image that keeps its unit from starting at all is
  a failed update, not a failed verification, and is never rolled back.

Seen while modelling: when the pull of a second container fails,
the first one's image is replaced and not tagged, and the next `update` finds
"Already up to date"; an exception in one rollback leaves the other workloads of
`update --all` unverified.

## WorkloadAddr and EgressPolicy

**WorkloadAddr** is the table of `workload_addr.py`: four listener addresses and a
capture group derived from a UID, and the ranges reserved for them. An IPv4 address
is two 16-bit halves, so that the addition carries as it does in the code. What is
to be known of it is proved, see below; `EgressPolicy` uses it.

**State of EgressPolicy.** `file` is the instance file as saved, `unit` the file
the units were generated from, `phase` whether the workload runs. `sets` are the
elements of the two nft tables that this workload or its peers own, `filter` and
`inspect` what the last `filter up` and `inspect up` read and resolved, `static`
the responder's map; `sets.missed` names the sets in which the last purge left
something. Host patterns are a small set with the names each one matches, some of
them padded with a blank or written with the root dot; methods, paths and credentials
likewise.

**Actions.** `Edit`, `Generate` (validate, then write the units; both substrates,
one definition for each group of messages), `Start` (`inspect up`, then
`filter up`, each of which reads the file again, unvalidated, resolves its names
and may fail), `Stop` and `PowerOff`. The purges of `purge_uid_elements` and
`purge_internal_exemptions` may miss the elements of a set, as a failing `nft` or a
uid that `nft` prints as a user name makes them do: they warn, or say nothing, and
the start or stop goes on. The deletion of the redirect's own elements is taken to
succeed here; `WorkloadUnits` lets it fail. `Redirect` and `OutputChain` are the rules of
`workload-proxy.nft` and `workload-filter.nft`, looked up in order.

**Run `EgressPolicy`** (every file of the families in `MCEgressPolicy`, one edit,
three answers of DNS, one missed purge, a peer at the other end of the UID range):

- `AcceptedMeansWhatItSays`: in every accepted file a governed host is never
  spliced, a narrowed one is not widened by a sibling entry, a wildcard does not
  leave its apex out (except a container's apex in the other spelling of the root
  dot, which `container_validate.py:476` compares unfolded), what the tolerant
  readers see is what validation saw once stripped, a VM's broker, where it starts,
  substitutes the credential that its policy selects, no key is without effect, and
  no published port shadows a derived address;
- `ArmedAgrees`: what is armed is of the file and the answers of the last start
  and of nothing before, except in a set that a purge missed, and the responder
  serves only what the filter admits;
- `ReachIsConfined`: over all packets, no workload reaches another's inspector, it
  and its inspector reach what the file lists (and what a missed purge left), and web
  traffic goes to its own inspector;
- `VmStartFailsOnlyOnDns`: nothing that validation let through fails at boot, except
  a wildcard `internal` host (`WildcardInternal`), which fails at every start and
  leaves nothing armed;
- `PeersUntouched`: no step changes another UID's elements.

Families of files around one VM and one container vary together the keys that are
judged together; one edit is enough for a start to meet a file it was not
generated from, and two answers per name for it to change between starts.

**Disagreements.** `UntriggeredIsUnfiltered` (`EgressUntriggered.cfg`):
`docs/schema-reference.toml:2085-2086` and `container_network_config.py:208-209`
have a container without the `[network]` trigger run unfiltered. The units that are
regenerated without it have no `filter down` either (`gen_container_heads.py:27`),
so the restart that applies the edit leaves the UID filtered until the host
reboots. `ContainerCredentialAgrees`, the counterpart of the VM's conjunct, does
not hold either: `broker_config.py:287-289` relies on two entries for one host never
naming different credentials, which only the VM's validation refuses. `BrokerStarts`:
`docs/agent-broker.md:533-541` has validation refuse what the broker would; a
credentialed host written in two spellings passes the one and is refused by the
other. `WildcardInternalStarts`: a wildcard `internal` host is accepted
(`test_egress.py:2905-2927`) and no start resolves it. `ArmedIsConfigAlone`:
`nft.py:80-82` calls the armed state "a function of the config ALONE"; a purge that
fails, or meets a uid rendered as a name that it does not know, leaves the elements
of an earlier configuration beside the new ones.

## WorkloadUnits and Confinement

**Confinement** is the abstract specification: a UID is armed or not, payloads run
or not; a payload starts only when the UID is armed, and it is disarmed only when
no payload is alive.

**WorkloadUnits** is the generator and systemd. Its first half has one definition
per `generate_*` function: the dependencies and the steps (`ExecStartPre=`,
`ExecStart=`, `ExecStop=`, `ExecStopPost=`) of each unit. Its second half runs the
jobs: `job` and `st` per unit, `pc` the step a unit is at, `host` what the hooks have
done (armed, redirect, address, exemption, documents by version) and could not undo
(`stuck`), `loaded` the
version a sidecar read, `running` the payloads alive, `goal` the last command.
systemd is external and modelled by what the directives mean: a start pulls in
`Requires=`, `Wants=` and `BindsTo=` and waits for the jobs of `After=` units; a
restart goes to dependents as try-restart and through `StopPropagatedFrom=` as a
stop, and a transaction that holds a restart and a stop of one unit is refused; a
socket does not start while its service is up; `Restart=` enqueues a restart.

**Actions.** `BeginStart`, `StepStart`, `FailStart` (a step fails the start),
`BeginStop`, `StepStop`, `Exit`, `Crash` (a process dies), `Trip` (the payload's
connections hit `TriggerLimitBurst=` and the socket fails), `Trigger` (socket
activation, which only a stop job of the socket suppresses), `AutoRestart`, and the
operator's `Start`, `Stop`, `Restart`, `Recreate`, `Edit`. In a start or a stop a
removal may fail and the unit go on (`Miss`): each command of a helper's `down` or
purge, all of which exit 0 (`helper_main.py:66-70`), and `podman stop`, `podman rm`,
`pod rm` and `system migrate`. `Recreate` is the restart of the setup unit; the restart
that follows it is `Restart`. The retry of `restart_workload_service` is a further
command; start limits, and the `reset-failed` that clears them, are not modelled.

**Run `WorkloadUnits`** (seven kinds of workload; two commands and an edit with a
failure, or for VMs and a filtered container with its sidecars, which have most
units, a failure in place of a command; two failures for a bridge):

- `Implements`: the units implement `Confinement`; a UID counts as armed when it is
  in the filtered set or the workload is not to be filtered at all. A pet's
  container that outlived its client is excused by name (`Orphanable`): the unit
  of a pet has no `podman rm -f` (`gen_container.py:291`), and such a container
  may outlive `filter down`. So is a container that podman was to remove and did not;
- `ReadyBeforePayload`: a payload starts behind bound sockets, a notified broker,
  listening `virtiofsd`, or the pod's head;
- `UnitsAreSound`: the shutdown ordering has no cycle; a sidecar that is up has the
  documents of the last start; once the jobs have settled, a restart has applied
  the edited policy, a stop has left nothing but what a helper tried to remove and
  could not, and a start without a failure has brought the workload up, whatever it
  was interleaved with.

Not covered by these, and marked in the module: a `recreate` that finds units at work.
The restart of the setup unit may restart the responder before the new map is
written, and `svcaddr down` of a VM that failed may take the address from the
recreate's `inspect up`. For a workload with a responder the setup restart of
`recreate` is refused outright (`cmd_lifecycle.py:172`), which the command ignores.

**Disagreement.** `ResponderStartsLate` (`WorkloadUnitsQuery.cfg`):
`gen_egress.py:774-780` has the responder stay down after a restart "until the
workload's first query, which cannot come before that prestart". A query of the payload
that is going down can: the responder's socket has a restart job and no stop job, so
systemd queues the responder's start behind the socket's restart, which does not wait
for `filter up`, and the responder loads the static map of the start before.

## VmControl, Capture, Backup and Operations

`VmControl` has what the commands share: the service of each workload, its payload,
and for a VM the control monitor with its one client, the capture object and the
guest's clock. `Capture` and `Backup` extend it; `Operations` composes the two.

**Actions.** `VmControl`: starts and stops of units, the shutdown helper's power
button and its timeout, guest exits, suspends, and `Tick`, the clock keeper.
`Capture`: per `nft` call one step (create chain, add rule, list, delete, list
again, drop), the object in QEMU, its staging file and its delivery, `Terminate`, the
unwinding `finally`, a kill at any step, and the `ExecStopPost` that follows.
`Backup`: probe, pause or stop, the copy in two halves, resume or start in the
`finally`, the failures and kills between; restore with its refusals, the guards
about mounts, merge and `--force`.

**Run `Operations`** (one VM and one container; thirteen budgets, each for one question,
such as two captures that end at once, or a backup of one VM that is stopped and
started between the pause and the look at its service):

- `CapturesCleanUp`: when its unit is gone a capture has left no log rule, and the
  last one no chain, after a kill too;
- `CapturesAreContained`: no step takes another capture's rules, leaves the object
  in QEMU while the monitor is free, keeps a stopped capture's file from being
  delivered, or keeps a guest from being asked to power off;
- `DataIsSafe`: the two halves of a cold or crash-consistent archive are of one
  moment, and no restore touches what is mounted under `data/`. Excepted are a
  workload that was starting or stopping when the backup looked, and one that was
  started again after its guest was paused: the backup does not notice that the
  guest it holds is gone;
- `BackupGivesBack`: a guest stays paused only if the backup's process died, QMP `stop`
  was not answered, or `cont` failed and the backup has warned of it; a stopped service
  is started again, unless the `systemctl stop` itself failed or the process died;
- `ClockIsKept`: a skew above the threshold is repaired while the guest runs;
- `CommandsEnd`: captures, backups and restores come to an end.

Fairness: weak, of the steps of each process, of systemd's own steps and of the
keeper's timer. Nothing is assumed of the guest, the operator or the faults. Two
captures make every collision on the shared chains possible, since a third has no
other way to meet them; two halves make every torn archive visible. A round trip of a
capture on the monitor is one step, as `qmp_command` closes the connection before it
returns; a capture that kept it (`GuestVmUpKeeps`) would be a client that holds the
monitor, and `StopPowersOff` is violated then.

**Disagreements.** `PausedIsResumed`: `backup.py:51-52` and `docs/cli.md:1101` say that
an interrupted copy never leaves the guest paused; a kill does (a closed terminal is
enough), and so do a `stop` whose answer is lost (`backup.py:99`) and a `cont` that fails,
which is only warned of (`backup.py:125-137`). Exceptions that the properties name: a
`systemctl stop` that fails is outside the `try`, and the service, stopped or on its way
down, is not started again (`backup.py:266`); a rule added between the listing and `nft delete chain` goes
with the chain (`pcap_host_tap.py:144`); the object stays while a backup holds the
monitor, the next capture's `object-add` fails unnoticed and the old file is delivered
(`pcap_vm_tap.py:51`); a service that is starting or stopping is copied as if it
were stopped (`backup.py:259`); a stop during a crash-consistent backup cuts the guest
off, as the monitor is taken. Seen while modelling: a refused restore has already
replaced config and credentials (`cmd_backup.py:441`); what is mounted between the guards
of a restore and its `rmtree` (`cmd_backup.py:434-444`) is deleted through, a moment in
which the model mounts nothing; the size bound of a capture looks at the `-w`
path while a VM's packets go to the staging file (`pcap_session.py:115`).

**PcapFile** models `pcap_shift_timestamps`, which puts a guest's capture on the
host's clock, over captures of either byte order, whole or torn. It is kept for one
statement, `ShiftKeepsPackets` (`PcapFile.cfg`): a shifted capture has the packets
of the original. It does not hold: `_PCAP_MAGICS` (`pcap_file.py:24-30`) takes each
magic for the other byte order, so the length of the first record is read with its
bytes reversed, the record counts as torn, and the delivered file is a header alone
(`pcap_vm_tap.py:137`). The tests build their captures with the same pair.

## VmSeed

**State.** What setup leaves on disk: `parts` (keys, NVRAM), `fp` (fingerprint of the
user-data), `id` (instance-id), `marker` (outcome and heal count of an id); on tmpfs
`iso`. Running: `setup` (the step of the setup unit and the config it loaded),
`guest`, `disk` (the instance it was provisioned as, from which text, with what
result), `watch` (of the VM service), `diag` (a `diagnose` that has asked and not
yet written). `past` is history that only properties read. A user-data text has what
it mentions (`says`), which is all that the contracts of a custom seed can look for,
and what it brings about in the guest (`gives`). cloud-init is external: per-instance
modules run once for an id and a disk, `cc_ssh` deletes host keys that `write_files`
wrote unless `ssh_deletekeys` is false, and a guest may have no instance-id file to
answer with (`named`).

**Actions.** Setup, one action per write: `Prepare`, `RejectSeed`, `KeepSeed`,
`ResolveInstanceId`, `MarkUnverified`, `BuildIso`, `SealSeed`; its faults
`PrepareFails`, `BuildIsoFails`, `KillSetup`; `HostReboot`. The VM: `Launch`,
`LaunchFails`, `CloudInitEnds`, `WatchAnswered`, `WatchExpires`, `WatchBreaks` (the
watch ends on an error). `DiagnoseAsks` and `DiagnoseRecords` or `DiagnoseDrops`. The
operator: `SaveFiles`, `Start`, `Stop`, `Restart`, `Update`,
`Recreate` in its three steps, `EditApplies`.

**Run `VmSeed`** (six configurations that the contracts of a custom seed tell apart, one
of them accepted for what it only mentions; three instance-ids, four events):

- `MarkerIsTrue`: an outcome on record is one that a guest of that very id reported,
  and a failing guest is re-provisioned once, plus once for each time the count was
  lost (a setup that died between id and marker, a late `diagnose`). An answer without
  an id is accepted too (`vm_provision.py:354`; `test_vm_provision.py:200`: "The id is a
  cross-check, not a requirement"): it is then the right instance's unless a setup was
  cut short or its ISO tool failed (`torn`), so that the guest is not the one of the id
  on file. Both together do put an outcome on record for an instance that never ran;
- `SeedServes`: a finished setup has healed what was recorded as failed, has the
  seed of its configuration, and a guest provisioned from an accepted seed has the
  pinned host key, the CA, its mounts and a readable home, provided the seed wires up
  what it mentions (`Wired`; `ensure_vm.py:452-454` claims no more);
- `QuietLaunchKeepsInstance`: no sequence of restarts, recreates and reboots makes a
  healthy guest run its per-instance modules again;
- `OutcomeIsRecorded`: the outcome of a guest that stays up gets recorded, unless the
  watch reached its deadline or ended on an error, or a late `diagnose` wrote over it.

Three ids are the first, a healed one and one more; four events fit an edit, a
kill, a reboot and a command. A boot of a guest without an instance-id file counts as
an event. Of the ways to fail a contract the run has two; the proof below is for all
texts. Fairness: systemd runs a started setup to its end, then
the waiting job, and the watch polls; cloud-init is not assumed to end.

**Disagreement.** `RestartHeals` (`VmSeedRestart.cfg`): `ensure_vm.py:633` has
`workloadctl restart` heal a recorded failure. The command restarts the VM unit
(`substrate_vm.py:292`), and setup is a `RemainAfterExit=` oneshot
(`gen_common.py:259`) that such a restart does not run again, so only a
recreate, an applied edit or a reboot heals. `HealSurvives`: nor does a heal whose ISO
tool failed, because the fingerprint is unchanged and the old ISO is kept as current
until the host reboots (`ensure_vm.py:723`). `SeedServes` excuses it by name (`torn`);
what it does catch is a fingerprint written for a seed that was not
(`BuildIsoFailsSealed`). Seen while modelling: a key or NVRAM file cut short is never made again
(`vm_ssh_keys.py:78`); `update` leaves the marker of the old disk.

## RunFiles

**State.** `config` and `enabled` as saved; `run`, the unit files with the configuration
each is from; `env`, the `.secrets` files; `store`, the sealed value; `up`, the
running containers with the value each was given; `pet`, the value in the pet
container that the store keeps; `user` and `setup`, whether the passwd database has the
user and the setup unit is active; one command per operator.

**Actions.** `edit`: `EditorEnds`, `EditValidates`, `EditRestores`, `EditConfirms`, the
generator (`GeneratorReads`, `GeneratorWrites`) and `Apply`; `recreate`, `enable`
(`Mark`, `Preflight`, `Produced`), `disable` (`StopUnits`, `Unmark`,
`RemoveRunFiles`, `Purge`), `drift` (`DriftGenerates`, `DriftCompares`), `rotate` and
`create` (`Seal`, `RotateRestarts`), `DeleteSecret`; systemd's `ContainerRestarts`
and `HostReboot`. A start writes `.secrets` by `WriteEnv`; without the user it fails.
A pet that is there is started as it was created (`Keeps`); only `recreate` removes it,
or a unit that is no pet's any more. `Purge` may delete the user, which the next setup
makes again, and the generator that runs before it may claim another UID: the drop-in
of `user@<uid>` is then nobody's (`Stray`).

**Run `RunFiles`** (two operators at once, five configurations: a pet, a pod, a bridge, a
VM and one that is not valid; three commands or reboots from every booted host):

- `RunTreeIsSound`: no text that fails validation reaches a unit;
- `RemovalStrandsNothing`: `disable` leaves no unit that any configuration of the same
  substrate, containers and volumes could have produced before, and `--purge` no
  secret of them. Excused by name: the drop-in, when the user is gone by then
  (`run_files.py:209`);
- `DriftAllClear`: "No drift detected" is true both ways, but for the two kinds of
  file that drift does not look at;
- `SecretsAreCurrent`: a container starts with the value sealed at that moment or not
  at all, and none of a rotated workload runs on with an older one. Excused by name: a
  pet that was created before, which `rotate` restarts with its old environment; the
  `recreate` of a pet leaves none with an older value (`RecreateReaches`).

Three events let two commands overlap and a third act on the result. A single container
that is no pet is not among the five, which would double the states; the proofs have
any configurations.

**Disagreements.** `RetiredSecretIsRemoved` (`secrets_env.py:75-84`): the regenerated
unit has no `ExecStartPre` left that would remove the plaintext of a reference
that was dropped. `NoFalseAllClear` (`cmd_drift.py:114-115`): timers are not scanned,
and `drift NAME` misses a seccomp profile. `CreateNeverReplaces`: two `create`s both
find that there is no such credential, and the second replaces the first without
`--force`. `AppliedIsValidated`: the generator reads the file again after the operator
confirmed; a concurrent save is what gets applied, or nothing. `RotateReachesPets`
(`docs/secrets.md:445`): a pet does not pick up what `rotate` sealed. `DropInGoes`: after
a purge that kept the units or a failed one, a `disable` without the user leaves the
drop-in, as `docs/workload-run-files.md:92` says it does. Seen while modelling: a
container dropped from the configuration is on neither list of `disable` and
`--purge` and keeps its unit, secrets and process; the restored backup of an edit
overwrites what another edit saved; `rotate` reads who uses a credential from the
saved files, and restarts nobody for one that only a VM's seed or a broker uses
(`docs/workloads.md:862`).

## What is proved

**Identity.** `WorkloadIdentity_types` and `WorkloadIdentity_proofs`, for any sets of
workloads, processes and deployments, any UID range and any bounds.

- `TypeCorrect`: `Spec => []TypeOK`. `TypeOK` alone is not inductive, as a step
  indexes `passwd` by `wl[p]`, which must be a workload; `ProcessInv` (where a
  process of a given command may be, that it has a workload there, and that it
  holds SUBID_LOCK exactly between claim and pin) is proved along with it.
- `Invariant`: when the operator does not overlap commands on one workload
  (`Exclusive`), `Spec => []IInv`.
- `UidsStayUnique` and `SubidRangesStayDisjoint`: `UniqueUids` and
  `SubidRangesDisjoint` follow from it.

The argument. `UniqueUids` is not inductive because a process carries a UID
through several steps before it is anywhere on disk. `UidOK` says what it may
rely on meanwhile: between claim and pin the UID is held by nobody else, which
SUBID_LOCK guarantees, since `PinUid` is the only step by which a workload comes
to hold a UID it did not hold; at `emit` the UID is the one in its passwd line or
conf; in `workload-ensure-user` it is the one in the passwd line. Those two
could be invalidated only by a purge, a disable or a sweep of the same workload:
`ExclusionInv` rules out commands, and `StoppedInv` the setup unit, which a
disable has stopped before it removes anything. All other steps move a UID
between conf and passwd line of one workload, or drop it. The passwd files of
deployments that are not booted have to be unique too, as a rollback boots into
one of them. `SubidInv` ties each subordinate entry to the passwd line of its
user; that it goes before the line does (`RemoveSubid` before `DeleteUser`,
`SweepSubid` before `SweepUser`) is what keeps a reused UID from meeting an
old entry.

The assumptions are the ones named in `WorkloadIdentity`: a UID range above the
system UIDs that is not empty (`UidRangeAssumption`), names that differ
(`NamesAssumption`), and natural numbers as bounds (`BoundsAssumption`).

**Addresses.** `Workload_proofs`, for every UID of the range.

- `DerivedDistinct`: two derived IPv4 addresses are equal only for one UID and one
  purpose; with `UidsStayUnique`, no two workloads share an address.
- `DerivedReserved`: each lies in one of the reserved networks.
- `InspectorNeverAllowed`: an inspector's address cannot be named in an allow list,
  and its log group fits the 16 bits that nft has for it.

An address is a pair of 16-bit halves. The lemma `DerivedHalves` carries the argument:
the offset of a UID is at most 42948, which added to the low half of any base does
not carry into the high half, so that the high half tells the purpose and the low
half the UID.

**Arming.** `Workload_proofs` too, for any set of payload units: `AlwaysConfined` (nothing
runs that is not armed). `Confined` is inductive as it stands. The run `WorkloadUnits`
shows by `Implements` that the units are such a system, which is the part that
depends on the generated directives.

**System disk.** `VmDisk_proofs`, for any `rollback_keep`, any number of commands and of
faults: `GenerationsStayBounded` (`DisksInOrder`), `DiskIsKept` (`DiskOfBeforeIsKept`),
`RollbackReverses` (`RollbackIsReversible`), `GuestIsOnNewDisk` (`GuestRunsNewDisk`) and
the action property `FailureRestores` (`FailureIsUndone`). `DiskAssumption` is that
retention keeps at least one generation, as validation has it, and that at most one
operator's command is under way, which is the model's limit and not the code's.

The inductive invariant is `DiskInv`. `GenInv`: disks are numbered as they are
built and no two names are one disk, so that a new disk is none that a generation
holds. `CommandInv`: between its rotation and its end a command has the disk of
before in the newest generation, which prune does not take and to which the build
unit, which never rotates, adds nothing. `AloneInv` is what holds only as long as the
build unit has not run beside a command: one writer is at work on `system.qcow2`,
and wherever it may remove it, the disk of before is a generation. `GuestInv`: after
the restart of an update QEMU stays on `system.qcow2`. That the number of
generations is bounded is an argument about finite sets: rotation adds one name and
moves its process to a label that is counted, and prune leaves the one just rotated
and the newest `rollback_keep` others.

**Provisioning.** `VmSeed_proofs`, for any set of configurations, ids and events:
`MarkerStaysTrue` (`MarkerIsTrue`), `SeedKeepsServing` (`SeedServes`) and the action
property `QuietLaunchKeeps` (`QuietLaunchKeepsInstance`). The invariant is
`SeedAndMarkerInv`. Ids are minted in order, so that a fresh one is not the disk's
(`IdInv`) and no record names it yet (`MintInv`); whatever the guest says, or a `diagnose`
under way carries, was reported by the id it names (`ToldInv`), which is what lets a late
answer do no harm; and of one that names none, the guest runs the id on file unless a
setup was cut short, and a fresh id, which ends that, has no outcome until its seed is
there (`KnownInv`); the heals are counted
by the marker, by the setup that is about to write it, or as a loss (`HealInv`).
`SeedInv` says of which text the seed, the fingerprint and the disk are at each
step of a setup, unless one was cut short (`torn`), and `AcceptInv` what the seed that
setup accepted has in it. `QuietInv` carries what the last launch found to the
next one.

**Unit files and secrets.** `RunFiles_proofs`, for any set of configurations, container
names and operators and any number of events: `TreeIsSound` (`RunTreeIsSound`) and the
action properties `RemovalIsComplete` (`RemovalStrandsNothing`), `AllClearIsTrue`
(`DriftAllClear`) and `SecretsStayCurrent` (`SecretsAreCurrent`). The invariant `TreeInv`
has what two commands could spoil for each other: a generator that is about to write
has read a valid text, or skips; a live file is one that its configuration makes the
generator write, or the drop-in of an earlier UID; an all-clear belongs to a command that
is over. `RemovalIsComplete` needs no more than types. `SecretsStayCurrent` needs
`UserInv`: without the user nothing runs, so that a `rotate` that finds no UID to restart
for leaves nothing behind. They rest on lemmas about the operators: which files a
configuration emits, that the list `disable` works from has them all, and that a start
gives the sealed value, fails, or keeps a pet's.

**Captures and backups.** `Operations_captures` and `Operations_proofs`, for any VMs and
containers (at least one, none of them both, `VmAssumption`) and any set of budgets
of commands, captures, writes, faults and kills (`BudgetsAssumption`):
`CapturesLeaveNothing` (`CapturesCleanUp`), `DataStaysSafe` (`DataIsSafe`) and the action
properties `CapturesStayContained` (`CapturesAreContained`) and `BackupsGiveBack`
(`BackupGivesBack`). The first module has the invariant `OperationsInv` and the part
about units and captures, the second the part about backups and restores.

- `CleanInv` is the heart of the clean-up. That no chain is left when no capture is
  there is not inductive, since a capture leaves a chain alone in which it sees a
  rule of another. So: every rule's capture is still to come to that chain, and for
  every chain there is some capture that is still to come to it (`Clears`). The second
  listing of `host_down`, after its own deletes, is what makes this true for two
  captures that end at once.
- `StageInv`: a capture that knows its tap has delivered before it goes on to unwind.
- `BackupInv` and `CopyInv` follow a backup. As long as the workload was not started
  since the backup looked (`SameBoot`), it is not running between the two halves, and
  nothing but a running payload writes.
- `RestoreInv`: the guards about mounts hold when the tree is replaced.
- `UnitInv` ties payload, unit and monitor of a workload together; `StopPowersOff` and
  `ObjectRemoved` need it.

The proof changed the model in one place. `ArchiveIsConsistent` held in TLC only because
no budget had a stop and a start between the pause of a crash-consistent backup and
its look at the service. The invariant could not be shown across that step, and a
budget that allows it is now part of the run. There the code copies a guest that runs
again; `op.boots` is recorded at the pause since then, and such an archive is among
the named exceptions.

**Only model-checked.**

- All liveness (`CommandsFinish`, `StartsSettle`, `ClockIsKept`, `CommandsEnd`,
  `OutcomeIsRecorded`): fairness and `ENABLED` are beyond the prover.
- `WorkloadUnits`, with the refinement of `Confinement`: the transitive closure of the
  units' dependencies is written as a recursive operator, with which the SMT backend
  is lost. With a closure by a recursive function a proof is conceivable, with one
  case per step of each kind of unit; it has not been completed.
- `ContainerUpdate` and `EgressPolicy`: the containers a command has yet to tag or
  retag, and the entries a reader keeps of a file, come from `SelectSeq`. The provers
  know of it only what a lemma states, and such a lemma needs induction over the
  sequence, which is out of reach.
- `OwnData` and `OtherDeploymentsStateIsSpared` of `WorkloadIdentity`, which need more
  than `IInv` says: whose files are in a tree, across deployments.
- `PcapFile`, which is kept for a statement that does not hold.

## What is not modelled

- Read-only code: metrics and the exporter, listings, every probe of `diagnose` but
  the one that writes. The operation log is written and never read back.
- Text: SELinux and seccomp policy, quoting, the QEMU command line, the cloud-init
  documents beyond the keys that the contracts of a seed name. A unit is its
  dependency, order, restart and hook directives, not its hardening.
- Validation rules over one field at a time (formats, ranges, names): where they
  matter a configuration validates or does not.
- Time, which appears only as order: a wait that ends, a deadline that passes, a retry
  that is used up. systemd's start limits are left out, so a unit with `Restart=` is
  always tried again.
- File modes, linger and logind, which are steps that may fail; the podman build and
  the download of an image, likewise.
- Two operators at one VM disk or one container's images; `RunFiles`, `Operations` and
  `WorkloadIdentity` do have commands that overlap.
- The command line, the bundles and the recipes of the host images, which are argument
  parsing and data. moatery, systemd, podman, nft, QEMU and cloud-init are external,
  and are modelled as the code uses them.

Next would be proofs of `OtherDeploymentsStateIsSpared` and `OwnData`, and of
`RemovedLayerIsSaved` and `RunningIsReferenced` of `ContainerUpdate`.
