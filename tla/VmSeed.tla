-------------------------------- MODULE VmSeed --------------------------------
(***************************************************************************)
(* The cloud-init seed of a VM and what the host learns about the guest    *)
(* that is provisioned from it.                                            *)
(*                                                                         *)
(* The setup unit (workload-ensure-user, a RemainAfterExit= oneshot) makes *)
(* the SSH keys, renders the user-data, checks a custom seed against what  *)
(* the guest will need, and writes the seed ISO to a tmpfs.  Beside the    *)
(* disk it keeps three files: the fingerprint of the user-data, the        *)
(* instance-id the ISO names, and a marker with the outcome the guest of   *)
(* that instance-id reported.  cloud-init runs its modules once per        *)
(* instance-id and disk, so the id is rotated when the user-data changes   *)
(* or when a failure was recorded for it, and for nothing else.            *)
(*                                                                         *)
(* Beside the setup unit run the guest, the watch of the VM service, a     *)
(* diagnose that asks the guest and writes what it learnt later, and the   *)
(* operator.  Setup may be killed between any two of its writes, the host  *)
(* may go down at any time, and the ISO tool may fail.                     *)
(***************************************************************************)
EXTENDS Integers, FiniteSets

CONSTANTS
    Configs,        \* the configurations to look at, see Config
    MaxIds,         \* bound: instance-ids minted
    MaxEvents       \* bound: edits, commands, reboots and faults together

\* What the contracts look for in a user-data: the host key by either means,
\* ssh_deletekeys: false, the CA bundle, the mount of the volume and its SELinux
\* context=.
Marks == {"ssh_keys", "write_files", "keeps", "ca", "mounts", "context"}

\* A user-data text: what it mentions, which is all that the host can see, and
\* what cloud-init makes of it in the guest.
Text == [v : Nat, says : SUBSET Marks, gives : SUBSET Marks]

\* [vm] of a workload.  custom: [vm.cloud_init].user_data_file is set, to text;
\* resolves: every ${VAR} and ${SECRET:name} of it has a value; volume: none, one
\* below the guest's home or elsewhere, one over it under the workload's tree, or
\* one over it from a directory of the operator's; opts: it has mount options.
Config == [custom : BOOLEAN, text : Text, resolves : BOOLEAN, inspect : BOOLEAN,
           volume : {"none", "data", "home", "foreign"}, opts : BOOLEAN,
           provides : SUBSET {"ca", "mounts", "home_context"}]

ASSUME SeedAssumption ==
    /\ Configs \subseteq Config
    /\ MaxIds \in Nat /\ MaxEvents \in Nat

VARIABLES
    config,     \* the files of the workload as the operator saved them
    parts,      \* nvram.fd and the client and host key pairs: "none", "half" (cut
                \* short, or without its .pub), "whole"
    share,      \* the keys in authorized_keys of a share over the guest's home
    pinned,     \* known_hosts has the host key
    fp, id,     \* .cloud-init-fingerprint, .cloud-init-instance-id
    marker,     \* .cloud-init-provisioned
    iso,        \* the seed ISO, on tmpfs
    setup,      \* the setup unit: where it is and the config it loaded
    want,       \* a start job of the VM unit is waiting
    op,         \* what is left of the operator's command
    guest,      \* QEMU: up, first boot of its instance, what cloud-init status says,
                \* whether the probe finds an instance-id file to go with it
    disk,       \* the guest's disk: its instance-id, that one's text and outcome
    watch,      \* watch_provisioning: the id it watches
    diag,       \* a diagnose that asked the guest and has not yet written
    minted, events, past

files == <<parts, share, pinned, fp, id, marker>>
units == <<setup, want, op>>
vm    == <<guest, disk, watch>>
vars  == <<config, files, iso, units, vm, diag, minted, events, past>>

None == 0
NoText == [v |-> 0, says |-> {}, gives |-> {}]
NoMarker == [id |-> None, status |-> "unverified", heals |-> 0]
NoIso == [id |-> None, text |-> NoText, state |-> "none"]
NoDiag == [id |-> None, status |-> "none", named |-> TRUE]
Off == [up |-> FALSE, first |-> FALSE, says |-> "running", named |-> TRUE]
Blank == [inst |-> None, text |-> NoText, result |-> "none"]

Parts == {"nvram", "client", "host"}
Ids == 0 .. MaxIds
Expired == MaxIds + 1           \* the watch reached its deadline
Broken == MaxIds + 2            \* the watch ended on an error
Steps == {"parts", "render", "mark", "iso", "seal"}
SetupStates == Steps \cup {"inactive", "active", "failed"}

TypeOK ==
    /\ config \in Configs
    /\ parts \in [Parts -> {"none", "half", "whole"}]
    /\ share \subseteq {"ours", "operator"} /\ pinned \in BOOLEAN
    /\ fp \in Text /\ id \in Ids
    /\ marker \in [id : Ids, status : {"unverified", "done", "failed"}, heals : Nat]
    /\ iso \in [id : Ids, text : Text, state : {"none", "partial", "whole"}]
    /\ setup \in [at : SetupStates, config : Configs, heals : Nat, fresh : BOOLEAN]
    /\ want \in BOOLEAN /\ op \in {"idle", "resetup", "restart"}
    /\ guest \in [up : BOOLEAN, first : BOOLEAN, says : {"running", "done", "error", "disabled"},
                 named : BOOLEAN]
    /\ disk \in [inst : Ids, text : Text, result : {"none", "part", "done", "error"}]
    /\ watch \in Ids \cup {Expired, Broken}
    /\ diag \in [id : Ids, status : {"none", "done", "failed"}, named : BOOLEAN]
    /\ minted \in Ids /\ events \in 0 .. MaxEvents
    /\ past \in [reported : [Ids -> SUBSET {"done", "failed"}], heals : Nat, losses : Nat,
                torn : BOOLEAN, quiet : BOOLEAN, ill : Ids, asked : Ids, late : BOOLEAN,
                unnamed : BOOLEAN]

\* An enabled VM that has not been set up on this host yet.
Init ==
    /\ config \in Configs
    /\ parts = [p \in Parts |-> "none"]
    /\ share = {"operator"} /\ pinned = FALSE
    /\ fp = NoText /\ id = None /\ marker = NoMarker /\ iso = NoIso
    /\ setup = [at |-> "inactive", config |-> config, heals |-> 0, fresh |-> FALSE]
    /\ want = FALSE /\ op = "idle"
    /\ guest = Off /\ disk = Blank /\ watch = None /\ diag = NoDiag
    /\ minted = 0 /\ events = 0
    /\ past = [reported |-> [i \in Ids |-> {}], heals |-> 0, losses |-> 0,
               torn |-> FALSE, quiet |-> FALSE, ill |-> None, asked |-> None, late |-> FALSE,
               unnamed |-> FALSE]

Event == events < MaxEvents /\ events' = events + 1

-----------------------------------------------------------------------------
(* The user-data, and what a custom one must hold.                           *)

CoversHome(c) == c.volume \in {"home", "foreign"}

\* virtiofs_mount_opts: only a volume without options of its own.
MountContext(c) == CoversHome(c) /\ ~c.opts

\* Generated, so it does what it says.
DefaultUserData(c) ==
    LET has == {"ssh_keys"} \cup (IF c.inspect THEN {"ca"} ELSE {})
                   \cup (IF c.volume # "none" THEN {"mounts"} ELSE {})
                   \cup (IF MountContext(c) THEN {"context"} ELSE {})
    IN  [v |-> 1, says |-> has, gives |-> has]

UserData(c) == IF c.custom THEN c.text ELSE DefaultUserData(c)

\* The contracts are searches of the text.
HostKeyContract(t) ==
    /\ t.says \cap {"ssh_keys", "write_files"} # {}
    /\ "write_files" \in t.says /\ "ssh_keys" \notin t.says => "keeps" \in t.says

CaContract(c, t) == c.inspect /\ "ca" \notin c.provides => "ca" \in t.says

MountContract(c, t) ==
    c.volume # "none" /\ "mounts" \notin c.provides =>
        /\ "mounts" \in t.says
        /\ CoversHome(c) /\ "home_context" \notin c.provides => "context" \in t.says

SeedContract(c, t) ==
    c.custom => HostKeyContract(t) /\ CaContract(c, t) /\ MountContract(c, t)

-----------------------------------------------------------------------------
(* The marker.                                                               *)

MaxHealAttempts == 1

MarkerVouchesFor(m, i) == i # None /\ m.id = i /\ m.status = "done"
MarkerReportsFailure(m, i) == i # None /\ m.id = i /\ m.status = "failed"
HealAttempts(m, i) == IF m.id # i THEN 0 ELSE m.heals

ShouldHeal(m, i) ==
    MarkerReportsFailure(m, i) /\ HealAttempts(m, i) < MaxHealAttempts

ProvisionMarker(i, status, heals) == [id |-> i, status |-> status, heals |-> heals]

\* What `cloud-init status` says, as an outcome.
ParseGuestProbe(says) ==
    CASE says = "error" -> "failed"
      [] says \in {"done", "disabled"} -> "done"
      [] OTHER -> "none"

\* The ssh round trip; a disk that was never provisioned has no account to log
\* in to, and a guest that is down or has no answer yet says nothing.
GuestProvisionResult ==
    IF guest.up /\ disk.inst # None THEN ParseGuestProbe(guest.says) ELSE "none"

\* An answer counts for i unless it names another instance: the id is a
\* cross-check, and a guest without the file has none to give.
AnswersFor(i) == GuestProvisionResult # "none" /\ (guest.named => disk.inst = i)

\* Record an outcome for i, with the attempts the marker has for i by now.
RecordOutcome(i, status) ==
    marker' = ProvisionMarker(i, status, HealAttempts(marker, i))

-----------------------------------------------------------------------------
(* workload-ensure-user.                                                     *)

At(step) == setup' = [setup EXCEPT !.at = step]

\* The oneshot starts: it loads the configuration as it is now.
SetupStarted(c) == [at |-> "parts", config |-> c, heals |-> 0, fresh |-> FALSE]

\* A failed setup takes the waiting start job of the VM with it.
SetupFails == At("failed") /\ want' = FALSE

\* A file that is there is not made again: nvram.fd, or the private half of a key
\* pair.  One that was cut short stays so.
Generated(p) == IF parts[p] = "none" THEN "whole" ELSE parts[p]

SetupNvram == Generated("nvram")
GenerateSshKeypair == Generated("client")
GenerateVmHostKeypair == Generated("host")

\* A share over the guest's home hides the key that cloud-init installs; one
\* outside the workload's tree is left alone, with a warning.
SeedsHomeShare(c) == c.volume = "home" /\ GenerateSshKeypair = "whole"
SeedAuthorizedKeys == share \cup {"ours"}

Prepare ==
    /\ setup.at = "parts"
    /\ parts' = [nvram |-> SetupNvram, client |-> GenerateSshKeypair,
                 host |-> GenerateVmHostKeypair]
    /\ share' = IF SeedsHomeShare(setup.config) THEN SeedAuthorizedKeys ELSE share
    /\ At("render")
    /\ UNCHANGED <<config, pinned, fp, id, marker, iso, want, op, vm, diag, minted,
                   events, past>>

\* What a setup that ends in Prepare can leave: the parts are made in this order.
Order == [nvram |-> 1, client |-> 2, host |-> 3]

CutParts(last) ==
    {[p \in Parts |-> IF Order[p] < n THEN Generated(p)
                      ELSE IF Order[p] = n /\ parts[p] = "none" THEN last ELSE parts[p]] :
        n \in 1 .. 3}

\* No firmware image, ssh-keygen failed, the share is no plain directory, no CA.
PrepareFails ==
    /\ setup.at = "parts" /\ Event
    /\ parts' \in CutParts("none")
    /\ SetupFails
    /\ UNCHANGED <<config, share, pinned, fp, id, marker, iso, op, vm, diag, minted, past>>

\* substitute_template: a ${VAR} or ${SECRET:name} without a value is an error.
Resolves(c) == c.custom => c.resolves

SeedRejected(c) ==
    \/ "half" \in {parts["client"], parts["host"]}
    \/ ~Resolves(c)
    \/ ~SeedContract(c, UserData(c))

RejectSeed ==
    /\ setup.at = "render" /\ SeedRejected(setup.config)
    /\ SetupFails
    /\ UNCHANGED <<config, files, iso, op, vm, diag, minted, events, past>>

FpUnchanged == fp # NoText /\ fp = UserData(setup.config)
Healing == FpUnchanged /\ id # None /\ ShouldHeal(marker, id)

\* The seed on tmpfs is the one this configuration renders to.
UpToDate == iso.state # "none" /\ FpUnchanged /\ ~Healing

WriteKnownHosts == pinned' = TRUE

Noted == [past EXCEPT !.ill = IF Healing THEN id ELSE None]

KeepSeed ==
    /\ setup.at = "render" /\ ~SeedRejected(setup.config) /\ UpToDate
    /\ WriteKnownHosts
    /\ At("active")
    /\ past' = Noted
    /\ UNCHANGED <<config, parts, share, fp, id, marker, iso, want, op, vm, diag,
                   minted, events>>

\* Mutant of Mints: the ISO on tmpfs counts.
MintsWhenWiped == ~FpUnchanged \/ id = None \/ Healing \/ iso.state = "none"

\* _resolve_cloud_init_instance_id: a new id for new content or for a heal.
Mints == ~(FpUnchanged /\ id # None) \/ Healing

ResolveInstanceId ==
    /\ setup.at = "render" /\ ~SeedRejected(setup.config) /\ ~UpToDate
    /\ WriteKnownHosts
    /\ IF Mints
       THEN LET heals == IF Healing THEN HealAttempts(marker, id) + 1 ELSE 0
            IN  /\ minted < MaxIds /\ minted' = minted + 1 /\ id' = minted'
                /\ setup' = [setup EXCEPT !.at = "mark", !.heals = heals, !.fresh = TRUE]
                /\ past' = [Noted EXCEPT
                       !.heals = IF Healing THEN @ + 1 ELSE 0,
                       !.losses = IF Healing THEN @ ELSE 0]
       ELSE At("iso") /\ past' = Noted /\ UNCHANGED <<id, minted>>
    /\ UNCHANGED <<config, parts, share, fp, marker, iso, want, op, vm, diag, events>>

MarkUnverified ==
    /\ setup.at = "mark"
    /\ marker' = ProvisionMarker(id, "unverified", setup.heals)
    /\ At("iso")
    /\ UNCHANGED <<config, parts, share, pinned, fp, id, iso, want, op, vm, diag,
                   minted, events, past>>

BuildIso ==
    /\ setup.at = "iso"
    /\ iso' = [id |-> id, text |-> UserData(setup.config), state |-> "whole"]
    /\ At("seal")
    /\ UNCHANGED <<config, files, want, op, vm, diag, minted, events, past>>

\* Mutant of BuildIsoFails: the fingerprint is written all the same.
BuildIsoFailsSealed ==
    /\ setup.at = "iso" /\ Event
    /\ iso' \in {iso, [iso EXCEPT !.state = "partial"]}
    /\ At("seal")
    /\ past' = [past EXCEPT !.torn = TRUE, !.quiet = FALSE]
    /\ UNCHANGED <<config, files, want, op, vm, diag, minted>>

\* No tool, or it failed: a warning, and setup goes on to succeed.  What it left
\* is the old file, or one that is no file system.
BuildIsoFails ==
    /\ setup.at = "iso" /\ Event
    /\ iso' \in {iso, [iso EXCEPT !.state = "partial"]}
    /\ At("active")
    /\ past' = [past EXCEPT !.torn = TRUE, !.quiet = FALSE]
    /\ UNCHANGED <<config, files, want, op, vm, diag, minted>>

SealSeed ==
    /\ setup.at = "seal"
    /\ fp' = UserData(setup.config)
    /\ At("active")
    /\ past' = [past EXCEPT !.torn = @ /\ ~setup.fresh]
    /\ UNCHANGED <<config, parts, share, pinned, id, marker, iso, want, op, vm, diag,
                   minted, events>>

\* What a death between two writes leaves undone: an id without its marker
\* (which takes a count of heals with it), an id without its ISO, an ISO
\* without its fingerprint.
Torn ==
    [past EXCEPT !.torn = @ \/ setup.at \in {"mark", "iso", "seal"},
                 !.quiet = FALSE,
                 !.losses = IF setup.at = "mark" THEN @ + 1 ELSE @]

\* The setup unit is stopped or times out, or its process is killed.
KillSetup ==
    /\ setup.at \in Steps /\ Event
    /\ IF setup.at = "parts" THEN parts' \in CutParts("half") \cup CutParts("none")
                             ELSE UNCHANGED parts
    /\ iso' \in {iso} \cup (IF setup.at = "iso" THEN {[iso EXCEPT !.state = "partial"]} ELSE {})
    /\ SetupFails
    /\ past' = Torn
    /\ UNCHANGED <<config, share, pinned, fp, id, marker, op, vm, diag, minted>>

-----------------------------------------------------------------------------
(* The VM unit, the guest, and who asks it.                                  *)

VmOff == guest' = Off /\ watch' = None

\* A job that needs the setup unit starts it unless it is active already.
SetupPulledIn ==
    setup' = IF setup.at \in {"inactive", "failed"} THEN SetupStarted(config) ELSE setup

\* The disk as cloud-init leaves it at the start of a boot: its modules run for
\* an instance-id they have not seen.
Booted ==
    IF iso.state = "whole" /\ iso.id # disk.inst
    THEN [inst |-> iso.id, text |-> iso.text, result |-> "part"]
    ELSE disk

HasOutcome(m, i) == MarkerVouchesFor(m, i) \/ MarkerReportsFailure(m, i)

\* Mutant of WatchStarts: any record of the id is taken for an outcome.
WatchSkipsMarked == IF marker.id = id THEN None ELSE id

WatchStarts == IF HasOutcome(marker, id) THEN None ELSE id

\* QEMU does not start without the seed it is given, nor on a part of an nvram.fd.
Bootable == iso.state # "none" /\ parts["nvram"] = "whole"

Launch ==
    LET blind == iso.state = "partial" /\ disk.inst # None
    IN  /\ want /\ setup.at = "active" /\ ~guest.up
        /\ want' = FALSE
        /\ Bootable
        /\ disk' = Booted
        /\ \E named \in BOOLEAN :
             /\ guest' = [up |-> TRUE, first |-> disk' # disk, named |-> named,
                          says |-> IF blind THEN "disabled" ELSE "running"]
             /\ IF named THEN UNCHANGED events ELSE Event
        /\ watch' = WatchStarts
        /\ past' = [past EXCEPT
               !.asked = None, !.late = FALSE,
               !.reported[disk.inst] = IF blind THEN @ \cup {"done"} ELSE @,
               !.quiet = /\ "failed" \notin past.reported[iso.id]
                         /\ ~past.torn /\ config = setup.config]
        /\ UNCHANGED <<config, files, iso, setup, op, diag, minted>>

LaunchFails ==
    /\ want /\ setup.at = "active" /\ ~Bootable
    /\ want' = FALSE
    /\ UNCHANGED <<config, files, iso, setup, op, vm, diag, minted, events, past>>

\* cloud-init ends.  A first boot succeeds or fails; a later boot of the same
\* instance runs little, and says nothing of the modules it does not run again.
CloudInitEnds ==
    /\ guest.up /\ guest.says = "running" /\ disk.inst # None
    /\ \E r \in {"done"} \cup (IF disk.result = "done" THEN {} ELSE {"error"}) :
         /\ guest' = [guest EXCEPT !.says = r]
         /\ disk' = IF guest.first THEN [disk EXCEPT !.result = r] ELSE disk
         /\ past' = [past EXCEPT !.reported[disk.inst] = @ \cup {ParseGuestProbe(r)},
                                 !.quiet = @ /\ r = "done"]
    /\ UNCHANGED <<config, files, iso, units, watch, diag, minted, events>>

\* Mutant of WatchAnswered: whatever instance the guest names.
WatchAnsweredByAny ==
    /\ guest.up /\ watch \in Ids \ {None}
    /\ GuestProvisionResult # "none"
    /\ RecordOutcome(watch, GuestProvisionResult)
    /\ watch' = None
    /\ past' = [past EXCEPT !.unnamed = ~guest.named]
    /\ UNCHANGED <<config, parts, share, pinned, fp, id, iso, units, guest, disk, diag,
                   minted, events>>

\* A poll of watch_provisioning that gets an answer for the id it watches.
WatchAnswered ==
    /\ guest.up /\ watch \in Ids \ {None}
    /\ AnswersFor(watch)
    /\ RecordOutcome(watch, GuestProvisionResult)
    /\ watch' = None
    /\ past' = [past EXCEPT !.unnamed = ~guest.named]
    /\ UNCHANGED <<config, parts, share, pinned, fp, id, iso, units, guest, disk, diag,
                   minted, events>>

\* PROVISION_WATCH_TIMEOUT passed without one.
WatchExpires ==
    /\ guest.up /\ watch \in Ids \ {None}
    /\ ~AnswersFor(watch)
    /\ watch' = Expired
    /\ UNCHANGED <<config, files, iso, units, guest, disk, diag, minted, events, past>>

\* A read, a poll or the write of the marker raised: the watch prints it and is
\* over, and nothing is recorded.
WatchBreaks ==
    /\ Event /\ guest.up /\ watch \in Ids \ {None}
    /\ watch' = Broken
    /\ UNCHANGED <<config, files, iso, units, guest, disk, diag, minted, past>>

\* `diagnose` of a running VM without an outcome asks the guest itself ...
DiagnoseAsks ==
    /\ Event /\ diag = NoDiag
    /\ guest.up /\ id # None /\ ~HasOutcome(marker, id)
    /\ AnswersFor(id)
    /\ diag' = [id |-> id, status |-> GuestProvisionResult, named |-> guest.named]
    /\ UNCHANGED <<config, files, iso, units, vm, minted, past>>

\* ... and writes what it learnt for the id it read then ...
DiagnoseRecords ==
    /\ diag # NoDiag
    /\ RecordOutcome(diag.id, diag.status)
    /\ diag' = NoDiag
    /\ past' = [past EXCEPT !.losses = IF marker.id = diag.id THEN @ ELSE @ + 1,
                            !.late = marker.id # diag.id,
                            !.unnamed = ~diag.named]
    /\ UNCHANGED <<config, parts, share, pinned, fp, id, iso, units, vm, minted, events>>

\* ... or cannot write it, and reports what it has.
DiagnoseDrops ==
    /\ Event /\ diag # NoDiag
    /\ diag' = NoDiag
    /\ UNCHANGED <<config, files, iso, units, vm, minted, past>>

-----------------------------------------------------------------------------
(* The operator and the host.                                                *)

Edited(c) ==
    /\ config' = c
    /\ past' = [past EXCEPT !.quiet = @ /\ UserData(c) = UserData(config)]

SaveFiles ==
    \E c \in Configs \ {config} :
        /\ Event /\ Edited(c)
        /\ UNCHANGED <<files, iso, units, vm, diag, minted>>

Start ==
    /\ Event /\ op = "idle" /\ ~guest.up /\ ~want
    /\ SetupPulledIn /\ want' = TRUE
    /\ UNCHANGED <<config, files, iso, op, vm, diag, minted, past>>

Stop ==
    /\ Event /\ op = "idle"
    /\ VmOff /\ want' = FALSE
    /\ UNCHANGED <<config, files, iso, setup, op, disk, diag, minted, past>>

\* `restart` of a VM: a power cycle of the main unit alone.
Restart ==
    /\ Event /\ op = "idle" /\ guest.up
    /\ VmOff /\ want' = TRUE /\ SetupPulledIn
    /\ past' = [past EXCEPT !.asked = IF ShouldHeal(marker, id) /\ ~past.torn
                                      THEN id ELSE None]
    /\ UNCHANGED <<config, files, iso, op, disk, diag, minted>>

\* `update` of a cattle VM: a rebuilt disk under the main unit, then a restart.
Update ==
    /\ Event /\ op = "idle" /\ guest.up
    /\ disk' = Blank
    /\ VmOff /\ want' = TRUE /\ SetupPulledIn
    /\ UNCHANGED <<config, files, iso, op, diag, minted, past>>

\* `systemctl restart` of the setup unit, which takes the VM down and, if it was
\* up or on its way, brings it back once setup is done.
SetupRestarted(c) ==
    /\ setup' = SetupStarted(c)
    /\ VmOff /\ want' = (want \/ guest.up)

\* `recreate`: setup, then the substrate's own setup and main unit.
Recreate ==
    /\ Event /\ op = "idle" /\ setup.at \notin Steps
    /\ SetupRestarted(config) /\ op' = "resetup"
    /\ UNCHANGED <<config, files, iso, disk, diag, minted, past>>

RecreateAgain ==
    /\ op = "resetup" /\ setup.at \in {"active", "failed"}
    /\ SetupRestarted(config) /\ op' = "restart"
    /\ UNCHANGED <<config, files, iso, disk, diag, minted, events, past>>

RecreateEnds ==
    /\ op = "restart" /\ setup.at \in {"active", "failed"}
    /\ op' = "idle"
    /\ IF setup.at = "active" THEN VmOff /\ want' = TRUE ELSE UNCHANGED <<guest, watch, want>>
    /\ UNCHANGED <<config, files, iso, setup, disk, diag, minted, events, past>>

\* `edit` that applies what it saved: setup and then the main unit.
EditApplies ==
    \E c \in Configs \ {config} :
        /\ Event /\ op = "idle" /\ setup.at \notin Steps
        /\ Edited(c) /\ SetupRestarted(c) /\ op' = "restart"
        /\ UNCHANGED <<files, iso, disk, diag, minted>>

\* The host goes down and comes back: /run is gone and the enabled VM starts.
HostReboot ==
    /\ Event
    /\ IF setup.at = "parts" THEN parts' \in CutParts("half") \cup CutParts("none")
                             ELSE UNCHANGED parts
    /\ iso' = NoIso /\ setup' = SetupStarted(config) /\ want' = TRUE /\ op' = "idle"
    /\ VmOff /\ diag' = NoDiag
    /\ past' = IF setup.at \in Steps THEN Torn ELSE past
    /\ UNCHANGED <<config, share, pinned, fp, id, marker, disk, minted>>

-----------------------------------------------------------------------------
Setup == Prepare \/ RejectSeed \/ KeepSeed \/ ResolveInstanceId
         \/ MarkUnverified \/ BuildIso \/ SealSeed
Faults == PrepareFails \/ BuildIsoFails \/ KillSetup \/ HostReboot
Vm == Launch \/ LaunchFails \/ CloudInitEnds \/ WatchAnswered \/ WatchExpires
      \/ WatchBreaks
Diagnose == DiagnoseAsks \/ DiagnoseRecords \/ DiagnoseDrops
Operator == SaveFiles \/ Start \/ Stop \/ Restart \/ Update
            \/ Recreate \/ RecreateAgain \/ RecreateEnds \/ EditApplies

Next == Setup \/ Faults \/ Vm \/ Diagnose \/ Operator

Spec == Init /\ [][Next]_vars

\* systemd runs a started setup to its end and then the waiting job; the watch
\* polls a guest that is up every few seconds; cloud-init is not assumed to end.
FairSpec ==
    /\ Spec
    /\ WF_vars(Setup) /\ WF_vars(Launch \/ LaunchFails)
    /\ WF_vars(WatchAnswered) /\ WF_vars(RecreateAgain \/ RecreateEnds)

-----------------------------------------------------------------------------
(* An outcome in the marker is one that a guest of that very instance-id       *)
(* reported: a late write of diagnose, a rotation in between or a second       *)
(* writer never attributes an outcome to an instance that did not produce it   *)
(* (record_guest_provision_result).  Two things can: the answer came from a    *)
(* guest that names no instance (unnamed), and the seed of the id on file was  *)
(* never written (torn).  One alone does not.                                  *)
MarkerIsEvidence ==
    marker.status # "unverified"
        /\ (~past.unnamed \/ (marker.id = id /\ ~past.torn))
    => marker.status \in past.reported[marker.id]

(* A lineage (the ids minted for one user-data) is healed at most              *)
(* MAX_HEAL_ATTEMPTS times, and once more for each time the count was lost:    *)
(* a setup that died between the id and its marker, a diagnose that wrote over *)
(* the marker of a newer id.  A guest that always fails is not re-provisioned  *)
(* on every start.                                                             *)
HealsBounded == past.heals <= MaxHealAttempts + past.losses

(* The marker of the host is true of the guest and limits the heals.          *)
MarkerIsTrue == TypeOK /\ MarkerIsEvidence /\ HealsBounded

(* Without an edit of the user-data, a reported failure or a setup cut short,  *)
(* the next launch boots the instance the disk was provisioned as: a restart,  *)
(* a recreate or a host reboot that wiped the ISO does not make a healthy      *)
(* guest run its per-instance modules again.                                   *)
QuietLaunchKeepsInstance ==
    [][guest'.up /\ ~guest.up /\ past.quiet => disk.inst \in {None, disk'.inst}]_vars

(* When a setup that found a recorded failure under the cap is done, the seed  *)
(* names another instance, even where the ISO on tmpfs was current.            *)
HealApplies ==
    setup.at = "active" /\ past.ill # None /\ ~past.torn => iso.id # past.ill

(* After a setup that was not cut short, the seed is the user-data of the      *)
(* configuration that setup loaded, under the id on file; and a disk that      *)
(* has that id already was provisioned from that text.                         *)
SeedIsCurrent ==
    setup.at = "active" /\ ~past.torn =>
        /\ iso = [id |-> id, text |-> UserData(setup.config), state |-> "whole"]
        /\ disk.inst = id => disk.text = iso.text

\* cc_ssh deletes the key that write_files wrote unless it is told not to.
KeyPresented(t) ==
    "ssh_keys" \in t.gives \/ {"write_files", "keeps"} \subseteq t.gives

\* Every mention is wired up: "they establish the seed refers to the thing at
\* all, not that it wires it up correctly" (ensure_vm.py:452).
Wired(t) == t.says \subseteq t.gives

(* A guest that finished the provisioning of an accepted seed that is wired up *)
(* can be reached and works: it presents the host key the host has pinned,     *)
(* trusts the CA if it is inspected, mounts its volume with a label that lets  *)
(* sshd read a home on it, and has the host's key in a share over that home,   *)
(* unless the config says that the seed sees to it (seed_provides) or sets its *)
(* own options: the contracts let nothing be left out of a seed unseen, and    *)
(* they are those of the seed and the configuration this guest came from.      *)
AcceptedSeedWorks ==
    LET c == setup.config  t == disk.text
    IN  guest.up /\ disk.result = "done" /\ disk.inst = id /\ ~past.torn /\ Wired(t) =>
            /\ pinned /\ KeyPresented(t)
            /\ c.inspect => "ca" \in t.gives \cup c.provides
            /\ c.volume # "none" => "mounts" \in t.gives \cup c.provides
            /\ c.volume = "home" => "ours" \in share
            /\ CoversHome(c) => \/ "context" \in t.gives \/ (~c.custom /\ c.opts)
                                \/ c.provides \cap {"mounts", "home_context"} # {}

(* What a finished setup has left for the next launch, and what the guest      *)
(* makes of it (ensure_vm and vm_seed_validate).                               *)
SeedServes == HealApplies /\ SeedIsCurrent /\ AcceptedSeedWorks

(* A guest that stays up and has reported the outcome of the id on file gets   *)
(* it recorded: no record of an older id makes the watch of a new one skip it. *)
(* Unless the watch had already reached its deadline, or ended on an error     *)
(* ("every failure path just leaves no record"), or a late write of diagnose   *)
(* replaced the record.                                                        *)
OutcomeIsRecorded ==
    (guest.up /\ disk.inst = id /\ GuestProvisionResult # "none")
        ~> (HasOutcome(marker, id) \/ watch \in {Expired, Broken} \/ past.late \/ ~guest.up)

-----------------------------------------------------------------------------
(* What the sources say and the code does not keep; see README.md.           *)

(* "a heal has to be able to rebuild within a single boot (i.e. `workloadctl   *)
(* restart` heals ...)": the launch of a restart that was asked for while a    *)
(* failure under the cap is recorded boots a fresh instance.                   *)
RestartHeals ==
    [][guest'.up /\ ~guest.up /\ past.asked # None => disk'.inst # past.asked]_vars

(* The same of a heal whose ISO tool failed: the fingerprint is unchanged, so  *)
(* the next setup takes the old seed for current and the guest stays as it is. *)
HealSurvives == setup.at = "active" /\ past.ill # None => iso.id # past.ill
====
