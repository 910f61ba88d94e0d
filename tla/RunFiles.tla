------------------------------- MODULE RunFiles -------------------------------
(***************************************************************************)
(* The files a workload owns under /run: the units that the generator       *)
(* writes from its configuration, and the plaintext of its secrets that a   *)
(* start writes for podman.                                                 *)
(*                                                                          *)
(* The generator only ever writes, so what an edit drops stays until        *)
(* something removes it.  disable removes a superset of what the present    *)
(* configuration has, drift compares the live files with a fresh run of the *)
(* generator, a start resolves the secrets again, and rotate seals a new    *)
(* value and restarts whoever uses it.  Two operators run these commands at *)
(* the same time; there is no lock between them, and the questions of edit  *)
(* and rotate wait for a terminal while the other command goes on.          *)
(* A purge deletes the workload's user, whose uid one of the files is named *)
(* by; the container of a pet keeps the environment it was created with.    *)
(***************************************************************************)
EXTENDS Integers, FiniteSets, Functions

CONSTANTS
    Configs,        \* the configurations to look at, see Config
    Names,          \* names of containers and tags of volumes
    Actors,         \* who runs commands
    MaxEvents       \* bound: commands and reboots

Features == {"inspect", "resolve", "broker", "seccomp"}

\* refs: the containers whose environment names the credential ("main" is the one
\* of a single-container workload); pet: its lifecycle, which only a single container
\* honours; valid: the text passes validation.
Config == [kind : {"vm", "single", "pod", "bridge"}, members : SUBSET Names,
           tags : SUBSET Names, features : SUBSET Features,
           refs : SUBSET (Names \cup {"main"}), pet : BOOLEAN, valid : BOOLEAN]

ASSUME RunFilesAssumption ==
    /\ Configs \subseteq Config /\ "main" \notin Names
    /\ MaxEvents \in Nat

VARIABLES
    config,     \* the workload.toml
    enabled,    \* its .enabled marker
    run,        \* /run/systemd/system: file |-> the configuration it is from
    env,        \* /run/workload-env: container |-> the value in its .secrets
    store,      \* the value sealed in the credential store, 0 for none
    up,         \* running container |-> the value it was given, 0 for none
    user,       \* the passwd database has the workload's user
    setup,      \* its setup.service is active
    pet,        \* the value in the pet container of the user's store, None if there is none
    cmd,        \* the command each actor runs
    events,
    clear       \* the actors whose last drift said that nothing drifted

files == <<config, enabled, run, env, store>>
live  == <<up, user, setup, pet>>
vars  == <<files, live, cmd, events, clear>>

\* What a container was given: a value, 0 for no secret, Failed when its unit did
\* not start and systemd goes on trying.
Values == 0 .. MaxEvents + 1
Failed == -1
None == -2
Nothing == [x \in {} |-> 0]

\* A command under way: its step, the configuration it read (edit: the text to go
\* back to until the generator reads it again), flag (disable: --purge, drift: one
\* workload named, create: --force, recreate: it read that the workload is a pet, edit:
\* it read that it is a VM), skip (the generator wrote nothing), and the number that makes
\* the value it seals a new one.
Idle == [op |-> "none"]
Ops == {"edit", "recreate", "enable", "disable", "drift", "rotate", "create"}
Steps == {"editor", "validate", "restore", "confirm", "read", "write", "apply",
          "mark", "preflight", "produced", "stop", "unmark", "remove", "purge",
          "generate", "compare", "value", "restart"}
Command == [op : Ops, at : Steps, config : Configs, flag : BOOLEAN,
            skip : BOOLEAN, serial : Values]

-----------------------------------------------------------------------------
(* What a workload owns.                                                     *)

Own(roles) == {<<r, "">> : r \in roles}
Named(role, names) == {<<role, n>> : n \in names}

Containers(c) ==
    CASE c.kind = "vm" -> {} [] c.kind = "single" -> {"main"} [] OTHER -> c.members

\* workload_run_files, the entries with emitted = True: what the generator writes.
Emitted(c) ==
    Own({"sysusers", "setup", "main", "wants"} \cup (c.features \ {"seccomp"}))
    \cup IF c.kind = "vm"
         THEN Own({"build", "clock-timer", "clock"}) \cup Named("virtiofs", c.tags)
         ELSE Own({"dropin"} \cup (c.features \cap {"seccomp"}))
              \cup (CASE c.kind = "pod" -> Own({"pod"}) [] c.kind = "bridge" -> Own({"net"})
                      [] OTHER -> {})
              \cup (IF c.kind = "single" THEN {} ELSE Named("container", c.members))

\* The file of the user's manager, in a directory named by the uid.
DropIn == <<"dropin", "">>
Stray == <<"stray", "">>

\* Mutant of RunFilesOf: only what the generator writes now.
OnlyEmitted(c, known) == Emitted(c) \ (IF known THEN {} ELSE {DropIn})

\* All of its entries under /run/systemd/system, for a caller that gets the uid from
\* the passwd database: without the user the drop-in is left out.
RunFilesOf(c, known) ==
    (Emitted(c) \ (IF known THEN {} ELSE {DropIn}))
    \cup IF c.kind = "vm" THEN Own({"proxy", "inspect", "resolve", "broker"})
         ELSE Own({"pod", "net", "inspect", "resolve", "broker", "seccomp"})

\* Its env-file entries: the .secrets of the workload and of each container.
EnvFilesOf(c) ==
    {"main"} \cup IF c.kind \in {"pod", "bridge"} THEN c.members ELSE {}

\* What of a configuration shows in a file: the user's files look only at the
\* kind, the enablement link is compared by presence.
Content(f, c) == IF f[1] \in {"sysusers", "setup", "dropin", "wants"} THEN c.kind = "vm" ELSE c

\* Mutant of Generates: no validation.
GeneratesAny(c, on) == on

\* generate_workload: nothing for a disabled or invalid one, and it exits 0.
Generates(c, on) == on /\ c.valid

Written(r, c) ==
    [f \in DOMAIN r \cup Emitted(c) |-> IF f \in Emitted(c) THEN c ELSE r[f]]

\* The tree for another uid: the drop-in that is there is nobody's.
Astray(r) ==
    IF DropIn \notin DOMAIN r THEN r
    ELSE [f \in (DOMAIN r \ {DropIn}) \cup {Stray} |-> IF f = Stray THEN r[DropIn] ELSE r[f]]

-----------------------------------------------------------------------------
(* Starting containers.                                                      *)

UnitOf(x) == IF x = "main" THEN <<"main", "">> ELSE <<"container", x>>

HasUnit(x) ==
    /\ UnitOf(x) \in DOMAIN run
    /\ x = "main" => run[UnitOf(x)].kind = "single"

\* select_container on the configuration of the moment: the entry a start of x
\* looks at, {} when there is none.
Entry(x) ==
    IF x # "main" THEN {x} \cap (IF config.kind \in {"pod", "bridge"} THEN config.members ELSE {})
    ELSE CASE config.kind \in {"vm", "single"} -> {"main"}
           [] Cardinality(config.members) = 1 -> config.members
           [] OTHER -> {}

\* The unit has the ExecStartPre that writes the secrets, and the --env-file.
NeedsEnv(x) == x \in run[UnitOf(x)].refs

\* Mutant of WriteEnv: a start keeps a file that is there.
WriteEnvOnce(x) ==
    CASE ~NeedsEnv(x) -> "unused"
      [] NeedsEnv(x) /\ x \in DOMAIN env -> "keeps"
      [] NeedsEnv(x) /\ x \notin DOMAIN env /\ store = 0 -> "fails"
      [] OTHER -> "writes"

\* LoadCredentialEncrypted=, then workload-write-env: "fails" before or in it,
\* "removes" the file of a container that names no secret any more, or "writes".
WriteEnv(x) ==
    CASE ~NeedsEnv(x) -> "unused"
      [] NeedsEnv(x) /\ (store = 0 \/ Entry(x) = {}) -> "fails"
      [] NeedsEnv(x) /\ store # 0 /\ Entry(x) # {} /\ Entry(x) \cap config.refs = {} -> "removes"
      [] OTHER -> "writes"

EnvAfter(X) ==
    LET kept == (DOMAIN env \ {x \in X : WriteEnv(x) = "removes"})
                \cup {x \in X : WriteEnv(x) = "writes"}
    IN  [x \in kept |-> IF x \in X /\ WriteEnv(x) = "writes" THEN store ELSE env[x]]

\* The container is a pet that is there already: `podman create` fails, which the unit
\* ignores, and `podman start` starts the old one.
Keeps(x, p) == x = "main" /\ run[UnitOf(x)].pet /\ p # None

\* What a start gives the container.  podman refuses an --env-file that is not there,
\* so a removed one fails the start of a new container.
Given(x, p) ==
    CASE WriteEnv(x) = "fails" -> Failed
      [] WriteEnv(x) # "fails" /\ Keeps(x, p) -> p
      [] WriteEnv(x) = "unused" /\ ~Keeps(x, p) -> 0
      [] WriteEnv(x) = "writes" /\ ~Keeps(x, p) -> store
      [] WriteEnv(x) = "keeps" /\ ~Keeps(x, p) -> env[x]
      [] OTHER -> Failed

\* A pet is created once; one that is no pet any more is replaced.
PetAfter(X, p) ==
    IF "main" \notin X \/ Given("main", p) = Failed THEN p
    ELSE IF run[UnitOf("main")].pet THEN Given("main", p) ELSE None

\* The containers X start (again), those in Y are left as they are.  Their units require
\* the setup unit; u: the user is there after it.  Without the user no command of a
\* unit runs.
Started(X, Y, u, p) ==
    /\ env' = IF u THEN EnvAfter(X) ELSE env
    /\ up' = [x \in X \cup Y |-> IF x \notin X THEN up[x] ELSE IF u THEN Given(x, p) ELSE Failed]
    /\ pet' = IF u THEN PetAfter(X, p) ELSE p
    /\ user' = u
    /\ setup' = (setup \/ <<"setup", "">> \in DOMAIN run)

\* setup.service runs systemd-sysusers, when it is not active or restarted (again).
UserAfterSetup(again) == user \/ (<<"setup", "">> \in DOMAIN run /\ (again \/ ~setup))

MainLoaded == <<"main", "">> \in DOMAIN run

\* Running containers whose unit file is gone: nothing ties them to the workload's
\* unit any more.
Unmanaged == {x \in DOMAIN up : x # "main" /\ ~HasUnit(x)}

\* systemctl restart: the containers that the workload's unit requires, and every
\* running one whose unit is part of it, the ones an edit dropped included.
RestartMain(u, p) ==
    IF MainLoaded
    THEN Started({x \in Containers(run[<<"main", "">>]) : HasUnit(x)}
                 \cup {x \in DOMAIN up : HasUnit(x)}, Unmanaged, u, p)
    ELSE pet' = p /\ UNCHANGED <<env, up, user, setup>>

\* systemctl start: what is required and not up.
StartMain(u) ==
    IF MainLoaded
    THEN LET X == {x \in Containers(run[<<"main", "">>]) :
                      HasUnit(x) /\ (x \in DOMAIN up => up[x] = Failed)}
         IN  Started(X, DOMAIN up \ X, u, pet)
    ELSE user' = u /\ UNCHANGED <<env, up, setup, pet>>

\* Restart= of a container's unit, after it died or did not start.
ContainerRestarts(x) ==
    /\ events < MaxEvents
    /\ x \in DOMAIN up /\ HasUnit(x)
    /\ Started({x}, DOMAIN up \ {x}, UserAfterSetup(FALSE), pet)
    /\ events' = events + 1
    /\ UNCHANGED <<config, enabled, run, store, cmd, clear>>

-----------------------------------------------------------------------------
(* Commands.                                                                 *)

At(a, at) == cmd[a] # Idle /\ cmd[a].at = at
Goto(a, at) == cmd' = [cmd EXCEPT ![a].at = at]
End(a) == cmd' = [cmd EXCEPT ![a] = Idle]

Begin(a, op, at, flag) ==
    /\ cmd[a] = Idle
    /\ events < MaxEvents
    /\ events' = events + 1
    /\ cmd' = [cmd EXCEPT ![a] = [op |-> op, at |-> at, config |-> config, flag |-> flag,
                                  skip |-> FALSE, serial |-> events + 1]]
    /\ clear' = clear \ {a}
    /\ UNCHANGED <<files, live>>

Edit(a) == Begin(a, "edit", "editor", FALSE)
Recreate(a) == Begin(a, "recreate", "read", config.kind = "single" /\ config.pet)
Enable(a) == Begin(a, "enable", "mark", FALSE)
Disable(a) == \E purge \in BOOLEAN : Begin(a, "disable", "stop", purge)
Drift(a) == \E named \in BOOLEAN : Begin(a, "drift", "generate", named)
RotateSecret(a) == store # 0 /\ Begin(a, "rotate", "value", FALSE)
CreateSecret(a) == \E force \in BOOLEAN :
    /\ store # 0 => force
    /\ Begin(a, "create", "value", force)

\* The editor wrote the file and ended, well or not; the same text ends the command.
EditorEnds(a) ==
    /\ At(a, "editor")
    /\ \E c \in Configs :
          /\ config' = c
          /\ \/ Goto(a, "validate") /\ c # cmd[a].config
             \/ End(a)
    /\ UNCHANGED <<enabled, run, env, store, live, events, clear>>

\* The file is loaded again; a valid one is applied only when the marker is there.
EditValidates(a) ==
    /\ At(a, "validate")
    /\ CASE ~config.valid -> Goto(a, "restore")
         [] config.valid /\ enabled ->
              cmd' = [cmd EXCEPT ![a].at = "confirm", ![a].flag = (config.kind = "vm")]
         [] OTHER -> End(a)
    /\ UNCHANGED <<files, live, events, clear>>

EditRestores(a) ==
    /\ At(a, "restore")
    /\ config' \in {config, cmd[a].config}
    /\ End(a)
    /\ UNCHANGED <<enabled, run, env, store, live, events, clear>>

EditConfirms(a) ==
    /\ At(a, "confirm")
    /\ Goto(a, "read") \/ End(a)
    /\ UNCHANGED <<files, live, events, clear>>

\* regenerate_units: the generator reads the marker and the file, and then writes.
GeneratorReads(a) ==
    /\ At(a, "read")
    /\ cmd' = [cmd EXCEPT ![a].at = "write", ![a].config = config,
                          ![a].skip = ~Generates(config, enabled)]
    /\ UNCHANGED <<files, live, events, clear>>

\* The uid is the user's; without a user one is claimed, which may be another than
\* the time before.
GeneratorWrites(a) ==
    /\ At(a, "write")
    /\ \/ run' = IF cmd[a].skip THEN run ELSE Written(run, cmd[a].config)
       \/ ~user /\ ~cmd[a].skip /\ run' = Written(Astray(run), cmd[a].config)
    /\ Goto(a, IF cmd[a].op = "enable" THEN "produced" ELSE "apply")
    /\ UNCHANGED <<config, enabled, env, store, live, events, clear>>

\* The last step of recreate, and of edit for a VM, restarts the setup unit first.
\* recreate then removes the container of a pet.
Apply(a) ==
    /\ At(a, "apply")
    /\ LET recreate == cmd[a].op = "recreate"
           u == UserAfterSetup(recreate \/ cmd[a].flag)
       IN  RestartMain(u, IF recreate /\ cmd[a].flag /\ u THEN None ELSE pet)
    /\ End(a)
    /\ UNCHANGED <<config, enabled, run, store, events, clear>>

\* enable: the marker comes first, a failed check takes it back.
Mark(a) ==
    /\ At(a, "mark")
    /\ enabled' = TRUE
    /\ Goto(a, "preflight")
    /\ UNCHANGED <<config, run, env, store, live, events, clear>>

Preflight(a) ==
    /\ At(a, "preflight")
    /\ \/ Goto(a, "read") /\ UNCHANGED enabled
       \/ End(a) /\ enabled' = FALSE
    /\ UNCHANGED <<config, run, env, store, live, events, clear>>

\* generate_units takes the sysusers file for a sign that the generator did its
\* part, whoever wrote it.  provision_user makes the user from it; it or the transfer of
\* the image may fail.
Produced(a) ==
    /\ At(a, "produced")
    /\ IF <<"sysusers", "">> \in DOMAIN run
       THEN /\ \/ StartMain(TRUE)
               \/ user' \in {user, TRUE} /\ UNCHANGED <<env, up, setup, pet>>
            /\ UNCHANGED enabled
       ELSE enabled' = FALSE /\ UNCHANGED <<env, live>>
    /\ End(a)
    /\ UNCHANGED <<config, run, store, events, clear>>

\* disable: the units of the configuration it read are stopped, and what is part of
\* the workload's unit with them, the setup unit among them.
StopUnits(a) ==
    /\ At(a, "stop")
    /\ up' = Restrict(up, Unmanaged \ Containers(cmd[a].config))
    /\ setup' = FALSE
    /\ Goto(a, "unmark")
    /\ UNCHANGED <<files, user, pet, events, clear>>

Unmark(a) ==
    /\ At(a, "unmark")
    /\ enabled' = FALSE
    /\ Goto(a, "remove")
    /\ UNCHANGED <<config, run, env, store, live, events, clear>>

RemoveRunFiles(a) ==
    /\ At(a, "remove")
    /\ run' = Restrict(run, DOMAIN run \ RunFilesOf(cmd[a].config, user))
    /\ IF cmd[a].flag THEN Goto(a, "purge") ELSE End(a)
    /\ UNCHANGED <<config, enabled, env, store, live, events, clear>>

\* --purge kills what the user still runs, which systemd tries to start again where
\* there is a unit, removes the env files, and then the user and the data, the store
\* with the pet in it; userdel and rmtree may fail.
Purge(a) ==
    /\ At(a, "purge")
    /\ up' = IF user THEN [x \in {y \in DOMAIN up : HasUnit(y)} |-> Failed] ELSE up
    /\ env' = Restrict(env, DOMAIN env \ EnvFilesOf(cmd[a].config))
    /\ user' \in {user, FALSE}
    /\ pet' \in {pet, None}
    /\ End(a)
    /\ UNCHANGED <<config, enabled, run, store, setup, events, clear>>

\* drift: the generator into a scratch directory, then every scanned file of the
\* two trees against the other.  Without a user that run may claim a uid that the live
\* files do not have, and then drift is certain.
DriftGenerates(a) ==
    /\ At(a, "generate")
    /\ \/ cmd' = [cmd EXCEPT ![a].at = "compare", ![a].config = config,
                             ![a].skip = ~Generates(config, enabled)]
       \/ ~user /\ Generates(config, enabled) /\ End(a)
    /\ UNCHANGED <<files, live, events, clear>>

\* RUN_TREE_SCANS has no *.timer, and the name filter does not match the stem of
\* workload-<name>.seccomp.json.
Scanned(f, named) == f[1] # "clock-timer" /\ (named => f[1] # "seccomp")

Expected(a) == IF cmd[a].skip THEN {} ELSE Emitted(cmd[a].config)

Differs(a, f) ==
    \/ f \notin DOMAIN run
    \/ f \notin Expected(a)
    \/ Content(f, run[f]) # Content(f, cmd[a].config)

\* Mutant of Drifted: no sweep for files that nothing generates any more.
DriftedForward(a) == {f \in Expected(a) : Scanned(f, cmd[a].flag) /\ Differs(a, f)}

Drifted(a) ==
    {f \in DOMAIN run \cup Expected(a) : Scanned(f, cmd[a].flag) /\ Differs(a, f)}

DriftCompares(a) ==
    /\ At(a, "compare")
    /\ clear' = IF Drifted(a) = {} THEN clear \cup {a} ELSE clear
    /\ End(a)
    /\ UNCHANGED <<files, live, events>>

\* auto_detect_credentials: the configuration names the credential.
Uses(c) == c.refs # {}

\* create, import and rotate ask for the value and seal it; the answer may be
\* refused and the sealing may fail.  rotate then restarts the workload when the
\* file it read before the question named the credential.
Seal(a) ==
    /\ At(a, "value")
    /\ \/ /\ store' = cmd[a].serial
          /\ IF cmd[a].op = "rotate" /\ Uses(cmd[a].config) THEN Goto(a, "restart") ELSE End(a)
       \/ End(a) /\ UNCHANGED store
    /\ UNCHANGED <<config, enabled, run, env, live, events, clear>>

\* The file is read again; a container's restart needs the uid of its user.
RotateRestarts(a) ==
    /\ At(a, "restart")
    /\ IF config.kind = "vm" \/ user
       THEN RestartMain(UserAfterSetup(FALSE), pet)
       ELSE UNCHANGED <<env, live>>
    /\ End(a)
    /\ UNCHANGED <<config, enabled, run, store, events, clear>>

DeleteSecret ==
    /\ events < MaxEvents
    /\ store # 0
    /\ store' = 0
    /\ events' = events + 1
    /\ UNCHANGED <<config, enabled, run, env, live, cmd, clear>>

\* /run is a tmpfs: the generator fills it at boot and starts what it wrote.
BootedRun(c, on) == IF Generates(c, on) THEN [f \in Emitted(c) |-> c] ELSE Nothing
BootedEnv(c, on, value) ==
    [x \in {y \in Containers(c) \cap c.refs : Generates(c, on) /\ value # 0} |-> value]
BootedUp(c, on, value, p) ==
    [x \in {y \in Containers(c) : Generates(c, on)} |->
        IF x \in c.refs /\ value = 0 THEN Failed
        ELSE IF x = "main" /\ c.pet /\ p # None THEN p
        ELSE IF x \in c.refs THEN value ELSE 0]
BootedPet(c, on, value, p) ==
    LET up0 == BootedUp(c, on, value, p)
    IN  IF "main" \notin DOMAIN up0 \/ up0["main"] = Failed THEN p
        ELSE IF c.pet THEN up0["main"] ELSE None

HostReboot ==
    /\ events < MaxEvents
    /\ events' = events + 1
    /\ cmd' = [a \in Actors |-> Idle]
    /\ clear' = {}
    /\ run' = BootedRun(config, enabled)
    /\ env' = BootedEnv(config, enabled, store)
    /\ up' = BootedUp(config, enabled, store, pet)
    /\ pet' = BootedPet(config, enabled, store, pet)
    /\ setup' = Generates(config, enabled)
    /\ user' = (user \/ Generates(config, enabled))
    /\ UNCHANGED <<config, enabled, store>>

\* A host that has booted, with the workload enabled or not.
Init ==
    /\ config \in {c \in Configs : c.valid}
    /\ enabled \in BOOLEAN
    /\ store \in {0, MaxEvents + 1}
    /\ run = BootedRun(config, enabled)
    /\ env = BootedEnv(config, enabled, store)
    /\ up = BootedUp(config, enabled, store, None)
    /\ pet = BootedPet(config, enabled, store, None)
    /\ setup = enabled
    /\ user \in {TRUE, enabled}
    /\ cmd = [a \in Actors |-> Idle]
    /\ events = 0 /\ clear = {}

Next ==
    \/ \E a \in Actors :
          \/ Edit(a) \/ EditorEnds(a) \/ EditValidates(a) \/ EditRestores(a) \/ EditConfirms(a)
          \/ Recreate(a) \/ GeneratorReads(a) \/ GeneratorWrites(a) \/ Apply(a)
          \/ Enable(a) \/ Mark(a) \/ Preflight(a) \/ Produced(a)
          \/ Disable(a) \/ StopUnits(a) \/ Unmark(a) \/ RemoveRunFiles(a) \/ Purge(a)
          \/ Drift(a) \/ DriftGenerates(a) \/ DriftCompares(a)
          \/ CreateSecret(a) \/ RotateSecret(a) \/ Seal(a) \/ RotateRestarts(a)
    \/ \E x \in Names \cup {"main"} : ContainerRestarts(x)
    \/ DeleteSecret
    \/ HostReboot

Spec == Init /\ [][Next]_vars

-----------------------------------------------------------------------------
(* Properties.                                                               *)

Roles == {"sysusers", "setup", "main", "wants", "build", "clock-timer", "clock", "virtiofs",
          "dropin", "stray", "pod", "net", "container"} \cup Features

\* The state is well typed.
TypeOK ==
    /\ config \in Configs /\ enabled \in BOOLEAN
    /\ DOMAIN run \subseteq Roles \X (Names \cup {""})
    /\ \A f \in DOMAIN run : run[f] \in Configs
    /\ DOMAIN env \subseteq Names \cup {"main"} /\ \A x \in DOMAIN env : env[x] \in Values \ {0}
    /\ store \in Values
    /\ DOMAIN up \subseteq Names \cup {"main"} /\ \A x \in DOMAIN up : up[x] \in Values \cup {Failed}
    /\ user \in BOOLEAN /\ setup \in BOOLEAN /\ pet \in Values \cup {None}
    /\ cmd \in [Actors -> Command \cup {Idle}]
    /\ events \in 0 .. MaxEvents /\ clear \subseteq Actors

\* A text that does not pass validation never reaches a unit: neither an edit that
\* keeps it, nor the recreate, enable or boot that comes after, writes from it
\* (generate_workload returns before it emits).
UnitsAreValid == \A f \in DOMAIN run : run[f].valid

\* The live tree is well typed and of validated texts only.
RunTreeIsSound == TypeOK /\ UnitsAreValid

\* When disable has removed the unit files, none is left that any configuration of
\* this workload could have produced on the same substrate with no other container
\* or volume than the one that disable read: turning a trigger off, or pod into
\* bridge, since the units were generated strands nothing (the entries of
\* workload_run_files with emitted = False).  But for the drop-in of a user that is gone
\* by then, whose uid cannot be told any more (except WorkloadUserNotFound).
DisableStrandsNothing ==
    \A a \in Actors : RemoveRunFiles(a) =>
       \A c \in Configs :
          /\ (c.kind = "vm") <=> (cmd[a].config.kind = "vm")
          /\ c.kind \in {"pod", "bridge"} => c.members \subseteq Containers(cmd[a].config)
          /\ c.tags \subseteq cmd[a].config.tags
          => Emitted(c) \cap DOMAIN run' \subseteq (IF user THEN {} ELSE {DropIn})

\* A purge leaves no plaintext secret of a container that the configuration it
\* read has, nor the one the workload had as a single container
\* (_remove_runtime_env_files over workload_run_files).
PurgeStrandsNoSecret ==
    \A a \in Actors : Purge(a) =>
       DOMAIN env' \cap (Containers(cmd[a].config) \cup {"main"}) = {}

\* Removal strands nothing of the configuration it read.
RemovalStrandsNothing == [][DisableStrandsNothing /\ PurgeStrandsNoSecret]_vars

\* "No drift detected" means that the live files are what the generator makes of
\* the configuration it read, none missing, none changed and none left over, but
\* for the two kinds that drift does not look at (collect_drift compares both ways).
DriftAllClear ==
    [][\A a \in Actors : DriftCompares(a) /\ a \in clear' =>
          LET fresh == IF cmd[a].skip THEN {} ELSE Emitted(cmd[a].config)
              blind == {<<"clock-timer", "">>} \cup (IF cmd[a].flag THEN {<<"seccomp", "">>} ELSE {})
          IN  /\ DOMAIN run \ blind = fresh \ blind
              /\ \A f \in fresh \ blind : Content(f, run[f]) = Content(f, cmd[a].config)]_vars

\* A container never comes up with another value than the one sealed at that moment,
\* or without one that its unit demands: what a .secrets file held before does not
\* matter (workload-write-env writes it again in every ExecStartPre).  But for a pet
\* that was there before and stays, which comes up with what it was created with.
StartsWithTheSealed ==
    \A x \in DOMAIN up' :
       (x \notin DOMAIN up \/ up'[x] # up[x]) /\ up'[x] # Failed
       => \/ up'[x] = IF x \in run'[UnitOf(x)].refs THEN store ELSE 0
          \/ x = "main" /\ run'[UnitOf(x)].pet /\ pet' = pet /\ up'[x] = pet

\* When rotate has come to the restart of the workload, and not been told that there is
\* no such unit, no container of a unit that is there runs with an older value, whatever
\* was edited, deleted, sealed or purged while rotate asked for the value (the restart
\* comes after the sealing and bounces every part of the workload).  But for a pet that
\* was created before the sealing: the restart leaves it its environment.
RotateReaches ==
    \A a \in Actors : RotateRestarts(a) /\ MainLoaded =>
       \A x \in DOMAIN up' : HasUnit(x) =>
          up'[x] \in {0, Failed, store} \cup (IF Keeps(x, pet) THEN {pet} ELSE {})

\* A recreate is what reaches a pet: one that read that the workload is a pet leaves
\* nothing with an older value, whatever the text became since (reprovision removes the
\* container before the restart).
RecreateReaches ==
    \A a \in Actors : Apply(a) /\ cmd[a].op = "recreate" /\ cmd[a].flag /\ MainLoaded =>
       \A x \in DOMAIN up' : HasUnit(x) => up'[x] \in {0, Failed, store}

\* What a container runs with is what is sealed, when it starts and after a rotate, and
\* of a pet after a recreate.
SecretsAreCurrent == [][StartsWithTheSealed /\ RotateReaches /\ RecreateReaches]_vars

-----------------------------------------------------------------------------
(* What the sources say and the code does not keep; see README.md.           *)

\* remove_stale: a .secrets file does not survive the restart that retires the
\* reference.  The regenerated unit has no ExecStartPre to remove it.
RetiredSecretIsRemoved ==
    [][\A a \in Actors : Apply(a) /\ ~cmd[a].skip =>
          \A x \in DOMAIN up' : up'[x] = 0 => x \notin DOMAIN env']_vars

\* collect_drift: "No drift detected" is no false all-clear.
NoFalseAllClear ==
    [][\A a \in Actors : DriftCompares(a) /\ a \in clear' =>
          DOMAIN run = (IF cmd[a].skip THEN {} ELSE Emitted(cmd[a].config))]_vars

\* A credential that exists is replaced only with --force or by rotate.
CreateNeverReplaces ==
    [][\A a \in Actors : Seal(a) /\ store' # store /\ cmd[a].op = "create" /\ ~cmd[a].flag
          => store = 0]_vars

\* An edit that went through runs what the operator saved and saw validated.
AppliedIsValidated ==
    [][\A a \in Actors : Apply(a) /\ cmd[a].op = "edit" => ~cmd[a].skip]_vars

\* docs/secrets.md:445, of the restart after a rotate: "workload picks it up".  A pet
\* does not.
RotateReachesPets ==
    [][\A a \in Actors : RotateRestarts(a) /\ MainLoaded =>
          \A x \in DOMAIN up' : HasUnit(x) => up'[x] \in {0, Failed, store}]_vars

\* disable removes every file the workload's generator wrote: the drop-in of a user that
\* was deleted, or had another uid, stays until the next boot.
DropInGoes ==
    [][\A a \in Actors : RemoveRunFiles(a) /\ cmd[a].config.kind # "vm" =>
          {DropIn, Stray} \cap DOMAIN run' = {}]_vars
====
