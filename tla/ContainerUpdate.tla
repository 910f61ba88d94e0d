--------------------------- MODULE ContainerUpdate ---------------------------
(***************************************************************************)
(* Images of container workloads: what update pulls, what it saves for a   *)
(* rollback, what a unit start runs, and what verification and rollback do *)
(* about an image that does not come up.                                   *)
(*                                                                         *)
(* A container has a reference in the store of its workload's user (img)   *)
(* and, once updated, a localhost/workload-rollback tag (saved).  podman   *)
(* may pull again at every unit start, as the pull policy says.  A cattle  *)
(* container exists while it runs; a pet's is created once, from the image *)
(* of that moment, and keeps its writable layer until update or recreate   *)
(* commits it to a snapshot and removes it.                                *)
(*                                                                         *)
(* One operator process runs commands one after the other; meanwhile       *)
(* images are published and built, containers crash, systemd relaunches    *)
(* them, and the host goes down.  A workload of one container has its name. *)
(***************************************************************************)
EXTENDS Integers, Sequences, FiniteSets, SequencesExt

CONSTANTS
    Containers,     \* containers of all workloads
    Tomls,          \* the configurations of the host to look at, see Toml
    Keep,           \* [workload].snapshot_keep
    MaxCommands,    \* bound: commands in a behaviour
    MaxFaults       \* bound: failing steps and killed processes

\* Container -> workload and its pull policy, containers with a build block,
\* workloads that are pets, and containers with a health block, which a workload
\* may have for some of its containers; images bounds how many are published or
\* built after the first ones.
Workloads == Containers
Toml == [of : [Containers -> Workloads],
         policy : [Containers -> {"missing", "newer", "always", "never"}],
         built : SUBSET Containers, pet : SUBSET Workloads, checked : SUBSET Containers,
         images : Nat]

ASSUME UpdateAssumption ==
    /\ Tomls \subseteq Toml
    /\ \A t \in Tomls : \A c, d \in Containers :      \* validation.py: pets are single-mode
          t.of[c] = t.of[d] /\ t.of[c] \in t.pet => c = d
    /\ Keep \in Nat \ {0}           \* cmd_validate rejects anything else
    /\ MaxCommands \in Nat /\ MaxFaults \in Nat

VARIABLES
    toml,                       \* one of Tomls, fixed
    remote, root, made, bad,    \* images in the registry and in root's store; how
                                \* many are new; the ones that do not come up
    img, saved,                 \* the user store: reference and rollback tag
    ctr, up, started,           \* image a container was created from; running
                                \* containers; workloads whose unit is wanted
    layer, snaps, layers,       \* pets: writable layer, snapshots, layers so far
    pc, cmd, force,             \* the command, where it is and
    queue, cur, todo,           \* the workloads left, the one at hand, its
    old, changed, updated,      \* containers left; old_ids, changed, updated
    commands, faults,
    before, cut, unsaved  \* history, see the properties

world == <<remote, root, made, bad>>
store == <<img, saved>>
units == <<ctr, up, started>>
pets  == <<layer, snaps, layers>>
local == <<cmd, force, queue, cur, todo, old, changed, updated>>
hist  == <<before, cut, unsaved>>
vars  == <<toml, world, store, units, pets, pc, local, commands, faults, hist>>

None == 0
NoWorkload == "none"
Images == 1 .. toml.images + 1
MaybeImage == Images \cup {None}
Labels == {"idle", "next", "inspect", "fetch", "tag", "transfer", "snapshot", "remove",
           "restart", "verify", "recheck", "retag", "rerestart", "exit", "failed"}

of == toml.of
policy == toml.policy
pet == toml.pet
checked == toml.checked

Members(w) == {c \in Containers : of[c] = w}
Specs(w) == SetToSeq(Members(w))            \* in the order of the TOML
HealthBlocks(w) == Members(w) \cap checked

TypeOK ==
    /\ toml \in Tomls
    /\ remote \in [Containers -> Images] /\ root \in [Containers -> MaybeImage]
    /\ made \in 0 .. toml.images /\ bad \subseteq Images
    /\ img \in [Containers -> Images] /\ saved \in [Containers -> MaybeImage]
    /\ ctr \in [Containers -> MaybeImage] /\ started \subseteq Workloads
    /\ up \subseteq {c \in Containers : ctr[c] # None}
    /\ layer \in [Containers -> Nat] /\ layers \in Nat
    /\ \A c \in Containers : snaps[c] \in Seq(Nat \ {0}) /\ Len(snaps[c]) <= Keep + faults
    /\ pc \in Labels /\ cmd \in {"none", "update", "rollback", "recreate"}
    /\ queue \subseteq Workloads /\ updated \subseteq Workloads
    /\ cur \in Workloads \cup {NoWorkload} /\ todo \in Seq(Containers)
    /\ old \in [Containers -> MaybeImage] /\ changed \in BOOLEAN /\ force \in BOOLEAN
    /\ commands \in Nat /\ faults \in Nat
    /\ before \in [Containers -> MaybeImage] /\ cut \subseteq Workloads
    /\ unsaved \subseteq Containers

\* Enabled workloads running the first image of each of their containers.
Init ==
    /\ toml \in Tomls
    /\ remote = [c \in Containers |-> 1] /\ root = [c \in Containers |-> None]
    /\ made = 0 /\ bad = {}
    /\ img = [c \in Containers |-> 1] /\ saved = [c \in Containers |-> None]
    /\ ctr = [c \in Containers |-> 1]
    /\ up = Containers /\ started = {of[c] : c \in Containers}
    /\ layer = [c \in Containers |-> IF of[c] \in pet THEN 1 ELSE 0]
    /\ snaps = [c \in Containers |-> <<>>] /\ layers = 1
    /\ pc = "idle" /\ cmd = "none" /\ force = FALSE
    /\ queue = {} /\ cur = NoWorkload /\ todo = <<>>
    /\ old = [c \in Containers |-> None] /\ changed = FALSE /\ updated = {}
    /\ commands = 0 /\ faults = 0
    /\ before = [c \in Containers |-> None] /\ cut = {} /\ unsaved = {}

-----------------------------------------------------------------------------
At(label) == pc = label
Goto(label) == pc' = label

Fault == faults < MaxFaults /\ faults' = faults + 1
NoFault == UNCHANGED faults

-----------------------------------------------------------------------------
(* Units *)

\* The images ExecStart or ExecStartPre may find itself with: --pull=newer asks
\* the registry and makes do with the local copy, --pull=always insists.  A pet
\* that exists is not created again.
Resolved(c) ==
    CASE of[c] \in pet /\ ctr[c] # None -> {ctr[c]}
      [] policy[c] = "newer"            -> {remote[c], img[c]}
      [] policy[c] = "always"           -> {remote[c], None}
      [] OTHER                          -> {img[c]}

\* The units of S are stopped and started, with the images run; those of ok come
\* up.  A container that does not exist is created, a pet with a fresh layer.
Launch(S, run, ok) ==
    LET created == {c \in S : run[c] # None /\ (of[c] \notin pet \/ ctr[c] = None)} IN
    /\ img' = [c \in Containers |-> IF c \in created THEN run[c] ELSE img[c]]
    /\ ctr' = [c \in Containers |->
                  IF c \notin S THEN ctr[c]
                  ELSE IF c \in ok \/ of[c] \in pet THEN run[c] ELSE None]
    /\ up' = (up \ S) \cup ok
    /\ layer' = [c \in Containers |->
                    IF c \in created /\ of[c] \in pet THEN layers + 1 ELSE layer[c]]
    /\ layers' = layers + IF \E c \in created : of[c] \in pet THEN 1 ELSE 0
    /\ started' = started \cup {of[c] : c \in S}
    /\ UNCHANGED <<saved, snaps>>

\* An image that is good comes up, one that is not may.
LaunchSome(S) ==
    \E run \in [S -> MaybeImage] :
        /\ \A c \in S : run[c] \in Resolved(c)
        /\ \E ok \in SUBSET {c \in S : run[c] # None} :
              /\ \A c \in S : run[c] # None /\ run[c] \notin bad => c \in ok
              /\ Launch(S, run, ok)

\* systemd gives up on all of S: 226/NAMESPACE, start-limit-hit.
LaunchNone(S) ==
    \E run \in [S -> MaybeImage] :
        /\ \A c \in S : run[c] \in Resolved(c)
        /\ Launch(S, run, {})

\* Containers of a unit that is stopped; pet containers stay, stopped.
Halt(S) ==
    /\ up' = up \ S
    /\ ctr' = [c \in Containers |-> IF c \in S /\ of[c] \notin pet THEN None ELSE ctr[c]]

\* Restart=on-failure, or the boot.
Relaunch(c) ==
    /\ of[c] \in started /\ c \notin up
    /\ LaunchSome({c})
    /\ UNCHANGED <<toml, world, pc, local, commands, faults, hist>>

\* A container whose image does not come up ends after its unit has started.
Crash(c) ==
    /\ c \in up /\ ctr[c] \in bad
    /\ Halt({c})
    /\ UNCHANGED <<toml, world, store, started, pets, pc, local, commands, faults, hist>>

\* workloadctl restart, and start, which leaves alone what is up.
OperatorStart(w) ==
    /\ At("idle") /\ commands < MaxCommands /\ commands' = commands + 1
    /\ \E S \in {Members(w), Members(w) \ up} : S # {} /\ LaunchSome(S)
    /\ UNCHANGED <<toml, world, pc, local, faults, hist>>

OperatorStop(w) ==
    /\ At("idle") /\ commands < MaxCommands /\ commands' = commands + 1
    /\ w \in started
    /\ Halt(Members(w)) /\ started' = started \ {w}
    /\ UNCHANGED <<toml, world, store, pets, pc, local, faults, hist>>

\* Somebody pushes an image to the registry.
Publish(c) ==
    /\ made < toml.images /\ policy[c] # "never"
    /\ made' = made + 1
    /\ remote' = [remote EXCEPT ![c] = made + 2]
    /\ bad' \in {bad, bad \cup {made + 2}}
    /\ UNCHANGED <<toml, root, store, units, pets, pc, local, commands, faults, hist>>

\* workloadctl build, or an image loaded into root's store by hand.
Build(c) ==
    /\ made < toml.images /\ (policy[c] = "never" \/ c \in toml.built)
    /\ made' = made + 1
    /\ root' = [root EXCEPT ![c] = made + 2]
    /\ bad' \in {bad, bad \cup {made + 2}}
    /\ UNCHANGED <<toml, remote, store, units, pets, pc, local, commands, faults, hist>>

-----------------------------------------------------------------------------
(* Commands *)

Begin(c, label) ==
    /\ At("idle") /\ commands < MaxCommands
    /\ commands' = commands + 1
    /\ cmd' = c /\ Goto(label)

\* update <workload> or update --all.
StartUpdate(ws, f) ==
    /\ Begin("update", "next")
    /\ queue' = ws /\ force' = f
    /\ before' = [c \in Containers |-> IF c \in up /\ of[c] \in ws THEN ctr[c] ELSE None]
    /\ UNCHANGED <<toml, world, store, units, pets, cur, todo, old, changed, updated, faults,
                   cut, unsaved>>

\* The next workload, unless all its images are local; after the last one the
\* updated ones are verified.
NextWorkload ==
    /\ At("next")
    /\ \/ \E w \in queue :
             /\ queue' = queue \ {w}
             /\ IF \A c \in Members(w) : policy[c] = "never"
                THEN UNCHANGED <<pc, cur, todo, old, changed>>
                ELSE /\ cur' = w /\ todo' = Specs(w) /\ changed' = FALSE
                     /\ old' = [c \in Containers |-> IF of[c] = w THEN None ELSE old[c]]
                     /\ Goto("inspect")
       \/ /\ queue = {} /\ UNCHANGED <<queue, cur, todo, old, changed>>
          /\ Goto(IF updated = {} THEN "exit" ELSE "verify")
    /\ UNCHANGED <<toml, world, store, units, pets, cmd, force, updated, commands, faults, hist>>

\* old_id of the next container; a store that has just been restarted may
\* report nothing, ten times over.  After the last: anything to do?
InspectImage ==
    /\ At("inspect")
    /\ \/ /\ todo # <<>> /\ Goto("fetch") /\ UNCHANGED todo
          /\ \/ old' = [old EXCEPT ![Head(todo)] = img[Head(todo)]] /\ NoFault /\ UNCHANGED cut
             \/ UNCHANGED old /\ cut' = cut \cup {cur} /\ Fault
       \/ /\ todo = <<>> /\ NoFault /\ UNCHANGED <<old, cut>>
          /\ IF changed \/ force
             THEN Goto("tag") /\ todo' = SelectSeq(Specs(cur), LAMBDA c : old[c] # None)
             ELSE Goto("next") /\ UNCHANGED todo
    /\ UNCHANGED <<toml, world, store, units, pets, cmd, force, queue, cur, changed, updated,
                   commands, before, unsaved>>

\* What transfer_one_image or podman pull leaves at the reference: root's copy of
\* an image built here comes first, and pull=never asks nobody else.
Fetched(c) ==
    CASE root[c] # None       -> root[c]
      [] policy[c] = "never"  -> img[c]
      [] OTHER                -> remote[c]

\* A transfer or pull that fails ends the update of this workload, with the
\* images of earlier containers replaced and nothing tagged.
FetchImage ==
    /\ At("fetch")
    /\ LET c == Head(todo)
           asked == root[c] # None \/ policy[c] # "never" IN
       \/ /\ img' = [img EXCEPT ![c] = Fetched(c)]
          /\ changed' = (changed \/ (asked /\ old[c] # Fetched(c)))
          /\ todo' = Tail(todo) /\ Goto("inspect") /\ NoFault /\ UNCHANGED cut
       \/ /\ Fault /\ Goto("next")
          /\ cut' = IF changed THEN cut \cup {cur} ELSE cut
          /\ UNCHANGED <<img, changed, todo>>
    /\ UNCHANGED <<toml, world, saved, units, pets, cmd, force, queue, cur, old, updated, commands,
                   before, unsaved>>

\* An exception no caller handles: the command ends where it is.
Abort ==
    /\ Goto("failed")
    /\ cut' = cut \cup updated \cup {cur}

\* What the rollback tag is put on: the image found before the pull.
TaggedLate(c) == img[c]         \* mutant: the reference, after the pull
RollbackImage(c) == old[c]

\* The old image of every container that had one becomes its rollback target.
TagOld ==
    /\ At("tag")
    /\ \/ /\ todo # <<>>
          /\ \/ /\ saved' = [saved EXCEPT ![Head(todo)] = RollbackImage(Head(todo))]
                /\ todo' = Tail(todo) /\ NoFault /\ UNCHANGED <<pc, cut>>
             \/ Fault /\ Abort /\ UNCHANGED <<saved, todo>>
       \/ /\ todo = <<>> /\ NoFault
          /\ Goto(IF cur \in pet THEN "snapshot" ELSE "restart")
          /\ UNCHANGED <<saved, todo, cut>>
    /\ UNCHANGED <<toml, world, img, units, pets, cmd, force, queue, cur, old, changed, updated,
                   commands, before, unsaved>>

NewestReversed(s) == SubSeq(s, 1, Keep)                     \* mutant: sorted the other way

\* The newest keep of a list of snapshots.
Newest(s) == IF Len(s) > Keep THEN SubSeq(s, Len(s) - Keep + 1, Len(s)) ELSE s

\* _pet_snapshot_and_remove: a commit or a prune that fails is reported and that
\* is all.
SnapshotPet ==
    /\ At("snapshot")
    /\ \E c \in Members(cur) :
          \/ /\ ctr[c] # None /\ unsaved' = unsaved \ {c}
             /\ \/ NoFault /\ snaps' = [snaps EXCEPT ![c] = Newest(Append(@, layer[c]))]
                \/ Fault /\ snaps' = [snaps EXCEPT ![c] = Append(@, layer[c])]
          \/ /\ IF ctr[c] # None THEN Fault ELSE NoFault
             /\ unsaved' = unsaved \cup {c} /\ UNCHANGED snaps
    /\ Goto("remove")
    /\ UNCHANGED <<toml, world, store, units, layer, layers, local, commands, before, cut>>

\* podman rm -f, whose exit status nobody looks at.
RemovePet ==
    /\ At("remove")
    /\ \E c \in Members(cur) :
          \/ /\ ctr' = [ctr EXCEPT ![c] = None] /\ up' = up \ {c}
             /\ layer' = [layer EXCEPT ![c] = 0] /\ NoFault
          \/ Fault /\ UNCHANGED <<ctr, up, layer>>
    /\ Goto("restart")
    /\ UNCHANGED <<toml, world, store, started, snaps, layers, local, commands, hist>>

\* Mutant: start instead of restart.
StartUnits == LaunchSome(Members(cur) \ up) /\ NoFault

\* restart_workload_service: systemctl fails when a member does not come up.
RestartUnits ==
    \/ LaunchSome(Members(cur)) /\ NoFault
    \/ LaunchNone(Members(cur)) /\ Fault

\* A failed restart is a failed update; only a successful one is verified.
RestartWorkload ==
    /\ At("restart")
    /\ RestartUnits
    /\ IF Members(cur) \subseteq up'
       THEN /\ updated' = IF cmd = "update" THEN updated \cup {cur} ELSE updated
            /\ Goto(IF cmd = "update" THEN "next" ELSE "exit") /\ UNCHANGED cut
       ELSE /\ cut' = cut \cup {cur}
            /\ Goto(IF cmd = "update" THEN "next" ELSE "failed") /\ UNCHANGED updated
    /\ UNCHANGED <<toml, world, cmd, force, queue, cur, todo, old, changed, commands, before, unsaved>>

\* What a health check that has run reports of the container.
Healthy(c) == c \in up /\ ctr[c] \notin bad

\* Mutant: only the unit is asked.
UnitVerdicts(w) == IF Members(w) \subseteq up THEN {"good"} ELSE {"bad"}

\* What the check after the wait may see.  With a health block anywhere in the
\* workload, the containers that have one are asked and the others are not:
\* podman reports "starting" until the first result.  Without one, is-active only
\* says that the units survived.
Verdicts(w) ==
    IF HealthBlocks(w) = {}
    THEN IF Members(w) \subseteq up THEN {"good"} ELSE {"bad"}
    ELSE (IF \A c \in HealthBlocks(w) : Healthy(c) THEN {"good"} ELSE {"bad"})
             \cup (IF HealthBlocks(w) \cap up # {} THEN {"starting"} ELSE {})

HaveOld(w) == \E c \in Members(w) : old[c] # None

\* Mutant: only the first container.
UndoFirst(w) ==
    /\ cur' = w /\ Goto("retag")
    /\ todo' = SelectSeq(<<Head(Specs(w))>>, LAMBDA c : saved[c] # None)

\* _do_rollback: every container that has a rollback tag.
Undo(w) ==
    /\ cur' = w /\ Goto("retag")
    /\ todo' = SelectSeq(Specs(w), LAMBDA c : saved[c] # None)

\* _verify_all, one workload; without an old image there is only a warning.
Verify ==
    /\ At("verify")
    /\ \/ updated = {} /\ Goto("exit") /\ UNCHANGED <<cur, todo, updated>>
       \/ \E w \in updated : \E v \in Verdicts(w) :
             \/ /\ v = "good" \/ ~HaveOld(w)
                /\ updated' = updated \ {w} /\ UNCHANGED <<pc, cur, todo>>
             \/ /\ v = "starting" /\ HaveOld(w)
                /\ cur' = w /\ Goto("recheck") /\ UNCHANGED <<todo, updated>>
             \/ /\ v = "bad" /\ HaveOld(w)
                /\ Undo(w) /\ UNCHANGED updated
    /\ UNCHANGED <<toml, world, store, units, pets, cmd, force, queue, old, changed, commands,
                   faults, hist>>

\* One more interval, and then anything but healthy is a failure.
Recheck ==
    /\ At("recheck")
    /\ \E v \in Verdicts(cur) :
          \/ v = "good" /\ updated' = updated \ {cur} /\ Goto("verify") /\ UNCHANGED <<cur, todo>>
          \/ v # "good" /\ Undo(cur) /\ UNCHANGED updated
    /\ UNCHANGED <<toml, world, store, units, pets, cmd, force, queue, old, changed, commands,
                   faults, hist>>

StartRollback(w) ==
    /\ Begin("rollback", "retag")
    /\ cur' = w
    /\ todo' = SelectSeq(Specs(w), LAMBDA c : saved[c] # None)
    /\ todo' # <<>>                 \* "No rollback image found"
    /\ UNCHANGED <<toml, world, store, units, pets, force, queue, old, changed, updated, faults,
                   hist>>

\* The rollback image becomes the image, one container after the other.
RetagImage ==
    /\ At("retag")
    /\ \/ /\ todo # <<>>
          /\ \/ /\ img' = [img EXCEPT ![Head(todo)] = saved[Head(todo)]]
                /\ todo' = Tail(todo) /\ NoFault /\ UNCHANGED <<pc, cut>>
             \/ Fault /\ Abort /\ UNCHANGED <<img, todo>>
       \/ todo = <<>> /\ Goto("rerestart") /\ NoFault /\ UNCHANGED <<img, todo, cut>>
    /\ UNCHANGED <<toml, world, saved, units, pets, cmd, force, queue, cur, old, changed, updated,
                   commands, before, unsaved>>

\* The restart of a rollback; CalledProcessError is not caught.
RestartRolledBack ==
    /\ At("rerestart")
    /\ RestartUnits
    /\ IF Members(cur) \subseteq up'
       THEN /\ Goto(IF cmd = "update" THEN "verify" ELSE "exit")
            /\ updated' = updated \ {cur} /\ UNCHANGED cut
       ELSE Abort /\ UNCHANGED updated
    /\ UNCHANGED <<toml, world, cmd, force, queue, cur, todo, old, changed, commands, before,
                   unsaved>>

\* recreate: the setup unit is restarted, and with it what requires it.
StartRecreate(w) ==
    /\ Begin("recreate", "transfer")
    /\ cur' = w /\ todo' = Specs(w)
    /\ LaunchSome(Members(w) \cap {c \in Containers : of[c] \in started})
    /\ UNCHANGED <<toml, world, force, queue, old, changed, updated, faults, hist>>

\* transfer_image; a failure ends the command before anything is recreated.
TransferImage ==
    /\ At("transfer")
    /\ \/ /\ todo # <<>>
          /\ \/ /\ img' = [img EXCEPT ![Head(todo)] = IF root[Head(todo)] = None THEN @
                                                      ELSE root[Head(todo)]]
                /\ todo' = Tail(todo) /\ NoFault /\ UNCHANGED <<pc, cut>>
             \/ Fault /\ Abort /\ UNCHANGED <<img, todo>>
       \/ /\ todo = <<>> /\ NoFault /\ UNCHANGED <<img, todo, cut>>
          /\ Goto(IF cur \in pet THEN "snapshot" ELSE "restart")
    /\ UNCHANGED <<toml, world, saved, units, pets, cmd, force, queue, cur, old, changed, updated,
                   commands, before, unsaved>>

Finish ==
    /\ Goto("idle") /\ cmd' = "none" /\ force' = FALSE
    /\ queue' = {} /\ cur' = NoWorkload /\ todo' = <<>>
    /\ old' = [c \in Containers |-> None] /\ changed' = FALSE /\ updated' = {}
    /\ before' = [c \in Containers |-> None] /\ UNCHANGED unsaved

Exit ==
    /\ pc \in {"exit", "failed"}
    /\ Finish
    /\ UNCHANGED <<toml, world, store, units, pets, commands, faults, cut>>

\* Ctrl-C, or a lost session.
Kill ==
    /\ ~At("idle") /\ Fault
    /\ Finish
    /\ cut' = cut \cup updated \cup ({cur} \ {NoWorkload})
    /\ UNCHANGED <<toml, world, store, units, pets, commands>>

\* The host goes down; systemd starts everything again.
Reboot ==
    /\ Fault
    /\ Finish
    /\ cut' = cut \cup updated \cup ({cur} \ {NoWorkload})
    /\ Halt(Containers)
    /\ UNCHANGED <<toml, world, store, started, pets, commands>>

-----------------------------------------------------------------------------
Step ==
    \/ NextWorkload \/ InspectImage \/ FetchImage \/ TagOld \/ SnapshotPet \/ RemovePet
    \/ RestartWorkload \/ Verify \/ Recheck \/ RetagImage \/ RestartRolledBack
    \/ TransferImage \/ Exit

Present == {of[c] : c \in Containers}

Next ==
    \/ Step \/ Kill \/ Reboot
    \/ \E f \in BOOLEAN : \E ws \in {{w} : w \in Present} \cup {Present} : StartUpdate(ws, f)
    \/ \E w \in Present :
          StartRollback(w) \/ StartRecreate(w) \/ OperatorStart(w) \/ OperatorStop(w)
    \/ \E c \in Containers : Relaunch(c) \/ Crash(c) \/ Publish(c) \/ Build(c)

Spec == Init /\ [][Next]_vars

-----------------------------------------------------------------------------
(* Properties.  cut are the workloads a command has left half way, or whose   *)
(* old image it could not read; before is what ran when the last update began. *)

Pinned(w) == w \notin pet \cup cut /\ \A c \in Members(w) : policy[c] \in {"missing", "never"}

\* Between commands every running container runs the image its reference names:
\* no pull, retag or transfer is left without the restart it calls for.
RunningIsReferenced ==
    At("idle") => \A c \in up : of[c] \notin pet \cup cut => ctr[c] = img[c]

\* What podman has is well typed, and between commands it is what the
\* references name.
ImagesInOrder == TypeOK /\ RunningIsReferenced

\* docs/workloads.md, of an update whose health check fails: "the previous image
\* is restored", that is, every container runs what it ran before the update,
\* in workloads of several containers too.
RollbackRestores ==
    [][At("rerestart") /\ cmd = "update" /\ pc' = "verify" /\ Pinned(cur)
          => \A c \in Members(cur) : before[c] # None => ctr'[c] = before[c]]_vars

\* A sequence of updates, good and bad, never loses the last image that a
\* container's health check saw to work: it is the reference or the rollback tag, and until a pull has
\* been followed by the tags it is the old_id that the command remembers.
GoodImageKept ==
    \A c \in Containers :
        Pinned(of[c]) /\ c \in checked /\ root[c] = None
            => LET kept == {img[c], saved[c]}
                           \cup (IF pc \in {"inspect", "fetch", "tag"} THEN {old[c]} ELSE {})
               IN  kept \ ({None} \cup bad) # {}

\* A pet's writable layer is removed only once it is a snapshot, or its commit
\* was reported to have failed, whatever was killed or restarted in between.
RemovedLayerIsSaved ==
    [][\A c \in Containers :
          layer[c] # 0 /\ layer'[c] = 0 => c \in unsaved \/ layer[c] \in ToSet(snaps[c])]_vars

\* docs/cli.md: update "automatically rolls back on failure": the containers of a
\* workload that ran good images when the update began are healthy when its
\* verification is over, with the new images or the old ones, as far as they have
\* a health block; of the others nothing is claimed, as nobody looks at them.
VerifiedIsHealthy ==
    [][\A w \in updated \ updated' :
          /\ Pinned(w) /\ pc' # "idle"
          /\ \A c \in Members(w) : before[c] \notin {None} \cup bad
          => \A c \in HealthBlocks(w) : Healthy(c)']_vars

\* docs/cli.md, of rollback: "Restores the image saved during the last update
\* and restarts the service": after a rollback that succeeds, the containers
\* with a rollback tag run the tagged image.
RollbackRunsSaved ==
    [][At("rerestart") /\ cmd = "rollback" /\ pc' = "exit"
          => \A c \in Members(cur) : saved[c] # None => ctr'[c] = saved[c]]_vars

\* docs/cli.md, of update: "Pulls the latest image, restarts, then monitors health
\* checks (or service liveness) and automatically rolls back on failure": when
\* an update ends by itself, no workload that ran good images when it began is
\* left with a reference to one that does not come up.
UpdateLeavesGoodImages ==
    At("exit") /\ cmd = "update"
        => \A c \in Containers :
              c \in checked /\ of[c] \notin pet /\ before[c] \notin {None} \cup bad => img[c] \notin bad
=============================================================================
