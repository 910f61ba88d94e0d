--------------------------- MODULE RunFiles_proofs ---------------------------
(***************************************************************************)
(* What RunFiles says of the live unit files and of the secrets holds for   *)
(* every set of configurations, containers and operators, and for any       *)
(* number of commands that overlap.                                         *)
(***************************************************************************)
EXTENDS RunFiles, TLAPS

(* What RunTreeIsSound and DriftAllClear rest on: a command that is about to *)
(* write has read a valid text unless it skips, a live file is one that the  *)
(* configuration it is from makes the generator write or the drop-in of an   *)
(* earlier uid, and an all-clear is withdrawn when its operator begins       *)
(* another command.                                                          *)
TreeInv ==
    /\ UnitsAreValid
    /\ \A f \in DOMAIN run : f = Stray \/ f \in Emitted(run[f])
    /\ \A a \in Actors : At(a, "write") /\ ~cmd[a].skip => cmd[a].config.valid
    /\ \A a \in clear : cmd[a] = Idle

(* What the secrets rest on: without the user nothing runs.                  *)
UserInv == ~user => \A x \in DOMAIN up : up[x] = Failed

(* The part of TypeOK that a start of containers touches. *)
LiveOK ==
    /\ DOMAIN env \subseteq Names \cup {"main"} /\ \A x \in DOMAIN env : env[x] \in Values \ {0}
    /\ DOMAIN up \subseteq Names \cup {"main"} /\ \A x \in DOMAIN up : up[x] \in Values \cup {Failed}
    /\ user \in BOOLEAN /\ setup \in BOOLEAN /\ pet \in Values \cup {None}

-----------------------------------------------------------------------------
(* Facts about the operators.                                                *)

(* A command under way is one of Command. *)
LEMMA CommandUnderWay ==
    ASSUME TypeOK, NEW a \in Actors, cmd[a] # Idle
    PROVE  /\ cmd[a] \in Command
           /\ cmd[a].config \in Configs /\ cmd[a].flag \in BOOLEAN
           /\ cmd[a].skip \in BOOLEAN /\ cmd[a].serial \in Values
    BY Zenon DEF TypeOK, Command

(* Idle is no command under way, so that At names the step of one. *)
LEMMA IdleIsNoCommand == Idle \notin Command
    BY DEF Idle, Command, Ops

(* What the fields of a text are. *)
LEMMA ConfigFields ==
    ASSUME NEW c \in Configs
    PROVE  /\ c.kind \in {"vm", "single", "pod", "bridge"}
           /\ c.members \subseteq Names /\ c.tags \subseteq Names
           /\ c.features \subseteq Features /\ c.refs \subseteq Names \cup {"main"}
           /\ c.valid \in BOOLEAN /\ c.pet \in BOOLEAN
    BY RunFilesAssumption DEF Config

(* The generator writes files of the known roles, and only volumes and       *)
(* containers have a name.                                                   *)
LEMMA EmittedFiles ==
    ASSUME NEW c \in Configs, NEW f \in Emitted(c)
    PROVE  /\ f \in Roles \X (Names \cup {""})
           /\ f[1] \notin {"virtiofs", "container"} => f = <<f[1], "">>
    <1>1. ASSUME NEW r \in Roles \ {"virtiofs", "container"}, f = <<r, "">>
          PROVE  /\ f \in Roles \X (Names \cup {""})
                 /\ f[1] \notin {"virtiofs", "container"} => f = <<f[1], "">>
      BY <1>1, Zenon
    <1>2. ASSUME NEW r \in {"virtiofs", "container"}, NEW n \in Names, f = <<r, n>>
          PROVE  /\ f \in Roles \X (Names \cup {""})
                 /\ f[1] \notin {"virtiofs", "container"} => f = <<f[1], "">>
      BY <1>2, Zenon DEF Roles
    <1>3. \/ \E r \in Roles \ {"virtiofs", "container"} : f = <<r, "">>
          \/ \E r \in {"virtiofs", "container"} : \E n \in Names : f = <<r, n>>
      BY ConfigFields, Zenon DEF Emitted, Own, Named, Roles, Features
    <1> QED
      BY <1>1, <1>2, <1>3, Zenon

(* What the generator makes of a tree; the drop-in of another uid stays in it. *)
LEMMA WrittenTree ==
    ASSUME NEW r, NEW c \in Configs
    PROVE  /\ DOMAIN Written(r, c) = DOMAIN r \cup Emitted(c)
           /\ \A f \in DOMAIN Written(r, c) :
                 Written(r, c)[f] = IF f \in Emitted(c) THEN c ELSE r[f]
    BY DEF Written

(* The tree for another uid has the files that were there, one under another name. *)
LEMMA AstrayTree ==
    ASSUME NEW r
    PROVE  /\ DOMAIN Astray(r) \subseteq DOMAIN r \cup {Stray}
           /\ \A f \in DOMAIN Astray(r) :
                 \/ f \in DOMAIN r /\ Astray(r)[f] = r[f]
                 \/ f = Stray /\ DropIn \in DOMAIN r /\ Astray(r)[f] = r[DropIn]
    BY DEF Astray

(* The containers of a configuration are named ones or "main". *)
LEMMA ContainerNames ==
    ASSUME NEW c \in Configs
    PROVE  Containers(c) \subseteq Names \cup {"main"}
    BY ConfigFields DEF Containers

(* The unit of a container is among the files of its workload. *)
LEMMA UnitIsEmitted ==
    ASSUME NEW c \in Configs, NEW x \in Containers(c)
    PROVE  UnitOf(x) \in Emitted(c)
    <1>1. CASE c.kind = "single"
      BY <1>1 DEF Containers, UnitOf, Emitted, Own
    <1>2. CASE c.kind \in {"pod", "bridge"}
      <2>1. x \in c.members /\ x # "main"
        BY <1>2, ConfigFields, RunFilesAssumption DEF Containers
      <2> QED BY <1>2, <2>1 DEF UnitOf, Emitted, Named
    <1> QED BY <1>1, <1>2, ConfigFields DEF Containers

(* A start writes the value that is sealed or fails: nothing else reaches a  *)
(* .secrets file, or a container but for the pet that is kept.               *)
LEMMA GivenValue ==
    ASSUME NEW x, NEW p
    PROVE  /\ WriteEnv(x) \in {"unused", "fails", "removes", "writes"}
           /\ WriteEnv(x) = "unused" <=> ~NeedsEnv(x)
           /\ WriteEnv(x) = "writes" => store # 0
           /\ Given(x, p) = IF WriteEnv(x) = "fails" THEN Failed
                            ELSE IF Keeps(x, p) THEN p
                            ELSE IF WriteEnv(x) = "unused" THEN 0
                            ELSE IF WriteEnv(x) = "writes" THEN store ELSE Failed
    <1>1. /\ WriteEnv(x) \in {"unused", "fails", "removes", "writes"}
          /\ WriteEnv(x) = "unused" <=> ~NeedsEnv(x)
          /\ WriteEnv(x) = "writes" => store # 0
      BY DEF WriteEnv
    <1> QED BY <1>1 DEF Given

(* The value of a secret that was never set is one of the values. *)
LEMMA ZeroIsValue == 0 \in Values
    BY RunFilesAssumption DEF Values

(* What a start gives is a value or a failure. *)
LEMMA GivenType ==
    ASSUME TypeOK, NEW x, NEW p \in Values \cup {None}
    PROVE  Given(x, p) \in Values \cup {Failed}
    <1>1. store \in Values /\ 0 \in Values
      BY ZeroIsValue, Zenon DEF TypeOK
    <1>2. Keeps(x, p) => p \in Values
      BY DEF Keeps
    <1>3. Given(x, p) \in {Failed, p, 0, store} /\ (Given(x, p) = p => Keeps(x, p) \/ p \in {Failed, 0, store})
      BY GivenValue, Zenon
    <1> QED BY <1>1, <1>2, <1>3

(* A start leaves well typed files and containers. *)
LEMMA StartedTypes ==
    ASSUME TypeOK, NEW X \in SUBSET (Names \cup {"main"}), NEW Y \in SUBSET DOMAIN up,
           NEW u \in BOOLEAN, NEW p \in Values \cup {None}, Started(X, Y, u, p)
    PROVE  LiveOK'
    <1> DEFINE kept == (DOMAIN env \ {x \in X : WriteEnv(x) = "removes"})
                          \cup {x \in X : WriteEnv(x) = "writes"}
    <1>1. store \in Values /\ \A x \in X : WriteEnv(x) = "writes" => store # 0
      BY GivenValue, Zenon DEF TypeOK
    <1>2. /\ DOMAIN env' \subseteq Names \cup {"main"}
          /\ \A x \in DOMAIN env' : env'[x] \in Values \ {0}
      <2>1. CASE u
        <3>1. env' = [x \in kept |-> IF x \in X /\ WriteEnv(x) = "writes" THEN store ELSE env[x]]
          BY <2>1, Zenon DEF Started, EnvAfter
        <3> QED BY <3>1, <1>1, Zenon DEF TypeOK
      <2>2. CASE ~u
        <3>1. env' = env
          BY <2>2, Zenon DEF Started
        <3> QED BY <3>1, Zenon DEF TypeOK
      <2> QED BY <2>1, <2>2
    <1>3. /\ DOMAIN up' \subseteq Names \cup {"main"}
          /\ \A x \in DOMAIN up' : up'[x] \in Values \cup {Failed}
      <2>1. up' = [x \in X \cup Y |-> IF x \notin X THEN up[x]
                                      ELSE IF u THEN Given(x, p) ELSE Failed]
        BY Zenon DEF Started
      <2>2. \A x \in X : Given(x, p) \in Values \cup {Failed}
        BY GivenType, Zenon
      <2> QED BY <2>1, <2>2, Zenon DEF TypeOK
    <1>4. pet' \in Values \cup {None}
      <2>1. PetAfter(X, p) \in Values \cup {None}
        BY GivenType, Zenon DEF PetAfter
      <2> QED BY <2>1, Zenon DEF Started
    <1>5. user' \in BOOLEAN /\ setup' \in BOOLEAN
      BY Zenon DEF Started, TypeOK
    <1> QED
      BY <1>2, <1>3, <1>4, <1>5, Zenon DEF LiveOK

(* So does a restart or a start of the workload's unit. *)
LEMMA MainTypes ==
    ASSUME TypeOK, NEW u \in BOOLEAN, NEW p \in Values \cup {None},
           RestartMain(u, p) \/ StartMain(u)
    PROVE  LiveOK'
    <1>1. CASE ~MainLoaded
      BY <1>1, Zenon DEF TypeOK, LiveOK, RestartMain, StartMain
    <1>2. CASE MainLoaded /\ RestartMain(u, p)
      <2> DEFINE X == {x \in Containers(run[<<"main", "">>]) : HasUnit(x)}
                         \cup {x \in DOMAIN up : HasUnit(x)}
      <2>1. run[<<"main", "">>] \in Configs
        BY <1>2, Zenon DEF TypeOK, MainLoaded
      <2>2. X \in SUBSET (Names \cup {"main"}) /\ Unmanaged \in SUBSET DOMAIN up
        BY <2>1, ContainerNames, Zenon DEF TypeOK, Unmanaged
      <2>3. Started(X, Unmanaged, u, p)
        BY <1>2, Zenon DEF RestartMain
      <2> QED BY <2>2, <2>3, StartedTypes, Zenon
    <1>3. CASE MainLoaded /\ StartMain(u)
      <2> DEFINE X == {x \in Containers(run[<<"main", "">>]) :
                          HasUnit(x) /\ (x \in DOMAIN up => up[x] = Failed)}
      <2>1. run[<<"main", "">>] \in Configs /\ pet \in Values \cup {None}
        BY <1>3, Zenon DEF TypeOK, MainLoaded
      <2>2. X \in SUBSET (Names \cup {"main"}) /\ DOMAIN up \ X \in SUBSET DOMAIN up
        BY <2>1, ContainerNames, Zenon
      <2>3. Started(X, DOMAIN up \ X, u, pet)
        BY <1>3, Zenon DEF StartMain
      <2> QED BY <2>1, <2>2, <2>3, StartedTypes, Zenon
    <1> QED
      BY <1>1, <1>2, <1>3, Zenon

(* Whether the setup unit leaves the user there is a truth value. *)
LEMMA UserType ==
    ASSUME TypeOK, NEW again \in BOOLEAN
    PROVE  UserAfterSetup(again) \in BOOLEAN
    BY Zenon DEF UserAfterSetup, TypeOK

(* What the last step of each command that restarts does to what runs. *)
LEMMA RestartSteps ==
    ASSUME TypeOK, NEW a \in Actors
    PROVE  /\ Apply(a) => \E u \in BOOLEAN : \E p \in {pet, None} :
                 /\ RestartMain(u, p) /\ (user => u)
                 /\ cmd[a].op = "recreate" /\ cmd[a].flag /\ u => p = None
           /\ RotateRestarts(a) =>
                 \/ UNCHANGED <<env, live>> /\ ~user
                 \/ \E u \in BOOLEAN : RestartMain(u, pet) /\ (user => u)
           /\ Produced(a) =>
                 \/ UNCHANGED <<env, live>>
                 \/ user' \in {user, TRUE} /\ UNCHANGED <<env, up, setup, pet>>
                 \/ StartMain(TRUE)
    <1>1. ASSUME Apply(a)
          PROVE  \E u \in BOOLEAN : \E p \in {pet, None} :
                    /\ RestartMain(u, p) /\ (user => u)
                    /\ cmd[a].op = "recreate" /\ cmd[a].flag /\ u => p = None
      <2> DEFINE u == UserAfterSetup(cmd[a].op = "recreate" \/ cmd[a].flag)
                 p == IF cmd[a].op = "recreate" /\ cmd[a].flag /\ u THEN None ELSE pet
      <2>1. u \in BOOLEAN /\ (user => u)
        BY Zenon DEF UserAfterSetup, TypeOK
      <2>2. RestartMain(u, p)
        BY <1>1, Zenon DEF Apply
      <2>3. p \in {pet, None} /\ (cmd[a].op = "recreate" /\ cmd[a].flag /\ u => p = None)
        BY Zenon
      <2> HIDE DEF u, p
      <2> QED BY <2>1, <2>2, <2>3, Zenon
    <1>2. ASSUME RotateRestarts(a)
          PROVE  \/ UNCHANGED <<env, live>> /\ ~user
                 \/ \E u \in BOOLEAN : RestartMain(u, pet) /\ (user => u)
      <2>1. UserAfterSetup(FALSE) \in BOOLEAN /\ (user => UserAfterSetup(FALSE))
        BY Zenon DEF UserAfterSetup, TypeOK
      <2> QED BY <1>2, <2>1, Zenon DEF RotateRestarts
    <1>3. ASSUME Produced(a)
          PROVE  \/ UNCHANGED <<env, live>>
                 \/ user' \in {user, TRUE} /\ UNCHANGED <<env, up, setup, pet>>
                 \/ StartMain(TRUE)
      BY <1>3, Zenon DEF Produced
    <1> QED BY <1>1, <1>2, <1>3, Zenon

(* A boot writes the files of a valid configuration or none. *)
LEMMA BootedTree ==
    ASSUME NEW c \in Configs, NEW on \in BOOLEAN, NEW tree, tree = BootedRun(c, on)
    PROVE  /\ DOMAIN tree \subseteq Roles \X (Names \cup {""})
           /\ \A f \in DOMAIN tree :
                 tree[f] \in Configs /\ tree[f].valid /\ f \in Emitted(tree[f])
    <1>1. CASE Generates(c, on)
      BY <1>1, EmittedFiles, Zenon DEF BootedRun, Generates
    <1>2. CASE ~Generates(c, on)
      BY <1>2 DEF BootedRun, Nothing
    <1> QED BY <1>1, <1>2, Zenon

(* It leaves well typed files and containers. *)
LEMMA BootedEnvTypes ==
    ASSUME NEW c \in Configs, NEW on \in BOOLEAN, NEW value \in Values
    PROVE  /\ DOMAIN BootedEnv(c, on, value) \subseteq Names \cup {"main"}
           /\ \A x \in DOMAIN BootedEnv(c, on, value) :
                 BootedEnv(c, on, value)[x] \in Values \ {0}
    BY ContainerNames DEF BootedEnv

(* What the boot has started is well typed. *)
LEMMA BootedUpTypes ==
    ASSUME NEW c \in Configs, NEW on \in BOOLEAN, NEW value \in Values,
           NEW p \in Values \cup {None}
    PROVE  /\ DOMAIN BootedUp(c, on, value, p) \subseteq Names \cup {"main"}
           /\ \A x \in DOMAIN BootedUp(c, on, value, p) :
                 BootedUp(c, on, value, p)[x] \in Values \cup {Failed}
           /\ BootedPet(c, on, value, p) \in Values \cup {None}
    <1>1. /\ DOMAIN BootedUp(c, on, value, p) \subseteq Names \cup {"main"}
          /\ \A x \in DOMAIN BootedUp(c, on, value, p) :
                BootedUp(c, on, value, p)[x] \in Values \cup {Failed}
      BY ZeroIsValue, ContainerNames DEF BootedUp
    <1> QED BY <1>1, Zenon DEF BootedPet

-----------------------------------------------------------------------------
(* Types.                                                                    *)

(* Beginning, moving on and ending a command keep cmd well typed. *)
LEMMA CommandTypes ==
    ASSUME TypeOK, NEW a \in Actors
    PROVE  /\ \A op \in Ops, at \in Steps, flag \in BOOLEAN : Begin(a, op, at, flag) =>
                 /\ cmd' \in [Actors -> Command \cup {Idle}]
                 /\ events' \in 0 .. MaxEvents /\ clear' \subseteq Actors
           /\ \A at \in Steps : cmd[a] # Idle /\ Goto(a, at) =>
                 cmd' \in [Actors -> Command \cup {Idle}]
           /\ End(a) => cmd' \in [Actors -> Command \cup {Idle}]
    <1>1. cmd \in [Actors -> Command \cup {Idle}] /\ config \in Configs
      BY Zenon DEF TypeOK
    <1>2. events < MaxEvents => events + 1 \in 0 .. MaxEvents /\ events + 1 \in Values
      <2>1. events \in 0 .. MaxEvents /\ MaxEvents \in Nat
        BY RunFilesAssumption, Zenon DEF TypeOK
      <2> QED BY <2>1 DEF Values
    <1>3. ASSUME NEW op \in Ops, NEW at \in Steps, NEW flag \in BOOLEAN,
                 Begin(a, op, at, flag)
          PROVE  /\ cmd' \in [Actors -> Command \cup {Idle}]
                 /\ events' \in 0 .. MaxEvents /\ clear' \subseteq Actors
      <2>1. [op |-> op, at |-> at, config |-> config, flag |-> flag,
             skip |-> FALSE, serial |-> events + 1] \in Command
        BY <1>1, <1>2, <1>3 DEF Begin, Command
      <2>2. cmd' \in [Actors -> Command \cup {Idle}]
        BY <1>1, <1>3, <2>1 DEF Begin
      <2> QED BY <1>2, <1>3, <2>2, Zenon DEF Begin, TypeOK
    <1>4. ASSUME NEW at \in Steps, cmd[a] # Idle, Goto(a, at)
          PROVE  cmd' \in [Actors -> Command \cup {Idle}]
      <2>1. cmd[a] \in Command
        BY <1>1, <1>4
      <2>2. [cmd[a] EXCEPT !.at = at] \in Command
        BY <1>4, <2>1 DEF Command
      <2>3. cmd' = [cmd EXCEPT ![a] = [cmd[a] EXCEPT !.at = at]]
        BY <1>1, <1>4 DEF Goto
      <2> QED BY <1>1, <2>2, <2>3
    <1>5. End(a) => cmd' \in [Actors -> Command \cup {Idle}]
      BY <1>1 DEF End
    <1> QED
      BY <1>3, <1>4, <1>5

(* Every action assigns values of the right type. *)
LEMMA TypeNext == TypeOK /\ [Next]_vars => TypeOK'
<1> SUFFICES ASSUME TypeOK, [Next]_vars PROVE TypeOK'
    OBVIOUS
<1>config. config \in Configs /\ enabled \in BOOLEAN
    BY Zenon DEF TypeOK
<1>cmd. cmd \in [Actors -> Command \cup {Idle}]
    BY Zenon DEF TypeOK
<1>store. store \in Values
    BY Zenon DEF TypeOK
<1>begin. ASSUME NEW a \in Actors, NEW op \in Ops, NEW at \in Steps, NEW flag \in BOOLEAN,
                 Begin(a, op, at, flag)
          PROVE  TypeOK'
    <2>1. UNCHANGED <<config, enabled, run, env, store, up, user, setup, pet>>
      BY <1>begin DEF Begin, files, live
    <2>2. /\ cmd' \in [Actors -> Command \cup {Idle}]
          /\ events' \in 0 .. MaxEvents /\ clear' \subseteq Actors
      BY <1>begin, CommandTypes
    <2> QED BY <2>1, <2>2, Zenon DEF TypeOK
<1>1. ASSUME NEW a \in Actors,
             \/ Edit(a) \/ Recreate(a) \/ Enable(a) \/ Disable(a) \/ Drift(a)
             \/ RotateSecret(a) \/ CreateSecret(a)
      PROVE  TypeOK'
    <2>1. CASE Edit(a) \/ Recreate(a) \/ Enable(a)
      <3>1. (config.kind = "single" /\ config.pet) \in BOOLEAN
        BY Zenon
      <3> QED BY <1>begin, <2>1, <3>1, Zenon DEF Edit, Recreate, Enable, Ops, Steps
    <2>2. CASE Disable(a) \/ Drift(a)
      BY <1>begin, <2>2 DEF Disable, Drift, Ops, Steps
    <2>3. CASE RotateSecret(a) \/ CreateSecret(a)
      BY <1>begin, <2>3, Zenon DEF RotateSecret, CreateSecret, Ops, Steps
    <2> QED BY <1>1, <2>1, <2>2, <2>3
<1>moves. ASSUME NEW a \in Actors, cmd[a] # Idle, \/ \E at \in Steps : Goto(a, at)
                                                  \/ End(a)
          PROVE  cmd' \in [Actors -> Command \cup {Idle}]
    BY <1>moves, CommandTypes
<1>2. ASSUME NEW a \in Actors, EditorEnds(a) PROVE TypeOK'
    <2>1. cmd' \in [Actors -> Command \cup {Idle}]
      BY <1>2, <1>moves DEF EditorEnds, At, Steps
    <2> QED BY <1>2, <2>1, Zenon DEF EditorEnds, TypeOK, live
<1>3. ASSUME NEW a \in Actors, EditValidates(a) \/ EditConfirms(a) PROVE TypeOK'
    <2>1. cmd' \in [Actors -> Command \cup {Idle}]
      <3>1. CASE EditValidates(a)
        <4>1. \/ Goto(a, "restore") \/ End(a)
              \/ cmd' = [cmd EXCEPT ![a].at = "confirm", ![a].flag = (config.kind = "vm")]
          BY <3>1, <1>config, ConfigFields DEF EditValidates
        <4>2. CASE Goto(a, "restore") \/ End(a)
          BY <3>1, <4>2, <1>moves DEF EditValidates, At, Steps
        <4>3. CASE cmd' = [cmd EXCEPT ![a].at = "confirm", ![a].flag = (config.kind = "vm")]
          <5>1. cmd[a] \in Command
            BY <3>1, CommandUnderWay DEF EditValidates, At
          <5>2. [cmd[a] EXCEPT !.at = "confirm", !.flag = (config.kind = "vm")] \in Command
            <6>1. (config.kind = "vm") \in BOOLEAN /\ "confirm" \in Steps
              BY Zenon DEF Steps
            <6> QED BY <5>1, <6>1, Zenon DEF Command
          <5> QED BY <1>cmd, <4>3, <5>2
        <4> QED BY <4>1, <4>2, <4>3
      <3>2. CASE EditConfirms(a)
        BY <3>2, <1>moves DEF EditConfirms, At, Steps
      <3> QED BY <1>3, <3>1, <3>2
    <2> QED BY <1>3, <2>1, Zenon DEF EditValidates, EditConfirms, TypeOK, files, live
<1>4. ASSUME NEW a \in Actors, EditRestores(a) PROVE TypeOK'
    <2>1. cmd' \in [Actors -> Command \cup {Idle}] /\ cmd[a].config \in Configs
      BY <1>4, <1>moves, CommandUnderWay DEF EditRestores, At
    <2> QED BY <1>4, <2>1, Zenon DEF EditRestores, TypeOK, live
<1>5. ASSUME NEW a \in Actors, GeneratorReads(a) \/ DriftGenerates(a) PROVE TypeOK'
    <2>1. cmd[a] \in Command /\ cmd[a] # Idle
      BY <1>5, CommandUnderWay DEF GeneratorReads, DriftGenerates, At
    <2>2. \/ End(a)
          \/ \E at \in Steps : cmd' = [cmd EXCEPT ![a].at = at, ![a].config = config,
                                                  ![a].skip = ~Generates(config, enabled)]
      BY <1>5, Zenon DEF GeneratorReads, DriftGenerates, Steps
    <2>3. ASSUME NEW at \in Steps
          PROVE  [cmd[a] EXCEPT !.at = at, !.config = config, !.skip = ~Generates(config, enabled)]
                    \in Command
      BY <2>1, <1>config, Zenon DEF Command
    <2>4. cmd' \in [Actors -> Command \cup {Idle}]
      <3>1. CASE End(a)
        BY <3>1, <2>1, <1>moves
      <3>2. ASSUME NEW at \in Steps,
                   cmd' = [cmd EXCEPT ![a].at = at, ![a].config = config,
                                      ![a].skip = ~Generates(config, enabled)]
            PROVE  cmd' \in [Actors -> Command \cup {Idle}]
        <4> DEFINE new == [cmd[a] EXCEPT !.at = at, !.config = config,
                                         !.skip = ~Generates(config, enabled)]
        <4>1. new \in Command /\ cmd' = [cmd EXCEPT ![a] = new]
          BY <2>3, <3>2, Zenon
        <4> HIDE DEF new
        <4> QED BY <1>cmd, <4>1
      <3> QED BY <2>2, <3>1, <3>2, Zenon
    <2> QED BY <1>5, <2>4, Zenon DEF GeneratorReads, DriftGenerates, TypeOK, files, live
<1>6. ASSUME NEW a \in Actors, GeneratorWrites(a) PROVE TypeOK'
    <2>1. cmd' \in [Actors -> Command \cup {Idle}] /\ cmd[a].config \in Configs
      BY <1>6, <1>moves, CommandUnderWay DEF GeneratorWrites, At, Steps
    <2>2. /\ DOMAIN run' \subseteq Roles \X (Names \cup {""})
          /\ \A f \in DOMAIN run' : run'[f] \in Configs
      <3>1. CASE run' = run
        BY <3>1, Zenon DEF TypeOK
      <3>2. ASSUME NEW r, NEW c \in Configs, run' = Written(r, c),
                   DOMAIN r \subseteq Roles \X (Names \cup {""}),
                   \A f \in DOMAIN r : r[f] \in Configs
            PROVE  /\ DOMAIN run' \subseteq Roles \X (Names \cup {""})
                   /\ \A f \in DOMAIN run' : run'[f] \in Configs
        <4>1. \A f \in Emitted(c) : f \in Roles \X (Names \cup {""})
          BY EmittedFiles, Zenon
        <4>2. /\ DOMAIN run' = DOMAIN r \cup Emitted(c)
              /\ \A f \in DOMAIN run' : run'[f] = IF f \in Emitted(c) THEN c ELSE r[f]
          <5>1. /\ DOMAIN Written(r, c) = DOMAIN r \cup Emitted(c)
                /\ \A f \in DOMAIN Written(r, c) :
                      Written(r, c)[f] = IF f \in Emitted(c) THEN c ELSE r[f]
            BY WrittenTree
          <5> QED BY <3>2, <5>1, Zenon
        <4> QED BY <3>2, <4>1, <4>2, Zenon
      <3>3. /\ DOMAIN run \subseteq Roles \X (Names \cup {""})
            /\ \A f \in DOMAIN run : run[f] \in Configs
        BY Zenon DEF TypeOK
      <3>4. /\ DOMAIN Astray(run) \subseteq Roles \X (Names \cup {""})
            /\ \A f \in DOMAIN Astray(run) : Astray(run)[f] \in Configs
        <4>1. Stray \in Roles \X (Names \cup {""})
          BY Zenon DEF Stray, Roles
        <4> QED BY <3>3, <4>1, AstrayTree, Zenon
      <3>5. \/ run' = run \/ run' = Written(run, cmd[a].config)
            \/ run' = Written(Astray(run), cmd[a].config)
        BY <1>6, Zenon DEF GeneratorWrites
      <3> QED BY <2>1, <3>1, <3>2, <3>3, <3>4, <3>5, Zenon
    <2> QED BY <1>6, <2>1, <2>2, Zenon DEF GeneratorWrites, TypeOK, live
<1>7. ASSUME NEW a \in Actors, Apply(a) \/ RotateRestarts(a) \/ Produced(a) PROVE TypeOK'
    <2>1. cmd' \in [Actors -> Command \cup {Idle}]
      BY <1>7, <1>moves, Zenon DEF Apply, RotateRestarts, Produced, At
    <2>2. LiveOK'
      <3>1. CASE UNCHANGED <<env, live>>
        BY <3>1, Zenon DEF TypeOK, LiveOK, live
      <3>2. CASE user' \in {user, TRUE} /\ UNCHANGED <<env, up, setup, pet>>
        BY <3>2, Zenon DEF TypeOK, LiveOK
      <3>3. CASE \E u \in BOOLEAN : \E p \in {pet, None} : RestartMain(u, p)
        <4>1. pet \in Values \cup {None}
          BY Zenon DEF TypeOK
        <4> QED BY <3>3, <4>1, MainTypes, Zenon
      <3>4. CASE StartMain(TRUE)
        <4>1. pet \in Values \cup {None}
          BY Zenon DEF TypeOK
        <4> QED BY <3>4, <4>1, MainTypes, Zenon
      <3>5. CASE Apply(a) \/ RotateRestarts(a)
        BY <3>5, <3>1, <3>3, RestartSteps, Zenon
      <3>6. CASE Produced(a)
        BY <3>6, <3>1, <3>2, <3>4, RestartSteps, Zenon
      <3> QED BY <1>7, <3>5, <3>6
    <2>3. enabled' \in BOOLEAN /\ UNCHANGED <<config, run, store, events, clear>>
      BY <1>7, <1>config, Zenon DEF Apply, RotateRestarts, Produced
    <2> QED BY <2>1, <2>2, <2>3, Zenon DEF TypeOK, LiveOK
<1>8. ASSUME NEW a \in Actors, Mark(a) \/ Preflight(a) \/ Unmark(a) PROVE TypeOK'
    <2>1. cmd' \in [Actors -> Command \cup {Idle}]
      BY <1>8, <1>moves DEF Mark, Preflight, Unmark, At, Steps
    <2>2. enabled' \in BOOLEAN
      BY <1>8, <1>config, Zenon DEF Mark, Preflight, Unmark
    <2> QED BY <1>8, <2>1, <2>2, Zenon DEF Mark, Preflight, Unmark, TypeOK, live
<1>9. ASSUME NEW a \in Actors, StopUnits(a) PROVE TypeOK'
    <2>1. cmd' \in [Actors -> Command \cup {Idle}]
      BY <1>9, <1>moves DEF StopUnits, At, Steps
    <2>2. DOMAIN up' \subseteq DOMAIN up /\ \A x \in DOMAIN up' : up'[x] = up[x]
      BY <1>9 DEF StopUnits, Restrict, Unmanaged
    <2> QED BY <1>9, <2>1, <2>2, Zenon DEF StopUnits, TypeOK, files, live
<1>10. ASSUME NEW a \in Actors, RemoveRunFiles(a) PROVE TypeOK'
    <2>1. cmd' \in [Actors -> Command \cup {Idle}]
      BY <1>10, <1>moves DEF RemoveRunFiles, At, Steps
    <2>2. DOMAIN run' \subseteq DOMAIN run /\ \A f \in DOMAIN run' : run'[f] = run[f]
      BY <1>10 DEF RemoveRunFiles, Restrict
    <2> QED BY <1>10, <2>1, <2>2, Zenon DEF RemoveRunFiles, TypeOK, live
<1>11. ASSUME NEW a \in Actors, Purge(a) PROVE TypeOK'
    <2>1. cmd' \in [Actors -> Command \cup {Idle}]
      BY <1>11, <1>moves DEF Purge, At
    <2>2. DOMAIN env' \subseteq DOMAIN env /\ \A x \in DOMAIN env' : env'[x] = env[x]
      BY <1>11 DEF Purge, Restrict
    <2>3. DOMAIN up' \subseteq DOMAIN up /\ \A x \in DOMAIN up' : up'[x] \in {up[x], Failed}
      BY <1>11 DEF Purge
    <2> QED BY <1>11, <2>1, <2>2, <2>3, Zenon DEF Purge, TypeOK, live
<1>12. ASSUME NEW a \in Actors, DriftCompares(a) PROVE TypeOK'
    <2>1. cmd' \in [Actors -> Command \cup {Idle}]
      BY <1>12, <1>moves DEF DriftCompares, At
    <2> QED BY <1>12, <2>1, Zenon DEF DriftCompares, TypeOK, files, live
<1>13. ASSUME NEW a \in Actors, Seal(a) PROVE TypeOK'
    <2>1. cmd' \in [Actors -> Command \cup {Idle}] /\ cmd[a].serial \in Values
      BY <1>13, <1>moves, CommandUnderWay DEF Seal, At, Steps
    <2> QED BY <1>13, <2>1, Zenon DEF Seal, TypeOK, live
<1>event. ASSUME events < MaxEvents, events' = events + 1 PROVE events' \in 0 .. MaxEvents
    <2>1. events \in 0 .. MaxEvents /\ MaxEvents \in Nat
      BY RunFilesAssumption, Zenon DEF TypeOK
    <2> QED BY <1>event, <2>1
<1>14. ASSUME NEW x \in Names \cup {"main"}, ContainerRestarts(x) PROVE TypeOK'
    <2>1. events' \in 0 .. MaxEvents
      BY <1>14, <1>event DEF ContainerRestarts
    <2>2. {x} \in SUBSET (Names \cup {"main"}) /\ DOMAIN up \ {x} \in SUBSET DOMAIN up
      OBVIOUS
    <2>3. Started({x}, DOMAIN up \ {x}, UserAfterSetup(FALSE), pet)
      BY <1>14 DEF ContainerRestarts
    <2>4. UserAfterSetup(FALSE) \in BOOLEAN /\ pet \in Values \cup {None}
      BY UserType, Zenon DEF TypeOK
    <2>5. LiveOK'
      BY <2>2, <2>3, <2>4, StartedTypes, Zenon
    <2> QED BY <1>14, <2>1, <2>5, Zenon DEF ContainerRestarts, TypeOK, LiveOK
<1>15. CASE DeleteSecret
    <2>1. events' \in 0 .. MaxEvents
      BY <1>15, <1>event DEF DeleteSecret
    <2> QED BY <1>15, <2>1, ZeroIsValue, Zenon DEF DeleteSecret, TypeOK, live
<1>16. CASE HostReboot
    <2>1. events' \in 0 .. MaxEvents
      BY <1>16, <1>event DEF HostReboot
    <2>2. cmd' \in [Actors -> Command \cup {Idle}] /\ clear' \subseteq Actors
      BY <1>16 DEF HostReboot
    <2>3. /\ run' = BootedRun(config, enabled) /\ env' = BootedEnv(config, enabled, store)
          /\ up' = BootedUp(config, enabled, store, pet)
          /\ pet' = BootedPet(config, enabled, store, pet)
          /\ UNCHANGED <<config, enabled, store>>
      BY <1>16 DEF HostReboot
    <2>4. /\ DOMAIN run' \subseteq Roles \X (Names \cup {""})
          /\ \A f \in DOMAIN run' : run'[f] \in Configs
      BY <2>3, <1>config, BootedTree, Zenon
    <2>5. /\ DOMAIN env' \subseteq Names \cup {"main"}
          /\ \A x \in DOMAIN env' : env'[x] \in Values \ {0}
      BY <2>3, <1>config, <1>store, BootedEnvTypes
    <2>6. /\ DOMAIN up' \subseteq Names \cup {"main"}
          /\ \A x \in DOMAIN up' : up'[x] \in Values \cup {Failed}
          /\ pet' \in Values \cup {None}
      <3>1. pet \in Values \cup {None}
        BY Zenon DEF TypeOK
      <3> QED BY <2>3, <3>1, <1>config, <1>store, BootedUpTypes
    <2>7. user' \in BOOLEAN /\ setup' \in BOOLEAN
      BY <1>16, <1>config, ConfigFields, Zenon DEF HostReboot, Generates, TypeOK
    <2> QED BY <2>1, <2>2, <2>3, <2>4, <2>5, <2>6, <2>7, <1>config, <1>store, Zenon DEF TypeOK
<1>17. CASE UNCHANGED vars
    BY <1>17, Zenon DEF vars, files, live, TypeOK
<1> QED
    BY <1>1, <1>2, <1>3, <1>4, <1>5, <1>6, <1>7, <1>8, <1>9, <1>10, <1>11, <1>12, <1>13,
       <1>14, <1>15, <1>16, <1>17 DEF Next

-----------------------------------------------------------------------------
(* The tree of units.                                                        *)

(* The tree of a host that has just booted is sound. *)
LEMMA InitSound == Init => TypeOK /\ TreeInv
<1> SUFFICES ASSUME Init PROVE TypeOK /\ TreeInv
    OBVIOUS
<1>1. /\ config \in Configs /\ enabled \in BOOLEAN
      /\ run = BootedRun(config, enabled) /\ env = BootedEnv(config, enabled, store)
      /\ up = BootedUp(config, enabled, store, None) /\ pet = BootedPet(config, enabled, store, None)
      /\ setup \in BOOLEAN /\ user \in BOOLEAN
      /\ cmd = [a \in Actors |-> Idle] /\ events = 0 /\ clear = {}
    BY DEF Init
<1>2. store \in Values /\ events \in 0 .. MaxEvents
    BY <1>1, RunFilesAssumption DEF Init, Values
<1>3. /\ DOMAIN run \subseteq Roles \X (Names \cup {""})
      /\ \A f \in DOMAIN run : run[f] \in Configs /\ run[f].valid /\ f \in Emitted(run[f])
    BY <1>1, BootedTree, Zenon
<1>4. /\ DOMAIN env \subseteq Names \cup {"main"}
      /\ \A x \in DOMAIN env : env[x] \in Values \ {0}
    BY <1>1, <1>2, BootedEnvTypes
<1>5. /\ DOMAIN up \subseteq Names \cup {"main"}
      /\ \A x \in DOMAIN up : up[x] \in Values \cup {Failed}
      /\ pet \in Values \cup {None}
    BY <1>1, <1>2, BootedUpTypes
<1>6. TypeOK
    BY <1>1, <1>2, <1>3, <1>4, <1>5, Zenon DEF TypeOK
<1>7. TreeInv
    BY <1>1, <1>3, Zenon DEF TreeInv, UnitsAreValid, At
<1> QED BY <1>6, <1>7

(* The unit files change only when the generator writes, when disable removes *)
(* them and at a boot.                                                        *)
LEMMA TreeNext == TypeOK /\ TreeInv /\ [Next]_vars => TreeInv'
<1> SUFFICES ASSUME TypeOK, TreeInv, [Next]_vars PROVE TreeInv'
    OBVIOUS
<1> DEFINE TreeOK == \A f \in DOMAIN run : run[f].valid /\ (f = Stray \/ f \in Emitted(run[f]))
           ReadOK(a) == At(a, "write") /\ ~cmd[a].skip => cmd[a].config.valid
<1>cmd. cmd \in [Actors -> Command \cup {Idle}]
    BY Zenon DEF TypeOK
<1>inv. TreeOK /\ (\A a \in Actors : ReadOK(a)) /\ (\A a \in clear : cmd[a] = Idle)
    BY DEF TreeInv, UnitsAreValid
<1>goal. ASSUME TreeOK', \A a \in Actors : ReadOK(a)', \A a \in clear' : cmd'[a] = Idle
         PROVE  TreeInv'
    BY <1>goal DEF TreeInv, UnitsAreValid
<1>step. ASSUME NEW a \in Actors, NEW c \in Command \cup {Idle},
                cmd' = [cmd EXCEPT ![a] = c],
                c # Idle /\ c.at = "write" /\ ~c.skip => c.config.valid,
                clear' \subseteq clear \cup {a}, a \in clear' => c = Idle
         PROVE  (\A b \in Actors : ReadOK(b)') /\ (\A b \in clear' : cmd'[b] = Idle)
    <2>1. \A b \in Actors : cmd'[b] = IF b = a THEN c ELSE cmd[b]
      BY <1>step, <1>cmd
    <2>2. clear' \subseteq Actors
      BY <1>step, Zenon DEF TypeOK
    <2>3. \A b \in Actors : ReadOK(b)'
      BY <1>step, <1>inv, <2>1 DEF At
    <2>4. \A b \in clear' : cmd'[b] = Idle
      BY <1>step, <1>inv, <2>1, <2>2
    <2> QED BY <2>3, <2>4
<1>goto. ASSUME NEW a \in Actors, cmd[a] # Idle, NEW at \in Steps \ {"write"},
                Goto(a, at) \/ End(a), clear' = clear
         PROVE  (\A b \in Actors : ReadOK(b)') /\ (\A b \in clear' : cmd'[b] = Idle)
    <2>1. a \notin clear
      BY <1>goto, <1>inv
    <2>2. CASE Goto(a, at)
      <3>1. [cmd[a] EXCEPT !.at = at] \in Command /\ [cmd[a] EXCEPT !.at = at].at # "write"
        BY <1>goto, CommandUnderWay DEF Command
      <3> QED BY <1>goto, <1>step, <2>1, <2>2, <3>1, Zenon DEF Goto
    <2>3. CASE End(a)
      BY <1>goto, <1>step, <2>1, <2>3, Zenon DEF End
    <2> QED BY <1>goto, <2>2, <2>3
<1>1. ASSUME NEW a \in Actors, NEW op \in Ops, NEW at \in Steps, at # "write",
             NEW flag \in BOOLEAN, Begin(a, op, at, flag)
      PROVE  TreeInv'
    <2> DEFINE c == [op |-> op, at |-> at, config |-> config, flag |-> flag,
                     skip |-> FALSE, serial |-> events + 1]
    <2>1. cmd' = [cmd EXCEPT ![a] = c] /\ clear' = clear \ {a} /\ run' = run
      BY <1>1 DEF Begin, files
    <2>2. cmd' \in [Actors -> Command \cup {Idle}]
      BY <1>1, CommandTypes
    <2>3. c \in Command \cup {Idle} /\ c.at # "write"
      BY <2>1, <2>2, <1>cmd, <1>1
    <2> HIDE DEF c
    <2>4. (\A b \in Actors : ReadOK(b)') /\ (\A b \in clear' : cmd'[b] = Idle)
      BY <2>1, <2>3, <1>step, Zenon
    <2>5. TreeOK'
      BY <2>1, <1>inv
    <2> QED BY <2>4, <2>5, <1>goal
<1>2. ASSUME NEW a \in Actors,
             \/ Edit(a) \/ Recreate(a) \/ Enable(a) \/ Disable(a) \/ Drift(a)
             \/ RotateSecret(a) \/ CreateSecret(a)
      PROVE  TreeInv'
    <2>1. CASE Edit(a) \/ Recreate(a) \/ Enable(a)
      <3>1. (config.kind = "single" /\ config.pet) \in BOOLEAN
        BY Zenon
      <3> QED BY <1>1, <2>1, <3>1, Zenon DEF Edit, Recreate, Enable, Ops, Steps
    <2>2. CASE Disable(a) \/ Drift(a)
      BY <1>1, <2>2 DEF Disable, Drift, Ops, Steps
    <2>3. CASE RotateSecret(a) \/ CreateSecret(a)
      BY <1>1, <2>3, Zenon DEF RotateSecret, CreateSecret, Ops, Steps
    <2> QED BY <1>2, <2>1, <2>2, <2>3
<1>3. ASSUME NEW a \in Actors, run' = run, clear' = clear, cmd[a] # Idle,
             End(a) \/ \E at \in Steps \ {"write"} : Goto(a, at)
      PROVE  TreeInv'
    <2>1. (\A b \in Actors : ReadOK(b)') /\ (\A b \in clear' : cmd'[b] = Idle)
      <3>1. "read" \in Steps \ {"write"}
        BY DEF Steps
      <3> QED BY <1>3, <1>goto, <3>1
    <2>2. TreeOK'
      BY <1>3, <1>inv
    <2> QED BY <2>1, <2>2, <1>goal
<1>4. ASSUME NEW a \in Actors,
             EditorEnds(a) \/ EditValidates(a) \/ EditRestores(a) \/ EditConfirms(a)
      PROVE  TreeInv'
    <2>1. CASE EditorEnds(a)
      BY <1>3, <2>1 DEF EditorEnds, At, Steps
    <2>2. CASE EditValidates(a)
      <3> DEFINE c == [cmd[a] EXCEPT !.at = "confirm", !.flag = (config.kind = "vm")]
      <3>1. cmd[a] # Idle /\ run' = run /\ clear' = clear
        BY <2>2 DEF EditValidates, At, files
      <3>2. Goto(a, "restore") \/ End(a) \/ cmd' = [cmd EXCEPT ![a] = c]
        BY <2>2 DEF EditValidates
      <3>3. CASE Goto(a, "restore") \/ End(a)
        BY <1>3, <3>1, <3>3 DEF Steps
      <3>4. CASE cmd' = [cmd EXCEPT ![a] = c]
        <4>1. cmd[a] \in Command /\ a \notin clear
          BY <3>1, <1>inv, CommandUnderWay
        <4>2. c \in Command /\ c.at # "write"
          <5>1. (config.kind = "vm") \in BOOLEAN /\ "confirm" \in Steps /\ "confirm" # "write"
            BY Zenon DEF Steps
          <5> QED BY <4>1, <5>1, Zenon DEF Command
        <4> HIDE DEF c
        <4>3. (\A b \in Actors : ReadOK(b)') /\ (\A b \in clear' : cmd'[b] = Idle)
          BY <3>1, <3>4, <4>1, <4>2, <1>step, Zenon
        <4>4. TreeOK'
          BY <3>1, <1>inv
        <4> QED BY <4>3, <4>4, <1>goal
      <3> QED BY <3>2, <3>3, <3>4
    <2>3. CASE EditRestores(a)
      BY <1>3, <2>3 DEF EditRestores, At
    <2>4. CASE EditConfirms(a)
      BY <1>3, <2>4 DEF EditConfirms, At, Steps, files
    <2> QED BY <1>4, <2>1, <2>2, <2>3, <2>4
<1>5. ASSUME NEW a \in Actors, Apply(a) \/ RotateRestarts(a) \/ Produced(a) \/ Purge(a)
      PROVE  TreeInv'
    BY <1>3, <1>5, Zenon DEF Apply, RotateRestarts, Produced, Purge, At
<1>6. ASSUME NEW a \in Actors, Mark(a) \/ Preflight(a) \/ StopUnits(a) \/ Unmark(a) \/ Seal(a)
      PROVE  TreeInv'
    <2>1. CASE Mark(a) \/ Preflight(a)
      BY <1>3, <2>1 DEF Mark, Preflight, At, Steps
    <2>2. CASE StopUnits(a) \/ Unmark(a)
      BY <1>3, <2>2 DEF StopUnits, Unmark, At, Steps, files
    <2>3. CASE Seal(a)
      BY <1>3, <2>3 DEF Seal, At, Steps
    <2> QED BY <1>6, <2>1, <2>2, <2>3
<1>7. ASSUME NEW a \in Actors, GeneratorReads(a) \/ DriftGenerates(a) PROVE TreeInv'
    <2>1. cmd[a] \in Command /\ cmd[a] # Idle /\ a \notin clear
      BY <1>7, <1>inv, CommandUnderWay DEF GeneratorReads, DriftGenerates, At
    <2>2. clear' = clear /\ run' = run
      BY <1>7 DEF GeneratorReads, DriftGenerates, files
    <2>3. \/ End(a)
          \/ \E at \in Steps : cmd' = [cmd EXCEPT ![a].at = at, ![a].config = config,
                                                  ![a].skip = ~Generates(config, enabled)]
      BY <1>7, Zenon DEF GeneratorReads, DriftGenerates, Steps
    <2>4. CASE End(a)
      BY <2>1, <2>2, <2>4, <1>3
    <2>5. ASSUME NEW at \in Steps,
                 cmd' = [cmd EXCEPT ![a].at = at, ![a].config = config,
                                    ![a].skip = ~Generates(config, enabled)]
          PROVE  TreeInv'
      <3> DEFINE c == [cmd[a] EXCEPT !.at = at, !.config = config,
                                     !.skip = ~Generates(config, enabled)]
      <3>1. config \in Configs /\ enabled \in BOOLEAN
        BY Zenon DEF TypeOK
      <3>2. c \in Command /\ (~c.skip => c.config.valid)
        BY <2>1, <3>1, Zenon DEF Command, Generates
      <3>3. cmd' = [cmd EXCEPT ![a] = c]
        BY <2>5, Zenon
      <3> HIDE DEF c
      <3>4. (\A b \in Actors : ReadOK(b)') /\ (\A b \in clear' : cmd'[b] = Idle)
        BY <2>1, <2>2, <3>2, <3>3, <1>step, Zenon
      <3>5. TreeOK'
        BY <2>2, <1>inv
      <3> QED BY <3>4, <3>5, <1>goal
    <2> QED BY <2>3, <2>4, <2>5, Zenon
<1>8. ASSUME NEW a \in Actors, GeneratorWrites(a) PROVE TreeInv'
    <2>1. cmd[a] # Idle /\ clear' = clear /\ (Goto(a, "produced") \/ Goto(a, "apply"))
      BY <1>8 DEF GeneratorWrites, At
    <2>2. (\A b \in Actors : ReadOK(b)') /\ (\A b \in clear' : cmd'[b] = Idle)
      BY <2>1, <1>goto DEF Steps
    <2>3. CASE cmd[a].skip
      BY <2>2, <2>3, <1>8, <1>inv, <1>goal DEF GeneratorWrites
    <2>4. ASSUME ~cmd[a].skip, NEW r, run' = Written(r, cmd[a].config),
                 \A f \in DOMAIN r : r[f].valid /\ (f = Stray \/ f \in Emitted(r[f]))
          PROVE  TreeInv'
      <3>1. cmd[a].config \in Configs /\ cmd[a].config.valid
        BY <1>8, <1>inv, <2>4, CommandUnderWay DEF GeneratorWrites, At
      <3>2. /\ DOMAIN run' = DOMAIN r \cup Emitted(cmd[a].config)
            /\ \A f \in DOMAIN run' :
                  run'[f] = IF f \in Emitted(cmd[a].config) THEN cmd[a].config ELSE r[f]
        <4> DEFINE c == cmd[a].config
        <4>1. c \in Configs
          BY <3>1
        <4> HIDE DEF c
        <4>2. /\ DOMAIN Written(r, c) = DOMAIN r \cup Emitted(c)
              /\ \A f \in DOMAIN Written(r, c) :
                    Written(r, c)[f] = IF f \in Emitted(c) THEN c ELSE r[f]
          BY <4>1, WrittenTree
        <4> QED BY <2>4, <4>2, Zenon DEF c
      <3>3. TreeOK'
        BY <2>4, <3>1, <3>2
      <3> QED BY <2>2, <3>3, <1>goal
    <2>5. \A f \in DOMAIN Astray(run) :
             Astray(run)[f].valid /\ (f = Stray \/ f \in Emitted(Astray(run)[f]))
      BY <1>inv, AstrayTree
    <2>6. cmd[a].skip \/ run' = Written(run, cmd[a].config) \/ run' = Written(Astray(run), cmd[a].config)
      BY <1>8, Zenon DEF GeneratorWrites
    <2> QED BY <2>3, <2>4, <2>5, <2>6, <1>inv
<1>9. ASSUME NEW a \in Actors, RemoveRunFiles(a) PROVE TreeInv'
    <2>1. cmd[a] # Idle /\ clear' = clear /\ (Goto(a, "purge") \/ End(a))
      BY <1>9 DEF RemoveRunFiles, At
    <2>2. (\A b \in Actors : ReadOK(b)') /\ (\A b \in clear' : cmd'[b] = Idle)
      BY <2>1, <1>goto DEF Steps
    <2>3. DOMAIN run' \subseteq DOMAIN run /\ \A f \in DOMAIN run' : run'[f] = run[f]
      BY <1>9 DEF RemoveRunFiles, Restrict
    <2>4. TreeOK'
      BY <2>3, <1>inv
    <2> QED BY <2>2, <2>4, <1>goal
<1>10. ASSUME NEW a \in Actors, DriftCompares(a) PROVE TreeInv'
    <2>1. /\ cmd' = [cmd EXCEPT ![a] = Idle] /\ clear' \subseteq clear \cup {a} /\ run' = run
      BY <1>10 DEF DriftCompares, End, files
    <2>2. (\A b \in Actors : ReadOK(b)') /\ (\A b \in clear' : cmd'[b] = Idle)
      BY <2>1, <1>step, Zenon
    <2>3. TreeOK'
      BY <2>1, <1>inv
    <2> QED BY <2>2, <2>3, <1>goal
<1>11. CASE \/ \E x \in Names \cup {"main"} : ContainerRestarts(x)
            \/ DeleteSecret \/ UNCHANGED vars
    <2>1. UNCHANGED <<run, cmd, clear>>
      BY <1>11, Zenon DEF ContainerRestarts, DeleteSecret, vars, files
    <2> QED BY <2>1 DEF TreeInv, UnitsAreValid, At
<1>12. CASE HostReboot
    <2>1. config \in Configs /\ enabled \in BOOLEAN /\ store \in Values
      BY Zenon DEF TypeOK
    <2>2. run' = BootedRun(config, enabled)
      BY <1>12 DEF HostReboot
    <2>4. TreeOK'
      BY <2>1, <2>2, BootedTree, Zenon
    <2>3. (\A b \in Actors : ReadOK(b)') /\ (\A b \in clear' : cmd'[b] = Idle)
      BY <1>12 DEF HostReboot, At
    <2> QED BY <2>3, <2>4, <1>goal
<1> QED
    BY <1>2, <1>4, <1>5, <1>6, <1>7, <1>8, <1>9, <1>10, <1>11, <1>12 DEF Next

(* Without the user nothing that a start touches comes up. *)
LEMMA StartedWithoutUser ==
    ASSUME UserInv, NEW X, NEW Y \in SUBSET DOMAIN up, NEW u \in BOOLEAN, NEW p,
           Started(X, Y, u, p), user => u
    PROVE  UserInv'
    <1>1. /\ user' = u
          /\ up' = [x \in X \cup Y |-> IF x \notin X THEN up[x]
                                        ELSE IF u THEN Given(x, p) ELSE Failed]
      BY Zenon DEF Started
    <1>2. CASE u
      BY <1>1, <1>2 DEF UserInv
    <1>3. CASE ~u
      <2>1. DOMAIN up' = X \cup Y /\ \A x \in X \cup Y : up'[x] = IF x \notin X THEN up[x] ELSE Failed
        BY <1>1, <1>3, Zenon
      <2>2. \A y \in Y : up[y] = Failed
        BY <1>3, Zenon DEF UserInv
      <2> QED BY <1>1, <1>3, <2>1, <2>2, Zenon DEF UserInv
    <1> QED BY <1>2, <1>3

(* Every step keeps UserInv. *)
LEMMA UserNext == TypeOK /\ UserInv /\ [Next]_vars => UserInv'
<1> SUFFICES ASSUME TypeOK, UserInv, [Next]_vars PROVE UserInv'
    OBVIOUS
<1>same. CASE UNCHANGED <<user, up>>
    BY <1>same, Zenon DEF UserInv
<1>restart. ASSUME NEW u \in BOOLEAN, NEW p, RestartMain(u, p), user => u PROVE UserInv'
    <2>1. CASE ~MainLoaded
      BY <1>restart, <1>same, <2>1, Zenon DEF RestartMain
    <2>2. CASE MainLoaded
      <3> DEFINE X == {x \in Containers(run[<<"main", "">>]) : HasUnit(x)}
                         \cup {x \in DOMAIN up : HasUnit(x)}
      <3>1. Started(X, Unmanaged, u, p)
        BY <1>restart, <2>2, Zenon DEF RestartMain
      <3>2. Unmanaged \in SUBSET DOMAIN up
        BY Zenon DEF Unmanaged
      <3> QED BY <1>restart, <3>1, <3>2, StartedWithoutUser, Zenon
    <2> QED BY <2>1, <2>2
<1>1. ASSUME NEW a \in Actors, Apply(a) \/ RotateRestarts(a) \/ Produced(a) PROVE UserInv'
    <2>1. CASE Apply(a)
      BY <2>1, <1>restart, RestartSteps, Zenon
    <2>2. CASE RotateRestarts(a)
      <3>1. UNCHANGED <<env, live>> => UNCHANGED <<user, up>>
        BY Zenon DEF live
      <3> QED BY <2>2, <3>1, <1>same, <1>restart, RestartSteps, Zenon
    <2>3. CASE Produced(a)
      <3>1. UNCHANGED <<env, live>> => UNCHANGED <<user, up>>
        BY Zenon DEF live
      <3>2. StartMain(TRUE) => user' = TRUE
        BY Zenon DEF StartMain, Started
      <3>3. user' \in {user, TRUE} => user' = user \/ user' = TRUE
        BY Zenon
      <3>4. user' = TRUE => UserInv'
        BY Zenon DEF UserInv
      <3> QED BY <2>3, <3>1, <3>2, <3>3, <3>4, <1>same, RestartSteps, Zenon
    <2> QED BY <1>1, <2>1, <2>2, <2>3
<1>2. ASSUME NEW a \in Actors, StopUnits(a) PROVE UserInv'
    <2>1. user' = user /\ \A x \in DOMAIN up' : x \in DOMAIN up /\ up'[x] = up[x]
      BY <1>2 DEF StopUnits, Restrict, Unmanaged
    <2> QED BY <2>1, Zenon DEF UserInv
<1>3. ASSUME NEW a \in Actors, Purge(a) PROVE UserInv'
    <2>1. CASE user
      <3>1. \A x \in DOMAIN up' : up'[x] = Failed
        BY <1>3, <2>1 DEF Purge
      <3> QED BY <3>1, Zenon DEF UserInv
    <2>2. CASE ~user
      BY <1>3, <2>2, Zenon DEF Purge, UserInv
    <2> QED BY <2>1, <2>2
<1>4. ASSUME NEW x \in Names \cup {"main"}, ContainerRestarts(x) PROVE UserInv'
    <2>1. DOMAIN up \ {x} \in SUBSET DOMAIN up
      OBVIOUS
    <2>2. UserAfterSetup(FALSE) \in BOOLEAN /\ (user => UserAfterSetup(FALSE))
      BY Zenon DEF UserAfterSetup, TypeOK
    <2>3. Started({x}, DOMAIN up \ {x}, UserAfterSetup(FALSE), pet)
      BY <1>4, Zenon DEF ContainerRestarts
    <2> QED BY <2>1, <2>2, <2>3, StartedWithoutUser, Zenon
<1>5. CASE HostReboot
    <2>1. ASSUME ~user' PROVE DOMAIN up' = {}
      BY <1>5, <2>1 DEF HostReboot, BootedUp
    <2> QED BY <2>1, Zenon DEF UserInv
<1>6. ASSUME NEW a \in Actors,
             \/ Edit(a) \/ EditorEnds(a) \/ EditValidates(a) \/ EditRestores(a)
             \/ EditConfirms(a) \/ Recreate(a) \/ GeneratorReads(a) \/ GeneratorWrites(a)
             \/ Enable(a) \/ Mark(a) \/ Preflight(a)
      PROVE  UNCHANGED <<user, up>>
    BY <1>6, Zenon DEF Edit, EditorEnds, EditValidates, EditRestores, EditConfirms, Recreate, Enable,
                GeneratorReads, GeneratorWrites, Mark, Preflight, Begin, live
<1>7. ASSUME NEW a \in Actors,
             \/ Disable(a) \/ Unmark(a) \/ RemoveRunFiles(a) \/ Drift(a)
             \/ DriftGenerates(a) \/ DriftCompares(a)
             \/ CreateSecret(a) \/ RotateSecret(a) \/ Seal(a)
      PROVE  UNCHANGED <<user, up>>
    BY <1>7, Zenon DEF Disable, Unmark, RemoveRunFiles, Drift, DriftGenerates, DriftCompares,
                CreateSecret, RotateSecret, Seal, Begin, live
<1>8. CASE DeleteSecret \/ UNCHANGED vars
    BY <1>8, <1>same, Zenon DEF DeleteSecret, vars, live
<1> QED
    BY <1>same, <1>1, <1>2, <1>3, <1>4, <1>5, <1>6, <1>7, <1>8 DEF Next

(* It holds at the start: a host without the user has booted nothing. *)
LEMMA InitUser == Init => UserInv
<1> SUFFICES ASSUME Init, ~user PROVE DOMAIN up = {}
    BY Zenon DEF UserInv
<1>1. enabled = FALSE /\ up = BootedUp(config, enabled, store, None)
    BY Zenon DEF Init
<1> QED BY <1>1 DEF BootedUp, Generates

(* The inductive invariant holds in every state. *)
LEMMA TreeInvariant == Spec => [](TypeOK /\ TreeInv /\ UserInv)
<1>1. TypeOK /\ TreeInv /\ UserInv /\ [Next]_vars => (TypeOK /\ TreeInv /\ UserInv)'
    BY TypeNext, TreeNext, UserNext
<1> QED
    BY InitSound, InitUser, <1>1, PTL DEF Spec

(* A text that does not pass validation never reaches a unit, whatever the    *)
(* operators edit, enable, recreate and disable at the same time, and the     *)
(* state stays well typed.                                                    *)
THEOREM TreeIsSound == Spec => []RunTreeIsSound
<1>1. TypeOK /\ TreeInv => RunTreeIsSound
    BY DEF TreeInv, RunTreeIsSound
<1> QED
    BY TreeInvariant, <1>1, PTL

-----------------------------------------------------------------------------
(* Removal.                                                                  *)

(* What disable removes covers what any configuration on the same substrate   *)
(* with no other container or volume makes the generator write, but for the   *)
(* drop-in of a user that is not known.                                       *)
LEMMA RemovalCovers ==
    ASSUME NEW c \in Configs, NEW d \in Configs,
           (c.kind = "vm") <=> (d.kind = "vm"),
           c.kind \in {"pod", "bridge"} => c.members \subseteq Containers(d),
           c.tags \subseteq d.tags
    PROVE  \A known \in BOOLEAN :
              Emitted(c) \subseteq RunFilesOf(d, known) \cup (IF known THEN {} ELSE {DropIn})
    <1> SUFFICES ASSUME NEW f \in Emitted(c) PROVE f \in RunFilesOf(d, TRUE)
      BY Zenon DEF RunFilesOf
    <1>1. CASE c.kind = "vm"
      <2>1. c.features \ {"seccomp"} \subseteq {"inspect", "resolve", "broker"}
        BY ConfigFields DEF Features
      <2>2. \/ f \in Own({"sysusers", "setup", "main", "wants"})
            \/ f \in Own({"inspect", "resolve", "broker"})
            \/ f \in Own({"build", "clock-timer", "clock"}) \cup Named("virtiofs", c.tags)
        BY <1>1, <2>1, Zenon DEF Emitted, Own
      <2> QED BY <1>1, <2>2, Zenon DEF RunFilesOf, Emitted, Own, Named
    <1>2. CASE c.kind # "vm"
      <2>1. c.features \subseteq {"inspect", "resolve", "broker", "seccomp"}
        BY ConfigFields DEF Features
      <2>2. \/ f \in Own({"sysusers", "setup", "main", "wants", "dropin"})
            \/ f \in Own({"inspect", "resolve", "broker", "seccomp", "pod", "net"})
            \/ c.kind # "single" /\ f \in Named("container", c.members)
        BY <1>2, <2>1, Zenon DEF Emitted, Own
      <2>3. CASE c.kind # "single" /\ f \in Named("container", c.members)
        <3>1. c.kind \in {"pod", "bridge"} /\ c.members \subseteq Names
          BY <1>2, <2>3, ConfigFields
        <3>2. d.kind # "vm" /\ (d.kind # "single" => c.members \subseteq d.members)
          BY <1>2, <3>1 DEF Containers
        <3>3. d.kind = "single" => c.members = {}
          BY <3>1, RunFilesAssumption DEF Containers
        <3> QED BY <2>3, <3>2, <3>3 DEF RunFilesOf, Emitted, Named
      <2>4. CASE f \in Own({"sysusers", "setup", "main", "wants", "dropin"})
        BY <1>2, <2>4, Zenon DEF RunFilesOf, Emitted, Own
      <2>5. CASE f \in Own({"inspect", "resolve", "broker", "seccomp", "pod", "net"})
        BY <1>2, <2>5, Zenon DEF RunFilesOf, Own
      <2> QED BY <2>2, <2>3, <2>4, <2>5
    <1> QED BY <1>1, <1>2

(* disable leaves no unit file, and a purge no plaintext secret, that the     *)
(* configuration it read accounts for, whatever was edited while it ran; only *)
(* the drop-in of a user that an earlier purge removed may stay.              *)
THEOREM RemovalIsComplete == Spec => RemovalStrandsNothing
<1>1. TypeOK /\ [Next]_vars => [DisableStrandsNothing /\ PurgeStrandsNoSecret]_vars
    <2> SUFFICES ASSUME TypeOK PROVE DisableStrandsNothing /\ PurgeStrandsNoSecret
      OBVIOUS
    <2>1. ASSUME NEW a \in Actors, RemoveRunFiles(a), NEW c \in Configs,
                 (c.kind = "vm") <=> (cmd[a].config.kind = "vm"),
                 c.kind \in {"pod", "bridge"} => c.members \subseteq Containers(cmd[a].config),
                 c.tags \subseteq cmd[a].config.tags
          PROVE  Emitted(c) \cap DOMAIN run' \subseteq (IF user THEN {} ELSE {DropIn})
      <3>1. cmd[a].config \in Configs
        BY <2>1, CommandUnderWay DEF RemoveRunFiles, At
      <3>2. Emitted(c) \subseteq RunFilesOf(cmd[a].config, user) \cup (IF user THEN {} ELSE {DropIn})
        <4>1. user \in BOOLEAN
          BY Zenon DEF TypeOK
        <4> QED BY <2>1, <3>1, <4>1, RemovalCovers
      <3>3. DOMAIN run' = DOMAIN run \ RunFilesOf(cmd[a].config, user)
        BY <2>1 DEF RemoveRunFiles, Restrict
      <3> QED BY <3>2, <3>3
    <2>2. ASSUME NEW a \in Actors, Purge(a)
          PROVE  DOMAIN env' \cap (Containers(cmd[a].config) \cup {"main"}) = {}
      <3>1. cmd[a].config \in Configs
        BY <2>2, CommandUnderWay DEF Purge, At
      <3>2. Containers(cmd[a].config) \cup {"main"} \subseteq EnvFilesOf(cmd[a].config)
        BY <3>1, ConfigFields DEF Containers, EnvFilesOf
      <3>3. DOMAIN env' = DOMAIN env \ EnvFilesOf(cmd[a].config)
        BY <2>2 DEF Purge, Restrict
      <3> QED BY <3>2, <3>3
    <2> QED BY <2>1, <2>2 DEF DisableStrandsNothing, PurgeStrandsNoSecret
<1> QED
    BY TreeInvariant, <1>1, PTL DEF Spec, RemovalStrandsNothing

-----------------------------------------------------------------------------
(* Drift.                                                                    *)

(* An all-clear is given for the tree that the generator would write, but for *)
(* the two kinds of file that drift does not look at.  It needs TreeInv: a    *)
(* live file that drift skips by its role has no other name than the one it   *)
(* is excused under, and a command under way still has no all-clear.          *)
THEOREM AllClearIsTrue == Spec => DriftAllClear
<1>1. ASSUME TypeOK, TreeInv, NEW a \in Actors, DriftCompares(a), a \in clear'
      PROVE  LET fresh == IF cmd[a].skip THEN {} ELSE Emitted(cmd[a].config)
                 blind == {<<"clock-timer", "">>}
                             \cup (IF cmd[a].flag THEN {<<"seccomp", "">>} ELSE {})
             IN  /\ DOMAIN run \ blind = fresh \ blind
                 /\ \A f \in fresh \ blind : Content(f, run[f]) = Content(f, cmd[a].config)
    <2> DEFINE blind == {<<"clock-timer", "">>}
                           \cup (IF cmd[a].flag THEN {<<"seccomp", "">>} ELSE {})
    <2>1. cmd[a] # Idle /\ cmd[a].config \in Configs /\ cmd[a].flag \in BOOLEAN
      BY <1>1, CommandUnderWay DEF DriftCompares, At
    <2>2. Drifted(a) = {}
      BY <1>1, <2>1 DEF DriftCompares, TreeInv
    <2>3. ASSUME NEW f \in DOMAIN run \cup Expected(a), f \notin blind
          PROVE  /\ f \in DOMAIN run /\ f \in Expected(a)
                 /\ Content(f, run[f]) = Content(f, cmd[a].config)
      <3>1. f = Stray \/ \E c \in Configs : f \in Emitted(c)
        BY <1>1, <2>1, Zenon DEF TypeOK, TreeInv, Expected
      <3>2. f[1] \notin {"virtiofs", "container"} => f = <<f[1], "">>
        <4>1. CASE f = Stray
          BY <4>1, Zenon DEF Stray
        <4>2. CASE \E c \in Configs : f \in Emitted(c)
          BY <4>2, EmittedFiles, Zenon
        <4> QED BY <3>1, <4>1, <4>2
      <3>3. Scanned(f, cmd[a].flag)
        BY <2>3, <3>2, Zenon DEF Scanned
      <3>4. ~Differs(a, f)
        BY <2>2, <3>3 DEF Drifted
      <3> QED BY <3>4 DEF Differs
    <2> QED BY <2>3, Zenon DEF Expected
<1>2. TypeOK /\ TreeInv /\ [Next]_vars =>
      [\A a \in Actors : DriftCompares(a) /\ a \in clear' =>
          LET fresh == IF cmd[a].skip THEN {} ELSE Emitted(cmd[a].config)
              blind == {<<"clock-timer", "">>} \cup (IF cmd[a].flag THEN {<<"seccomp", "">>} ELSE {})
          IN  /\ DOMAIN run \ blind = fresh \ blind
              /\ \A f \in fresh \ blind : Content(f, run[f]) = Content(f, cmd[a].config)]_vars
    BY <1>1, Zenon
<1> QED
    BY TreeInvariant, <1>2, PTL DEF Spec, DriftAllClear

-----------------------------------------------------------------------------
(* Secrets.                                                                  *)

(* A start of the containers X that leaves Y alone gives nothing but the      *)
(* sealed value to what its unit demands it for, or leaves a pet its own.     *)
LEMMA StartedIsSealed ==
    ASSUME NEW X, NEW Y \in SUBSET DOMAIN up, NEW u \in BOOLEAN, NEW p \in {pet, None},
           Started(X, Y, u, p), UNCHANGED run
    PROVE  StartsWithTheSealed
    <1>1. /\ up' = [x \in X \cup Y |-> IF x \notin X THEN up[x]
                                      ELSE IF u THEN Given(x, p) ELSE Failed]
          /\ pet' = IF u THEN PetAfter(X, p) ELSE p
      BY Zenon DEF Started
    <1>2. ASSUME NEW x \in DOMAIN up', x \notin DOMAIN up \/ up'[x] # up[x], up'[x] # Failed
          PROVE  \/ up'[x] = IF x \in run'[UnitOf(x)].refs THEN store ELSE 0
                 \/ x = "main" /\ run'[UnitOf(x)].pet /\ pet' = pet /\ up'[x] = pet
      <2>1. x \in X /\ u /\ up'[x] = Given(x, p)
        BY <1>1, <1>2
      <2>2. run' = run /\ Given(x, p) # Failed
        BY <1>2, <2>1
      <2>3. CASE Keeps(x, p)
        <3>1. x = "main" /\ run[UnitOf(x)].pet /\ p = pet
          BY <2>3, Zenon DEF Keeps
        <3>2. Given(x, p) = pet
          BY <2>2, <2>3, <3>1, GivenValue, Zenon
        <3>3. pet' = pet
          BY <1>1, <2>1, <2>2, <3>1, <3>2, Zenon DEF PetAfter
        <3> QED BY <2>1, <2>2, <3>1, <3>2, <3>3, Zenon
      <2>4. CASE ~Keeps(x, p)
        <3>1. Given(x, p) = IF NeedsEnv(x) THEN store ELSE 0
          BY <2>2, <2>4, GivenValue
        <3> QED BY <2>1, <2>2, <3>1, Zenon DEF NeedsEnv
      <2> QED BY <2>3, <2>4
    <1> QED BY <1>2, Zenon DEF StartsWithTheSealed

(* A restart of the main unit gives what is sealed at that moment to what it starts. *)
LEMMA RestartIsSealed ==
    ASSUME NEW u \in BOOLEAN, NEW p \in {pet, None}, RestartMain(u, p), UNCHANGED run
    PROVE  StartsWithTheSealed
    <1>1. CASE ~MainLoaded
      <2>1. up' = up
        BY <1>1, Zenon DEF RestartMain
      <2> QED BY <2>1, Zenon DEF StartsWithTheSealed
    <1>2. CASE MainLoaded
      <2> DEFINE X == {x \in Containers(run[<<"main", "">>]) : HasUnit(x)}
                         \cup {x \in DOMAIN up : HasUnit(x)}
      <2>1. Unmanaged \in SUBSET DOMAIN up
        BY Zenon DEF Unmanaged
      <2>2. Started(X, Unmanaged, u, p)
        BY <1>2, Zenon DEF RestartMain
      <2> QED BY <2>1, <2>2, StartedIsSealed, Zenon
    <1> QED BY <1>1, <1>2

(* So does a start of it. *)
LEMMA StartIsSealed ==
    ASSUME NEW u \in BOOLEAN, StartMain(u), UNCHANGED run
    PROVE  StartsWithTheSealed
    <1>1. CASE ~MainLoaded
      <2>1. up' = up
        BY <1>1, Zenon DEF StartMain
      <2> QED BY <2>1, Zenon DEF StartsWithTheSealed
    <1>2. CASE MainLoaded
      <2> DEFINE X == {x \in Containers(run[<<"main", "">>]) :
                          HasUnit(x) /\ (x \in DOMAIN up => up[x] = Failed)}
      <2>1. DOMAIN up \ X \in SUBSET DOMAIN up
        BY Zenon
      <2>2. Started(X, DOMAIN up \ X, u, pet)
        BY <1>2, Zenon DEF StartMain
      <2> QED BY <2>1, <2>2, StartedIsSealed, Zenon
    <1> QED BY <1>1, <1>2

(* After a restart, what has a unit was started by it. *)
LEMMA RestartGives ==
    ASSUME NEW u \in BOOLEAN, NEW p, RestartMain(u, p), MainLoaded, NEW x \in DOMAIN up', HasUnit(x)
    PROVE  up'[x] = IF u THEN Given(x, p) ELSE Failed
    <1> DEFINE X == {y \in Containers(run[<<"main", "">>]) : HasUnit(y)}
                       \cup {y \in DOMAIN up : HasUnit(y)}
    <1>1. up' = [y \in X \cup Unmanaged |-> IF y \notin X THEN up[y]
                                            ELSE IF u THEN Given(y, p) ELSE Failed]
      BY Zenon DEF RestartMain, Started
    <1>2. x \in X
      BY <1>1, Zenon DEF Unmanaged
    <1> HIDE DEF X
    <1> QED BY <1>1, <1>2

(* A container comes up with what is sealed at that moment, and after the     *)
(* restart of a rotate none of a unit that is there runs with an older value, *)
(* but for a pet that is kept, which the recreate of a pet reaches.  Where    *)
(* rotate finds no user to restart for, it rests on UserInv.                  *)
THEOREM SecretsStayCurrent == Spec => SecretsAreCurrent
<1>1. ASSUME TypeOK, Next PROVE StartsWithTheSealed
    <2>1. CASE UNCHANGED up
      BY <2>1, Zenon DEF StartsWithTheSealed
    <2>2. ASSUME NEW a \in Actors, Apply(a) \/ RotateRestarts(a) \/ Produced(a)
          PROVE  StartsWithTheSealed
      <3>1. UNCHANGED run
        BY <2>2, Zenon DEF Apply, RotateRestarts, Produced
      <3>2. UNCHANGED <<env, live>> => UNCHANGED up
        BY Zenon DEF live
      <3>3. CASE Apply(a)
        BY <1>1, <3>1, <3>3, RestartSteps, RestartIsSealed, Zenon
      <3>4. CASE RotateRestarts(a)
        BY <1>1, <2>1, <3>1, <3>2, <3>4, RestartSteps, RestartIsSealed, Zenon
      <3>5. CASE Produced(a)
        BY <1>1, <2>1, <3>1, <3>2, <3>5, RestartSteps, StartIsSealed, Zenon
      <3> QED BY <2>2, <3>3, <3>4, <3>5
    <2>3. ASSUME NEW a \in Actors, StopUnits(a) \/ Purge(a) PROVE StartsWithTheSealed
      <3>1. \A x \in DOMAIN up' : x \in DOMAIN up /\ up'[x] \in {up[x], Failed}
        BY <2>3 DEF StopUnits, Purge, Restrict, Unmanaged
      <3> QED BY <3>1, Zenon DEF StartsWithTheSealed
    <2>4. ASSUME NEW x \in Names \cup {"main"}, ContainerRestarts(x)
          PROVE  StartsWithTheSealed
      <3>1. DOMAIN up \ {x} \in SUBSET DOMAIN up
        OBVIOUS
      <3>2. UserAfterSetup(FALSE) \in BOOLEAN
        BY <1>1, UserType, Zenon
      <3>3. Started({x}, DOMAIN up \ {x}, UserAfterSetup(FALSE), pet) /\ UNCHANGED run
        BY <2>4, Zenon DEF ContainerRestarts
      <3> QED BY <3>1, <3>2, <3>3, StartedIsSealed, Zenon
    <2>5. CASE HostReboot
      <3>1. config \in Configs
        BY <1>1, Zenon DEF TypeOK
      <3>2. ASSUME NEW x \in DOMAIN up', up'[x] # Failed
            PROVE  \/ up'[x] = IF x \in run'[UnitOf(x)].refs THEN store ELSE 0
                   \/ x = "main" /\ run'[UnitOf(x)].pet /\ pet' = pet /\ up'[x] = pet
        <4>1. /\ x \in Containers(config) /\ Generates(config, enabled)
              /\ up'[x] = IF x \in config.refs /\ store = 0 THEN Failed
                          ELSE IF x = "main" /\ config.pet /\ pet # None THEN pet
                          ELSE IF x \in config.refs THEN store ELSE 0
          BY <2>5, <3>2 DEF HostReboot, BootedUp
        <4>2. run'[UnitOf(x)] = config
          BY <2>5, <3>1, <4>1, UnitIsEmitted DEF HostReboot, BootedRun
        <4>3. CASE x = "main" /\ config.pet /\ pet # None
          <5>1. up'[x] = pet
            BY <3>2, <4>1, <4>3, Zenon
          <5>2. up' = BootedUp(config, enabled, store, pet) /\ pet' = BootedPet(config, enabled, store, pet)
            BY <2>5, Zenon DEF HostReboot
          <5>3. pet' = pet
            BY <3>2, <4>3, <5>1, <5>2, Zenon DEF BootedPet
          <5> QED BY <4>2, <4>3, <5>1, <5>3, Zenon
        <4>4. CASE ~(x = "main" /\ config.pet /\ pet # None)
          BY <3>2, <4>1, <4>2, <4>4
        <4> QED BY <4>3, <4>4
      <3> QED BY <3>2, Zenon DEF StartsWithTheSealed
    <2>6. ASSUME NEW a \in Actors,
                 \/ Edit(a) \/ EditorEnds(a) \/ EditValidates(a) \/ EditRestores(a)
                 \/ EditConfirms(a) \/ Recreate(a) \/ GeneratorReads(a) \/ GeneratorWrites(a)
                 \/ Enable(a) \/ Mark(a) \/ Preflight(a)
          PROVE  UNCHANGED up
      BY <2>6, Zenon DEF Edit, EditorEnds, EditValidates, EditRestores, EditConfirms, Recreate, Enable,
                  GeneratorReads, GeneratorWrites, Mark, Preflight, Begin, live
    <2>7. ASSUME NEW a \in Actors,
                 \/ Disable(a) \/ Unmark(a) \/ RemoveRunFiles(a) \/ Drift(a)
                 \/ DriftGenerates(a) \/ DriftCompares(a)
                 \/ CreateSecret(a) \/ RotateSecret(a) \/ Seal(a)
          PROVE  UNCHANGED up
      BY <2>7, Zenon DEF Disable, Unmark, RemoveRunFiles, Drift, DriftGenerates, DriftCompares,
                  CreateSecret, RotateSecret, Seal, Begin, live
    <2>8. CASE DeleteSecret
      BY <2>1, <2>8, Zenon DEF DeleteSecret, live
    <2> QED BY <1>1, <2>1, <2>2, <2>3, <2>4, <2>5, <2>6, <2>7, <2>8 DEF Next
<1>2. ASSUME TypeOK, UserInv, NEW a \in Actors, RotateRestarts(a), MainLoaded,
             NEW x \in DOMAIN up', HasUnit(x)
      PROVE  up'[x] \in {0, Failed, store} \cup (IF Keeps(x, pet) THEN {pet} ELSE {})
    <2>1. CASE UNCHANGED <<env, live>> /\ ~user
      <3>1. up' = up
        BY <2>1, Zenon DEF live
      <3> QED BY <1>2, <2>1, <3>1, Zenon DEF UserInv
    <2>2. ASSUME NEW u \in BOOLEAN, RestartMain(u, pet)
          PROVE  up'[x] \in {0, Failed, store} \cup (IF Keeps(x, pet) THEN {pet} ELSE {})
      <3>1. up'[x] = IF u THEN Given(x, pet) ELSE Failed
        BY <1>2, <2>2, RestartGives, Zenon
      <3>2. Given(x, pet) \in {0, Failed, store} \/ (Keeps(x, pet) /\ Given(x, pet) = pet)
        BY GivenValue, Zenon
      <3> QED BY <3>1, <3>2
    <2> QED BY <1>2, <2>1, <2>2, RestartSteps, Zenon
<1>3. ASSUME TypeOK, NEW a \in Actors, Apply(a), cmd[a].op = "recreate", cmd[a].flag, MainLoaded,
             NEW x \in DOMAIN up', HasUnit(x)
      PROVE  up'[x] \in {0, Failed, store}
    <2>1. PICK u \in BOOLEAN, p \in {pet, None} : RestartMain(u, p) /\ (u => p = None)
      BY <1>3, RestartSteps, Zenon
    <2>2. up'[x] = IF u THEN Given(x, p) ELSE Failed
      BY <1>3, <2>1, RestartGives, Zenon
    <2>3. Given(x, None) \in {0, Failed, store}
      <3>1. ~Keeps(x, None)
        BY Zenon DEF Keeps
      <3> QED BY <3>1, GivenValue, Zenon
    <2> QED BY <2>1, <2>2, <2>3
<1>4. TypeOK /\ UserInv /\ [Next]_vars => [StartsWithTheSealed /\ RotateReaches /\ RecreateReaches]_vars
    <2>1. TypeOK /\ UserInv => RotateReaches
      BY <1>2, Zenon DEF RotateReaches
    <2>2. TypeOK => RecreateReaches
      BY <1>3, Zenon DEF RecreateReaches
    <2> QED BY <1>1, <2>1, <2>2, Zenon
<1> QED
    BY TreeInvariant, <1>4, PTL DEF Spec, SecretsAreCurrent
=============================================================================
