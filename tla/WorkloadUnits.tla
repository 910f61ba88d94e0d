--------------------------- MODULE WorkloadUnits ---------------------------
(***************************************************************************)
(* The units that workload-generate writes for one workload, and what      *)
(* starting, stopping, restarting and failing them does to the workload's  *)
(* confinement.                                                            *)
(*                                                                         *)
(* The first half is the generator: one definition per generate_* function, *)
(* the dependencies it writes and the commands it attaches.  The second    *)
(* half runs the units.  systemd is external: its jobs are modelled from   *)
(* what the directives the generator uses mean.                            *)
(*                                                                         *)
(* A configuration is reduced to what decides the units:                   *)
(*   kind         "vm", or the container modes "single", "pod", "bridge"   *)
(*   inspect, resolve, credentials    the three *_uses_* predicates        *)
(*   hostBridge   a VM on the operator's own bridge, never inspected       *)
(*   tags         the virtiofs tags of a VM                                *)
(*   members      the containers of a pod or a bridge                      *)
(*   pet          lifecycle = "pet"                                        *)
(*   restart      [vm].restart                                             *)
(***************************************************************************)
EXTENDS Naturals, Sequences, FiniteSets

CONSTANTS
    Configs,    \* the configurations
    Budgets     \* for each, a set of bounds [commands, edits, faults]: how many
                \* commands are given, how often the policy is edited, and how
                \* many steps fail and processes die

\* When members exist, they are not named after another unit.
UnitNames ==
    {"setup", "build", "inspect.socket", "inspect.service", "resolve.socket",
     "resolve.service", "broker", "clock.timer", "clock.service", "head", "main"}

ASSUME ConfigAssumption ==
    \A c \in Configs :
        /\ (c.tags \cup c.members) \cap UnitNames = {}
        /\ c.tags \cap c.members = {}
        /\ c.resolve \/ c.credentials => c.inspect
        /\ c.hostBridge => ~c.inspect
        /\ c.pet => c.kind = "single"
        /\ c.kind \in {"pod", "bridge"} => c.members # {}

-----------------------------------------------------------------------------
(* The generator.                                                          *)
(*                                                                         *)
(* A unit is its dependencies, the steps of its start (ExecStartPre=,      *)
(* ExecStart=, the notification it waits for), its ExecStop=, its          *)
(* ExecStopPost= and its Restart=.  `remain` is RemainAfterExit= of a      *)
(* oneshot: without it the unit ends when its start has.                   *)

Unit ==
    [requires |-> {}, wants |-> {}, after |-> {}, before |-> {}, partOf |-> {},
     bindsTo |-> {}, stopFrom |-> {}, defaults |-> TRUE, socket |-> FALSE,
     remain |-> TRUE, start |-> <<>>, stop |-> <<>>, post |-> <<>>, restart |-> "no"]

SetupService == [Unit EXCEPT !.start = <<"ensure user">>]

InspectSocket ==
    [Unit EXCEPT !.requires = {"setup"}, !.after = {"setup"},
                 !.before = {"main"}, !.partOf = {"main"},
                 !.defaults = FALSE, !.socket = TRUE,
                 !.start = <<"inspect up", "listen">>,
                 !.post = <<"inspect down">>]

InspectService ==
    [Unit EXCEPT !.requires = {"setup"}, !.after = {"setup"}, !.partOf = {"main"},
                 !.start = <<"exempt", "run">>,
                 !.post = <<"unexempt">>,
                 !.restart = "on-failure"]

BrokerService(before) ==
    [Unit EXCEPT !.requires = {"setup"}, !.after = {"setup"},
                 !.before = {before}, !.partOf = {"main"},
                 !.start = <<"run", "ready">>,
                 !.restart = "on-failure"]

ResolveSocket ==
    [Unit EXCEPT !.requires = {"setup"}, !.after = {"setup"},
                 !.before = {"main"}, !.partOf = {"main"},
                 !.defaults = FALSE, !.socket = TRUE,
                 !.start = <<"listen">>]

\* Mutant of ResolveService: PartOf= instead of StopPropagatedFrom=.
ResolvePartOf ==
    [Unit EXCEPT !.requires = {"setup"}, !.after = {"setup"}, !.partOf = {"main"},
                 !.start = <<"run">>, !.restart = "on-failure"]

ResolveService ==
    [Unit EXCEPT !.requires = {"setup"}, !.after = {"setup"}, !.stopFrom = {"main"},
                 !.start = <<"run">>,
                 !.restart = "on-failure"]

\* The egress units of a workload, and the ones its payload waits for.
EgressUnits(c, before) ==
    [u \in (IF c.inspect THEN {"inspect.socket", "inspect.service"} ELSE {})
           \cup (IF c.resolve THEN {"resolve.socket", "resolve.service"} ELSE {})
           \cup (IF c.credentials THEN {"broker"} ELSE {}) |->
        CASE u = "inspect.socket"  -> InspectSocket
          [] u = "inspect.service" -> InspectService
          [] u = "resolve.socket"  -> ResolveSocket
          [] u = "resolve.service" -> ResolveService
          [] u = "broker"          -> BrokerService(before)]

EgressPrereqs(c) ==
    (IF c.inspect THEN {"inspect.socket"} ELSE {})
    \cup (IF c.resolve THEN {"resolve.socket"} ELSE {})
    \cup (IF c.credentials THEN {"broker"} ELSE {})

\* ExecStartPost= holds the unit in its start until virtiofsd's socket is there.
VirtiofsService ==
    [Unit EXCEPT !.requires = {"setup", "main"}, !.after = {"setup"},
                 !.before = {"main"}, !.partOf = {"main"},
                 !.start = <<"run", "ready">>]

VmClockTimer == [Unit EXCEPT !.partOf = {"main"}, !.after = {"main"}]

VmClockService ==
    [Unit EXCEPT !.partOf = {"main"}, !.after = {"main"}, !.remain = FALSE,
                 !.start = <<"run">>]

VmBuildService ==
    [Unit EXCEPT !.requires = {"setup"}, !.after = {"setup"}, !.start = <<"build disk">>]

\* `filter up` purges the uid's elements and then adds them anew.
FilterUp == <<"purge", "arm">>

\* Mutant of VmService: Wants= instead of Requires=.
VmServiceWants(c) ==
    LET prereqs == {"setup", "build"} \cup c.tags \cup EgressPrereqs(c)
    IN  [Unit EXCEPT !.wants = prereqs \cup {"clock.timer"}, !.after = prereqs,
                     !.start = FilterUp \o <<"svcaddr up", "run", "ready">>,
                     !.stop = <<"shutdown">>,
                     !.post = <<"filter down", "svcaddr down">>,
                     !.restart = "on-failure"]

VmService(c) ==
    LET prereqs == {"setup", "build"} \cup c.tags \cup EgressPrereqs(c)
    IN  [Unit EXCEPT !.requires = prereqs, !.after = prereqs, !.wants = {"clock.timer"},
                     !.start = (IF c.hostBridge THEN <<>> ELSE FilterUp \o <<"svcaddr up">>)
                               \o <<"run", "ready">>,
                     !.stop = <<"shutdown">>,
                     !.post = IF c.hostBridge THEN <<>> ELSE <<"filter down", "svcaddr down">>,
                     !.restart = IF c.restart = "always" THEN "always" ELSE "on-failure"]

\* generate_vm_workload
VmWorkload(c) ==
    LET egress == EgressUnits(c, "main")
    IN  [u \in {"setup", "build", "clock.timer", "clock.service", "main"}
               \cup c.tags \cup DOMAIN egress |->
            CASE u = "setup"          -> SetupService
              [] u = "build"          -> VmBuildService
              [] u = "clock.timer"    -> VmClockTimer
              [] u = "clock.service"  -> VmClockService
              [] u = "main"           -> VmService(c)
              [] u \in c.tags         -> VirtiofsService
              [] u \in DOMAIN egress  -> egress[u]]

\* generate_system_service with mode = "single": the container's unit is the
\* workload's.  `podman system migrate` stops every container of the user.
SingleService(c) ==
    LET prereqs == {"setup"} \cup EgressPrereqs(c)
    IN  [Unit EXCEPT !.requires = prereqs, !.after = prereqs,
                     !.start = <<"migrate">> \o (IF c.inspect THEN FilterUp ELSE <<>>)
                               \o <<"run">>,
                     !.stop = <<"podman stop">>,
                     !.post = (IF c.pet THEN <<>> ELSE <<"podman rm">>)
                              \o (IF c.inspect THEN <<"filter down">> ELSE <<>>),
                     !.restart = "on-failure"]

\* generate_system_service for a container of a pod or a bridge.
MemberService(c) ==
    [Unit EXCEPT !.requires = {"head"}, !.after = {"head"}, !.bindsTo = {"head"},
                 !.partOf = {"main"},
                 !.start = <<"run">>,
                 !.stop = <<"podman stop">>,
                 !.post = IF c.kind = "pod" THEN <<>> ELSE <<"podman rm">>,
                 !.restart = "on-failure"]

\* Mutant of HeadUnit: the arming is left to another unit.
HeadUnarmed(c) ==
    LET prereqs == {"setup"} \cup EgressPrereqs(c)
    IN  [Unit EXCEPT !.requires = prereqs, !.after = prereqs, !.partOf = {"main"},
                     !.start = <<"migrate", "remove all", "create">>,
                     !.stop = <<"remove all">>]

\* _head_unit, for generate_pod_service and generate_net_service
HeadUnit(c) ==
    LET prereqs == {"setup"} \cup EgressPrereqs(c)
    IN  [Unit EXCEPT !.requires = prereqs, !.after = prereqs, !.partOf = {"main"},
                     !.start = <<"migrate", "remove all">>
                               \o (IF c.inspect THEN FilterUp ELSE <<>>) \o <<"create">>,
                     !.stop = <<"remove all">>,
                     !.post = IF c.inspect THEN <<"filter down">> ELSE <<>>]

UmbrellaService(c) ==
    [Unit EXCEPT !.requires = {"setup", "head"} \cup c.members,
                 !.after = {"setup", "head"} \cup c.members]

\* container_broker_before
ContainerBrokerBefore(c) == IF c.kind = "single" THEN "main" ELSE "head"

\* generate_container_workload
ContainerWorkload(c) ==
    LET egress == EgressUnits(c, ContainerBrokerBefore(c))
    IN  [u \in {"setup", "main"} \cup (IF c.kind = "single" THEN {} ELSE {"head"} \cup c.members)
               \cup DOMAIN egress |->
            CASE u = "setup"         -> SetupService
              [] u = "head"          -> HeadUnit(c)
              [] u = "main"          -> IF c.kind = "single" THEN SingleService(c)
                                                             ELSE UmbrellaService(c)
              [] u \in c.members     -> MemberService(c)
              [] u \in DOMAIN egress -> egress[u]]

Generated(c) == IF c.kind = "vm" THEN VmWorkload(c) ELSE ContainerWorkload(c)

\* The units of each configuration.
Table == [c \in Configs |-> Generated(c)]

\* The units whose process is a payload.  A container is not in its unit's
\* cgroup but in the user manager's: the unit's kill does not reach it.
PayloadUnits(c) == IF c.kind \in {"pod", "bridge"} THEN c.members ELSE {"main"}
Detached(c) == c.kind # "vm"

-----------------------------------------------------------------------------
(* systemd's view of the dependencies (external).                          *)

RECURSIVE Closure(_, _)
Closure(S, rel) ==
    LET T == S \cup UNION {rel[x] : x \in S}
    IN  IF T = S THEN S ELSE Closure(T, rel)

\* A socket or a timer is ordered before the service it triggers.
Triggers ==
    [x \in {"inspect.socket", "resolve.socket", "clock.timer"} |->
        CASE x = "inspect.socket" -> "inspect.service"
          [] x = "resolve.socket" -> "resolve.service"
          [] x = "clock.timer"    -> "clock.service"]

After ==
    [c \in Configs |-> [x \in DOMAIN Table[c] |->
        Table[c][x].after
        \cup {y \in DOMAIN Table[c] : x \in Table[c][y].before}
        \cup {y \in DOMAIN Triggers \cap DOMAIN Table[c] : Triggers[y] = x}]]

Following ==
    [c \in Configs |-> [x \in DOMAIN Table[c] |->
        {y \in DOMAIN Table[c] : x \in After[c][y]}]]

\* What a start of x pulls in, x included.
PulledIn ==
    [c \in Configs |->
        LET pull == [x \in DOMAIN Table[c] |->
                        Table[c][x].requires \cup Table[c][x].wants \cup Table[c][x].bindsTo]
        IN  [x \in DOMAIN Table[c] |-> Closure({x}, pull)]]

\* The units that a start failure of x fails, and a restart of x restarts.
Dependents(c, x) ==
    {y \in DOMAIN Table[c] : x \in Table[c][y].requires \cup Table[c][y].bindsTo}

RestartedWith ==
    [c \in Configs |-> [x \in DOMAIN Table[c] |->
        Dependents(c, x) \cup {y \in DOMAIN Table[c] : x \in Table[c][y].partOf}]]

\* The units that a stop of x stops, x included.
StoppedWith ==
    [c \in Configs |->
        LET stop == [x \in DOMAIN Table[c] |->
                        RestartedWith[c][x] \cup {y \in DOMAIN Table[c] : x \in Table[c][y].stopFrom}]
        IN  [x \in DOMAIN Table[c] |-> Closure({x}, stop)]]

-----------------------------------------------------------------------------
(* State.                                                                  *)

VARIABLES
    config,     \* the configuration of the workload
    version,    \* the policy in its file: how often it was edited
    st,         \* the state of each unit
    job,        \* the job of each unit, pending or running
    pc,         \* the step of each unit's start or stop
    cause,      \* why a unit last went down
    host,       \* the workload's footprint on the host
    running,    \* the payloads alive
    loaded,     \* the policy each sidecar holds in memory; 0 when it does not run
    goal,       \* the last command, and the policy in the file when it was given
    past,       \* what has happened: anything that failed, a recreate that found
                \* units at work, a query while its socket was to be restarted,
                \* a container that podman was to remove and did not
    left        \* what is left of the bounds

vars == <<config, version, st, job, pc, cause, host, running, loaded, goal, past, left>>

Sidecars == {"inspect.service", "resolve.service"}

\* After a boot the generator has written the units and nothing runs.
Init ==
    /\ config \in Configs
    /\ version = 1
    /\ st = [x \in DOMAIN Table[config] |-> "inactive"]
    /\ job = [x \in DOMAIN Table[config] |-> "none"]
    /\ pc = [x \in DOMAIN Table[config] |-> 0]
    /\ cause = [x \in DOMAIN Table[config] |-> "job"]
    /\ host = [user |-> FALSE, disk |-> FALSE, filtered |-> FALSE, redirect |-> FALSE,
               addr |-> FALSE, exempt |-> FALSE, stuck |-> {}, doc |-> 0, static |-> 0]
    /\ running = {}
    /\ loaded = [x \in Sidecars |-> 0]
    /\ goal = [verb |-> "none", version |-> 0]
    /\ past = [faults |-> FALSE, overlap |-> FALSE, early |-> FALSE, stray |-> FALSE]
    /\ left \in Budgets[config]

Spend(what) ==
    /\ left[what] > 0
    /\ left' = [left EXCEPT ![what] = @ - 1]

Fault == Spend("faults") /\ past' = [past EXCEPT !.faults = TRUE]

Units == DOMAIN st
U(x) == Table[config][x]

-----------------------------------------------------------------------------
(* Jobs (external).                                                        *)

StartJob(x) ==
    CASE job[x] = "restart"                       -> "restart"
      [] job[x] # "restart" /\ st[x] = "active"   -> "none"
      [] job[x] # "restart" /\ st[x] # "active"   -> "start"

StopJob(x) == IF st[x] = "inactive" THEN "none" ELSE "stop"

StartJobs(x) ==
    [y \in Units |-> IF y \in PulledIn[config][x] THEN StartJob(y) ELSE job[y]]

StopJobs(S) ==
    LET all == UNION {StoppedWith[config][x] : x \in S}
    IN  [y \in Units |-> IF y \in all THEN StopJob(y) ELSE job[y]]

\* A restart spreads to the dependents that are up, as a restart, and to
\* StopPropagatedFrom= as a stop.  systemd refuses a transaction that holds both
\* for one unit.
Restarted(x) ==
    LET up == [y \in Units |-> {z \in RestartedWith[config][y] : st[z] \in {"starting", "active"}}]
    IN  Closure({x}, up)

StoppedAlong(S) ==
    UNION {StoppedWith[config][y] : y \in {z \in Units : U(z).stopFrom \cap S # {}}}

RestartJobs(x) ==
    LET restarted == Restarted(x)
        stopped == StoppedAlong(restarted)
        pulled == UNION {PulledIn[config][y] : y \in restarted}
    IN  [y \in Units |->
            IF y \in restarted
            THEN IF st[y] = "inactive" THEN "start" ELSE "restart"
            ELSE IF y \in stopped THEN StopJob(y)
            ELSE IF y \in pulled THEN StartJob(y) ELSE job[y]]

Accepted(x) == Restarted(x) \cap StoppedAlong(Restarted(x)) = {}

\* The start of x failed, and with it the pending starts that require it.
FailedJobs(x) ==
    LET failing == [y \in Units |-> {z \in Dependents(config, y) : job[z] = "start"}]
        lost == Closure({x}, failing)
    IN  [y \in Units |-> IF y \in lost THEN "none" ELSE job[y]]

\* A start waits for the jobs of the units it follows, and for the stops of
\* those that follow it; a stop waits for the stops of those that follow it.
MayStart(x) ==
    /\ job[x] = "start"
    /\ st[x] = "inactive"
    /\ \A y \in After[config][x] : job[y] = "none"
    /\ \A y \in Following[config][x] : job[y] \notin {"stop", "restart"}

MayStop(x) ==
    /\ job[x] \in {"stop", "restart"}
    /\ st[x] \in {"starting", "active", "waiting"}
    /\ \A y \in Following[config][x] : job[y] \notin {"stop", "restart"}

-----------------------------------------------------------------------------
(* What the steps of a start and of a stop do.                             *)

\* workload-*-inspect up and down
InspectUp(h) == [h EXCEPT !.doc = version, !.addr = TRUE, !.redirect = TRUE]
InspectDown(h) == [h EXCEPT !.addr = FALSE, !.redirect = FALSE]

\* workload-*-filter up, after its purge; an unfiltered VM is only purged.
FilterArm(h) ==
    IF ~config.inspect THEN h
    ELSE [h EXCEPT !.filtered = TRUE, !.static = IF config.resolve THEN version ELSE @]
FilterDown(h) == [h EXCEPT !.filtered = FALSE]

\* workload-vm-svcaddr up and down
SvcaddrUp(h) == [h EXCEPT !.addr = TRUE]
SvcaddrDown(h) == [h EXCEPT !.addr = FALSE]

\* What a step puts on the host or takes off it, each thing by a command of its own
Footprint(step) ==
    CASE step \in {"inspect up", "inspect down"}   -> {"addr", "redirect"}
      [] step \in {"purge", "arm", "filter down"}  -> {"filtered"}
      [] step \in {"svcaddr up", "svcaddr down"}   -> {"addr"}
      [] step \in {"exempt", "unexempt"}           -> {"exempt"}
      [] OTHER                                     -> {}

HostAfter(step) ==
    LET h == [host EXCEPT !.stuck = @ \ Footprint(step)]
    IN  CASE step = "ensure user"               -> [h EXCEPT !.user = TRUE]
          [] step = "build disk"                -> [h EXCEPT !.disk = TRUE]
          [] step = "inspect up"                -> InspectUp(h)
          [] step = "inspect down"              -> InspectDown(h)
          [] step \in {"purge", "filter down"}  -> FilterDown(h)
          [] step = "arm"                       -> FilterArm(h)
          [] step = "svcaddr up"                -> SvcaddrUp(h)
          [] step = "svcaddr down"              -> SvcaddrDown(h)
          [] step = "exempt"                    -> [h EXCEPT !.exempt = TRUE]
          [] step = "unexempt"                  -> [h EXCEPT !.exempt = FALSE]
          [] OTHER                              -> h

\* podman and qemu, as the units call them (external)
RunningAfter(x, step) ==
    CASE step = "run" /\ x \in PayloadUnits(config)              -> running \cup {x}
      [] step \in {"shutdown", "podman stop", "podman rm"}       -> running \ {x}
      [] step = "kill" /\ ~Detached(config)                      -> running \ {x}
      [] step \in {"migrate", "remove all"}                      -> {}
      [] OTHER                                                   -> running

\* The inspector reads the policy document, the responder the static map, once.
LoadedAfter(x, step) ==
    CASE step = "run" /\ x = "inspect.service"  -> [loaded EXCEPT ![x] = host.doc]
      [] step = "run" /\ x = "resolve.service"  -> [loaded EXCEPT ![x] = host.static]
      [] step = "kill" /\ x \in Sidecars        -> [loaded EXCEPT ![x] = 0]
      [] OTHER                                  -> loaded

Perform(x, step) ==
    /\ host' = HostAfter(step)
    /\ running' = RunningAfter(x, step)
    /\ loaded' = LoadedAfter(x, step)

Idle == UNCHANGED <<host, running, loaded>>

\* The removals of the helpers, which warn or say nothing when nft or ip refuses
\* one and exit 0 whatever happens, and those of podman, whose failure the "-"
\* prefix ignores or, at an ExecStop=, the next steps of the stop follow.
Removals == {"inspect down", "purge", "filter down", "svcaddr down", "unexempt"}
PodmanRemovals == {"podman stop", "podman rm", "remove all", "migrate"}

\* A removal that has something to remove fails, in whole or in part, and the
\* unit goes on to its next step.
Miss(x, step) ==
    /\ Spend("faults")
    /\ \/ \E kept \in SUBSET {f \in Footprint(step) : host[f]} \ {{}} :
            /\ step \in Removals
            /\ host' = [f \in DOMAIN host |->
                            IF f = "stuck" THEN host.stuck \cup kept
                            ELSE IF f \in kept THEN host[f] ELSE HostAfter(step)[f]]
            /\ past' = [past EXCEPT !.faults = TRUE]
       \/ /\ step \in PodmanRemovals /\ RunningAfter(x, step) # running
          /\ past' = [past EXCEPT !.faults = TRUE, !.stray = @ \/ step # "podman stop"]
          /\ UNCHANGED host
    /\ UNCHANGED <<running, loaded>>

\* The step is done, or has failed and the unit tolerates it.
Take(x, step) ==
    \/ Perform(x, step) /\ UNCHANGED <<past, left>>
    \/ Miss(x, step)

\* The step is bound to fail: the unit runs as, or looks up, a user not yet
\* created, or binds the inspector's address, without FreeBind=, too early.
Doomed(x, step) ==
    \/ ~host.user /\ x \notin {"setup", "build", "broker"}
    \/ step = "listen" /\ x = "inspect.socket" /\ ~host.addr

\* Steps without the "-" prefix that can fail.
Fallible == {"ensure user", "build disk", "inspect up", "listen", "exempt", "run", "ready",
             "arm", "svcaddr up", "create"}

-----------------------------------------------------------------------------
(* Running the jobs (external).                                            *)

StopSteps(x) == U(x).stop \o <<"kill">> \o U(x).post

Lowered(x, from, why) ==
    /\ st' = [st EXCEPT ![x] = "stopping"]
    /\ pc' = [pc EXCEPT ![x] = from]
    /\ cause' = [cause EXCEPT ![x] = why]

\* ExecStop= runs only for a unit that had started and has not failed.
AtKill(x) == Len(U(x).stop) + 1

\* The start is refused before anything of x runs: a unit it is bound to is not
\* up, or x is a socket and its service is.
Refused(x) ==
    \/ \E y \in U(x).bindsTo : st[y] # "active"
    \/ U(x).socket /\ st[Triggers[x]] \notin {"inactive", "waiting"}

\* ConditionPathExists=!<the system disk>
Skipped(x) == x = "build" /\ host.disk

BeginStart(x) ==
    /\ MayStart(x)
    /\ \/ /\ Skipped(x)
          /\ job' = [job EXCEPT ![x] = "none"]
          /\ UNCHANGED <<st, pc, cause>>
       \/ /\ ~Skipped(x) /\ Refused(x)
          /\ job' = FailedJobs(x)
          /\ cause' = [cause EXCEPT ![x] = "failed"]
          /\ UNCHANGED <<st, pc>>
       \/ /\ ~Skipped(x) /\ ~Refused(x)
          /\ st' = [st EXCEPT ![x] = IF U(x).start = <<>> THEN "active" ELSE "starting"]
          /\ job' = [job EXCEPT ![x] = IF U(x).start = <<>> THEN "none" ELSE @]
          /\ pc' = [pc EXCEPT ![x] = 1]
          /\ cause' = [cause EXCEPT ![x] = "job"]
    /\ Idle
    /\ UNCHANGED <<config, version, goal, past, left>>

StepStart(x) ==
    /\ st[x] = "starting"
    /\ LET step == U(x).start[pc[x]]
           last == pc[x] = Len(U(x).start)
       IN  /\ ~Doomed(x, step)
           /\ Take(x, step)
           /\ pc' = [pc EXCEPT ![x] = IF last THEN 0 ELSE @ + 1]
           /\ st' = [st EXCEPT ![x] = IF ~last THEN @ ELSE IF U(x).remain THEN "active" ELSE "inactive"]
           /\ job' = [job EXCEPT ![x] =
                        IF ~last THEN @
                        ELSE IF U(x).remain THEN IF @ = "start" THEN "none" ELSE @
                        ELSE IF @ = "restart" THEN "start" ELSE "none"]
    /\ UNCHANGED <<config, version, cause, goal>>

\* A unit that goes down by itself takes down those bound to it.
BoundStops(x) ==
    StopJobs({y \in Units : /\ st[y] \in {"starting", "active"}
                            /\ x \in U(y).bindsTo \cup U(y).stopFrom})

\* A step fails before or after it has done its work.
FailStart(x) ==
    /\ st[x] = "starting"
    /\ LET step == U(x).start[pc[x]]
       IN  \/ /\ Doomed(x, step)
              /\ Idle
              /\ UNCHANGED <<past, left>>
           \/ /\ ~Doomed(x, step) /\ step \in Fallible
              /\ Fault
              /\ (Idle \/ Perform(x, step))
    /\ Lowered(x, AtKill(x), "failed")
    /\ job' = BoundStops(x)
    /\ UNCHANGED <<config, version, goal>>

BeginStop(x) ==
    /\ MayStop(x)
    /\ IF st[x] = "waiting"
       THEN /\ st' = [st EXCEPT ![x] = "inactive"]
            /\ job' = [job EXCEPT ![x] = IF @ = "restart" THEN "start" ELSE "none"]
            /\ UNCHANGED <<pc, cause>>
       ELSE /\ Lowered(x, IF st[x] = "active" THEN 1 ELSE AtKill(x), "job")
            /\ UNCHANGED job
    /\ Idle
    /\ UNCHANGED <<config, version, goal, past, left>>

\* Restart= after what brought x down
Restarts(x) ==
    /\ job[x] # "stop"
    /\ \/ cause[x] \in {"crash", "failed"} /\ U(x).restart \in {"on-failure", "always"}
       \/ cause[x] = "exit" /\ U(x).restart = "always"

Settle(x) ==
    /\ st' = [st EXCEPT ![x] = IF Restarts(x) THEN "waiting" ELSE "inactive"]
    /\ pc' = [pc EXCEPT ![x] = 0]
    /\ job' = CASE job[x] = "restart"                        -> [job EXCEPT ![x] = "start"]
                [] job[x] = "stop"                           -> [job EXCEPT ![x] = "none"]
                [] job[x] = "start" /\ cause[x] = "failed"   -> FailedJobs(x)
                [] job[x] = "start" /\ cause[x] # "failed"   -> job
                [] job[x] = "none"                           -> job

StepStop(x) ==
    /\ st[x] = "stopping"
    /\ Take(x, StopSteps(x)[pc[x]])
    /\ IF pc[x] = Len(StopSteps(x))
       THEN Settle(x)
       ELSE pc' = [pc EXCEPT ![x] = @ + 1] /\ UNCHANGED <<st, job>>
    /\ UNCHANGED <<config, version, cause, goal>>

-----------------------------------------------------------------------------
(* What happens to the units from outside.                                 *)

Fall(x, from, why) ==
    /\ st[x] = "active" /\ job[x] = "none"
    /\ Fault
    /\ Lowered(x, from, why)
    /\ job' = BoundStops(x)
    /\ UNCHANGED <<config, version, host, loaded, goal>>

\* The guest powers off, the container's process ends.
Exit(x) ==
    /\ x \in PayloadUnits(config)
    /\ Fall(x, 1, "exit")
    /\ running' = running \ {x}

HasProcess(x) == x \in PayloadUnits(config) \cup Sidecars \cup {"broker"} \cup config.tags

\* A process dies.  What dies of a container may be the podman client alone.
Crash(x) ==
    /\ HasProcess(x)
    /\ Fall(x, AtKill(x), "crash")
    /\ \/ running' = running \ {x}
       \/ Detached(config) /\ UNCHANGED running

\* The payload's connections hit TriggerLimitBurst=: the socket fails until it
\* is started again.
Trip(x) ==
    /\ U(x).socket /\ running # {}
    /\ Fall(x, AtKill(x), "crash")
    /\ UNCHANGED running

\* The payload's first connection or query, the timer's next tick.  Only a stop
\* job of the socket suppresses it; after a restart job it waits.
Trigger(x) ==
    /\ x \in DOMAIN Triggers
    /\ st[x] = "active" /\ job[x] # "stop"
    /\ U(x).socket => running # {}
    /\ st[Triggers[x]] = "inactive" /\ job[Triggers[x]] = "none"
    /\ job' = StartJobs(Triggers[x])
    /\ past' = [past EXCEPT !.early = @ \/ (x = "resolve.socket" /\ job[x] = "restart")]
    /\ Idle
    /\ UNCHANGED <<config, version, st, pc, cause, goal, left>>

\* RestartSec= is over.  A start given in the meantime has waited for it.
AutoRestart(x) ==
    /\ st[x] = "waiting" /\ job[x] \in {"none", "start"}
    /\ job' = RestartJobs(x)
    /\ Idle
    /\ UNCHANGED <<config, version, st, pc, cause, goal, past, left>>

-----------------------------------------------------------------------------
(* The commands.  systemctl enqueues; no command waits for another.  The   *)
(* retry of restart_workload_service is one more command; there is no      *)
(* start limit, and so nothing for its reset-failed to clear.              *)

Quiet == \A x \in Units : job[x] = "none" /\ st[x] \in {"inactive", "active"}

Command(verb, jobs) ==
    /\ Spend("commands")
    /\ job' = jobs
    /\ goal' = [verb |-> verb, version |-> version]
    /\ cause' = [x \in Units |->    \* a stop replaces the start that was failing
                    IF jobs[x] = "stop" /\ cause[x] = "failed" THEN "job" ELSE cause[x]]
    /\ past' = [past EXCEPT !.overlap = @ \/ (verb = "recreate" /\ ~Quiet)]
    /\ Idle
    /\ UNCHANGED <<config, version, st, pc>>

\* cmd_start, and the generator's enqueue_starts at boot
Start == Command("start", StartJobs("main"))

\* cmd_stop
Stop == Command("stop", StopJobs({"main"}))

\* cmd_restart; what cmd_edit does after it has written the file
Restart == Command("restart", RestartJobs("main"))

\* The part of cmd_recreate, and of cmd_edit of a VM, that is not Restart: before
\* the workload the setup service is restarted, and a refusal is ignored.
Recreate ==
    /\ st["setup"] = "active"
    /\ Accepted("setup")
    /\ Command("recreate", RestartJobs("setup"))

\* cmd_edit's own write
Edit ==
    /\ Spend("edits")
    /\ version' = version + 1
    /\ UNCHANGED <<config, st, job, pc, cause, goal, past>>
    /\ Idle

Next ==
    \/ \E x \in Units :
        \/ BeginStart(x) \/ StepStart(x) \/ FailStart(x)
        \/ BeginStop(x) \/ StepStop(x)
        \/ Exit(x) \/ Crash(x) \/ Trip(x) \/ Trigger(x) \/ AutoRestart(x)
    \/ Start \/ Stop \/ Restart \/ Recreate \/ Edit

Spec == Init /\ [][Next]_vars

-----------------------------------------------------------------------------
(* Properties.                                                             *)

TypeOK ==
    /\ config \in Configs
    /\ version \in Nat
    /\ st \in [DOMAIN Table[config] -> {"inactive", "starting", "active", "stopping", "waiting"}]
    /\ job \in [Units -> {"none", "start", "stop", "restart"}]
    /\ pc \in [Units -> 0..8]
    /\ cause \in [Units -> {"job", "exit", "crash", "failed"}]
    /\ running \subseteq PayloadUnits(config)
    /\ loaded \in [Sidecars -> 0..version]
    /\ host.doc \in 0..version /\ host.static \in 0..version
    /\ \A f \in host.stuck : host[f]

\* The units implement the promise of module Confinement: a payload is only
\* ever started with the workload's uid armed, and the uid is only disarmed,
\* by `filter down` or by the purge of the next `filter up`, when none is left.
\* That rests on which unit carries the hooks (container_egress_exec on the
\* head, _head_unit) and on `podman rm -f` coming before `filter down`.  A pet
\* has no `podman rm -f`: once something has failed its container may outlive its
\* unit, and `filter down` with it, so that nothing is promised of it any more;
\* nor of a container that podman, told to, did not remove.
Orphanable == past.stray \/ (config.pet /\ past.faults)
Abstract == INSTANCE Confinement
    WITH Payloads <- UNION {PayloadUnits(c) : c \in Configs},
         armed <- ~config.inspect \/ host.filtered \/ Orphanable,
         running <- running
Implements == Abstract!Spec

\* The default dependencies order a service after basic.target and that after
\* sockets.target, which a socket with defaults is ordered before.
Targets == {"sockets.target", "basic.target"}

OrderedAfter(c) ==
    [x \in DOMAIN Table[c] \cup Targets |->
        CASE x = "sockets.target" ->
                {y \in DOMAIN Table[c] : Table[c][y].socket /\ Table[c][y].defaults}
          [] x = "basic.target" -> {"sockets.target"}
          [] x \notin Targets ->
                After[c][x] \cup (IF Table[c][x].defaults /\ ~Table[c][x].socket
                                  THEN {"basic.target"} ELSE {})]

Acyclic ==
    [c \in Configs |->
        \A x \in DOMAIN OrderedAfter(c) : x \notin Closure(OrderedAfter(c)[x], OrderedAfter(c))]

\* A transaction that holds all units of a workload, a shutdown, can be
\* ordered: systemd has no cycle to break by deleting a job of its choosing
\* (generate_inspect_socket's DefaultDependencies=no).
OrderingAcyclic == Acyclic[config]

\* The unit that arms the uid and leads the payloads
Lead(c) == IF c.kind \in {"pod", "bridge"} THEN "head" ELSE "main"

\* The payload comes up behind everything its traffic and its disks need: the
\* sockets are bound, the broker has notified, virtiofsd listens when the
\* leading unit begins, and a container of a pod or a bridge runs only behind
\* its head.  A unit that fell over by itself after it was up is excused; one
\* that never came up, or is still on its way, is not (the Requires= and After=
\* of generate_vm_service, generate_system_service and _head_unit).  A recreate
\* that finds units at work is not covered: the `svcaddr down` of a VM that has
\* failed waits for no job and may take the address from the `inspect up` of
\* the recreate, and systemd does not look at Requires= again.
ReadyBeforePayload ==
    [][LET lead == Lead(config)
       IN  /\ st[lead] # "starting" /\ st'[lead] = "starting" /\ ~past.overlap =>
                \A y \in EgressPrereqs(config) \cup config.tags :
                    st[y] = "active" \/ (cause[y] = "crash" /\ job[y] = "none")
           /\ running' \ running # {} => st[lead] \in {"starting", "active"}]_vars

\* A sidecar that is to stay up enforces what the last `inspect up` and
\* `filter up` wrote, never what an earlier start of the workload did
\* (PartOf= of the inspector, StopPropagatedFrom= of the responder).  A recreate
\* that finds units at work is not covered: the restart of the setup service
\* reaches the responder through its Requires= and replaces the propagated stop.
\* Nor is the responder once a payload that was being stopped has asked it
\* something: see ResponderStartsLate.
Current(x) ==
    st[x] = "active" /\ job[x] = "none" /\ ~past.overlap =>
        loaded[x] = IF x = "inspect.service" THEN host.doc ELSE host.static
SidecarsCurrent ==
    \A x \in Sidecars \cap Units : Current(x) \/ (x = "resolve.service" /\ past.early)

\* Not kept: "until the workload's first query, which cannot come before that
\* prestart" (generate_resolve_service).  A query of the payload that is going down
\* finds the responder's socket waiting for its restart, the start it triggers
\* waits for that restart and for nothing else, and the responder reads the static
\* map before `filter up` has written the new one.
ResponderStartsLate == "resolve.service" \in Units => Current("resolve.service")

\* An edited policy applies on a plain restart: once the units have settled
\* after it, with the workload up, the policy in force is at least the one the
\* file held when the command was given, in the document, in the static map
\* and in the memory of both sidecars (of the responder, short of such a query).
RestartApplies ==
    Quiet /\ goal.verb = "restart" /\ st["main"] = "active" /\ config.inspect =>
        /\ host.doc >= goal.version
        /\ config.resolve => host.static >= goal.version
        /\ \A x \in Sidecars :
                \/ loaded[x] = 0 \/ loaded[x] >= goal.version
                \/ x = "resolve.service" /\ past.early

\* Once the units have settled after a stop, nothing of the workload is left on
\* the host: no payload, no armed element, no redirect, no listener address, no
\* exemption and no unit but the two that only prepare it.  What the helpers tried
\* to remove last and could not is left, and a failed `down` of one helper leaves
\* nothing of another's; the container of a pet may be left, when something has
\* failed, and one that podman did not remove.
StopLeavesNothing ==
    Quiet /\ goal.verb = "stop" =>
        /\ running = {} \/ Orphanable
        /\ \A f \in {"filtered", "redirect", "addr", "exempt"} : host[f] => f \in host.stuck
        /\ \A x \in Units \ {"setup", "build"} : st[x] = "inactive"

\* With no failure, a start or restart that has settled has brought the
\* workload up, however it was interleaved with the commands before it.
StartSucceeds ==
    Quiet /\ goal.verb \in {"start", "restart"} /\ ~past.faults =>
        /\ st["main"] = "active"
        /\ running = PayloadUnits(config)

\* The units of every kind of workload can be ordered, keep their sidecars current,
\* and once settled have done what the last command asked.
UnitsAreSound ==
    /\ TypeOK
    /\ OrderingAcyclic
    /\ SidecarsCurrent
    /\ RestartApplies /\ StopLeavesNothing /\ StartSucceeds
=============================================================================
