------------------------- MODULE MCContainerUpdate -------------------------
(* Hosts: a pet beside a workload built here, one workload of two containers  *)
(* of which one has a health block, workloads that pull at every start, and   *)
(* one with a container that is never pulled.                                 *)
EXTENDS ContainerUpdate

CONSTANTS c1, c2

MCContainers == {c1, c2}

Missing == [c \in MCContainers |-> "missing"]

Separate == [of |-> [c \in MCContainers |-> c], policy |-> Missing, built |-> {c2},
             pet |-> {c1}, checked |-> {c1, c2}, images |-> 1]
Together == [of |-> [c \in MCContainers |-> c1], policy |-> Missing, built |-> {},
             pet |-> {}, checked |-> {c1}, images |-> 2]

Remote   == [of |-> [c \in MCContainers |-> c],
             policy |-> [c \in MCContainers |-> IF c = c1 THEN "always" ELSE "newer"],
             built |-> {}, pet |-> {c2}, checked |-> {c1}, images |-> 1]
Local    == [of |-> [c \in MCContainers |-> c1],
             policy |-> [c \in MCContainers |-> IF c = c1 THEN "never" ELSE "missing"],
             built |-> {}, pet |-> {}, checked |-> {c1, c2}, images |-> 1]

MCTomls == {Separate, Together, Remote, Local}
MCSeparate == {Separate}
=============================================================================
