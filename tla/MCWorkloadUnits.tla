-------------------------- MODULE MCWorkloadUnits --------------------------
(***************************************************************************)
(* The workloads whose units are run.                                      *)
(***************************************************************************)
EXTENDS WorkloadUnits

Base == [kind |-> "vm", inspect |-> TRUE, resolve |-> TRUE, credentials |-> FALSE,
         hostBridge |-> FALSE, tags |-> {}, members |-> {}, pet |-> FALSE,
         restart |-> "on-failure"]

MCConfigs ==
    {[Base EXCEPT !.restart = "always"],
     [Base EXCEPT !.resolve = FALSE, !.credentials = TRUE, !.tags = {"tag"}],
     [Base EXCEPT !.resolve = FALSE, !.inspect = FALSE, !.hostBridge = TRUE],
     [Base EXCEPT !.kind = "single", !.credentials = TRUE],
     [Base EXCEPT !.kind = "single", !.resolve = FALSE, !.pet = TRUE],
     [Base EXCEPT !.kind = "pod", !.resolve = FALSE, !.credentials = TRUE, !.members = {"a", "b"}],
     [Base EXCEPT !.kind = "bridge", !.resolve = FALSE, !.members = {"a"}]}

Bound(commands, edits, faults) == [commands |-> commands, edits |-> edits, faults |-> faults]

\* Two commands, an edit and a failure, or for the workloads with the most
\* units, a failure in place of the second command.  A second failure for the
\* workload in which a container can outlive its client and then its removal.
MCBudgets ==
    [c \in MCConfigs |->
        IF c.resolve \/ (c.kind = "vm" /\ ~c.hostBridge)
        THEN {Bound(2, 1, 0), Bound(1, 1, 1)}
        ELSE {Bound(2, 1, 1)} \cup (IF c.kind = "bridge" THEN {Bound(1, 0, 2)} ELSE {})]
=============================================================================
