---------------------------- MODULE MCOperations ----------------------------
EXTENDS Operations

CONSTANTS aVm, aCt      \* a VM and a container

MCVMs == {aVm}
MCContainers == {aCt}

Host == {"host"}
Guest == {"guest"}
Both == {"host", "guest"}

\* The workloads at work, the vantages a capture may ask for, and how many
\* commands, captures, backups or restores, mounts, guest writes, faults and kills.
Bound(on, vantages, commands, captured, archived, mounted, writes, faults, kills) ==
    [on |-> on, vantages |-> vantages, commands |-> commands,
     captures |-> captured, archives |-> archived, mounts |-> mounted,
     writes |-> writes, faults |-> faults, kills |-> kills]

MCBudgets ==
    {Bound({aVm, aCt}, {Host}, 0, 2, 0, 0, 0, 0, 0),
     Bound({aVm}, {Host, Both}, 0, 1, 0, 0, 0, 1, 1),
     Bound({aCt}, {Guest, Both}, 1, 1, 0, 0, 0, 1, 1),
     Bound({aVm}, {Guest}, 1, 1, 1, 0, 1, 0, 1),
     Bound({aVm}, {Guest}, 1, 1, 1, 0, 0, 1, 0),
     Bound({aVm}, {Guest}, 1, 2, 1, 0, 0, 0, 0),
     Bound({aVm}, {}, 2, 0, 1, 0, 1, 0, 0)}
    \cup UNION {{Bound({w}, {}, 0, 0, 2, 1, 1, 1, 0),
                 Bound({w}, {}, 1, 0, 2, 1, 0, 0, 0),
                 Bound({w}, {}, 1, 0, 1, 0, 1, 1, 1)} : w \in {aVm, aCt}}
=============================================================================
