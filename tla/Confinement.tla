---------------------------- MODULE Confinement ----------------------------
(***************************************************************************)
(* What the egress arming promises of one workload, whatever units carry   *)
(* it out: no payload (a guest, a container) runs while the workload's uid *)
(* is not in wl_filtered.  A payload starts only once the uid is armed,    *)
(* and the uid is disarmed only once the last payload is gone.             *)
(***************************************************************************)

CONSTANT Payloads     \* the payloads of the workload

VARIABLES
    armed,            \* whether the packet filter denies the uid by default
    running           \* the payloads alive

vars == <<armed, running>>

Init == armed \in BOOLEAN /\ running = {}

Arm == armed' = TRUE /\ UNCHANGED running

Disarm ==
    /\ running = {}
    /\ armed' = FALSE
    /\ UNCHANGED running

Run(p) ==
    /\ armed
    /\ running' = running \cup {p}
    /\ UNCHANGED armed

End(gone) ==
    /\ running' = running \ gone
    /\ UNCHANGED armed

Next ==
    \/ Arm
    \/ Disarm
    \/ \E p \in Payloads : Run(p)
    \/ \E gone \in SUBSET Payloads : End(gone)

Spec == Init /\ [][Next]_vars

\* No payload is alive unless the uid is armed.
Confined == running # {} => armed
=============================================================================
