------------------------------ MODULE MCRunFiles ------------------------------
(***************************************************************************)
(* Instances of RunFiles: one workload, two operators, a container or two,  *)
(* one credential.                                                          *)
(***************************************************************************)
EXTENDS RunFiles, TLC

MCNames == {"web", "db"}

Base == [kind |-> "single", members |-> {}, tags |-> {}, features |-> {},
         refs |-> {}, pet |-> FALSE, valid |-> TRUE]

\* A pet with the secret and a seccomp profile; a pod of two that both
\* have it; a bridge of one of them without it; a text that does not validate; a
\* virtual machine with a volume.
MCConfigs == {
    [Base EXCEPT !.refs = {"main"}, !.features = {"seccomp"}, !.pet = TRUE],
    [Base EXCEPT !.kind = "pod", !.members = {"web", "db"}, !.refs = {"web", "db"}],
    [Base EXCEPT !.kind = "bridge", !.members = {"web"},
                 !.features = {"inspect", "resolve", "broker"}],
    [Base EXCEPT !.valid = FALSE],
    [Base EXCEPT !.kind = "vm", !.tags = {"web"}]}

\* The two operators are alike.
Symmetry == Permutations(Actors)
====
