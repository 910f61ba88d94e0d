------------------------------ MODULE MCVmSeed -------------------------------
(***************************************************************************)
(* VmSeed with the configurations below.                                   *)
(***************************************************************************)
EXTENDS VmSeed

\* A custom seed that is wired up.
Seed(v, has) == [v |-> v, says |-> has, gives |-> has]

\* The built-in seed of an inspected VM with a volume over its home.
Plain == [custom |-> FALSE, text |-> Seed(0, {}), resolves |-> TRUE, inspect |-> TRUE,
          volume |-> "home", opts |-> FALSE, provides |-> {}]

Custom(has) == [Plain EXCEPT !.custom = TRUE, !.text = Seed(2, has)]

\* What the contracts tell apart: an accepted custom seed, one that cc_ssh would
\* undo, one without the CA and the label of a home, and one that says it sees to
\* the CA and the mounts itself; and one that only mentions ssh_keys and so
\* passes, while cc_ssh undoes it.
MCConfigs ==
    {Plain,
     Custom({"write_files", "keeps", "ca", "mounts", "context"}),
     Custom({"write_files", "ca", "mounts", "context"}),
     Custom({"ssh_keys", "mounts"}),
     [Custom({"ssh_keys"}) EXCEPT !.provides = {"ca", "mounts"}, !.volume = "foreign"],
     [Custom({"ssh_keys", "write_files", "ca", "mounts", "context"}) EXCEPT
         !.text.gives = @ \ {"ssh_keys"}]}
====
