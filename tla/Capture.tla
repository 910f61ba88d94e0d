------------------------------ MODULE Capture ------------------------------
(***************************************************************************)
(* A packet capture: the transient unit workload-pcap-<name>.service, whose *)
(* process (run) installs the taps, waits, and takes them down in its      *)
(* finally, and whose ExecStopPost (cleanup) takes them down again however *)
(* the process ended.                                                      *)
(*                                                                         *)
(* The host tap is a log rule in each of two nftables chains that all the  *)
(* captures share; every nft call is a step of its own.  The guest tap of a *)
(* VM is an object in QEMU that writes a staging file.                     *)
(***************************************************************************)
EXTENDS VmControl

VARIABLES
    cap,        \* the capture unit of each workload
    chains,     \* the capture chains there are in the table
    rules,      \* the log rules: <<workload, chain>>
    stage,      \* the capture each VM's staging file was created for, 0: no file
    captures    \* how many captures were started

captureVars == <<cap, chains, rules, stage, captures>>

PCAP_CHAINS == <<"pcap_output", "pcap_input">>

VANTAGES == {"host", "guest"}

\* The chains a direction installs a rule in, in order.
DirectionChains(direction) ==
    CASE direction = "out" -> <<PCAP_CHAINS[1]>>
      [] direction = "in" -> <<PCAP_CHAINS[2]>>
      [] direction = "inout" -> PCAP_CHAINS

\* The rules a capture installs: create each chain if absent, then add its rule.
PcapRuleCommands(direction) ==
    LET c == DirectionChains(direction)
    IN  [i \in 1..(2 * Len(c)) |->
            [verb |-> IF i % 2 = 1 THEN "add_chain" ELSE "add_rule",
             chain |-> c[(i + 1) \div 2]]]

\* A direction is honoured by every vantage but the guest side of a VM.
ValidRequest(w, vantages, direction) ==
    direction = "inout" \/ w \in Containers \/ "guest" \notin vantages

\* No capture unit.
Idle == [pc |-> "idle", id |-> 0, vantages |-> {}, todo |-> <<>>,
         object |-> FALSE, reader |-> FALSE, chain |-> 1, post |-> FALSE]

Goto(w, pc) == cap' = [cap EXCEPT ![w].pc = pc]

\* The finally of run starts, with what was installed so far; the object of a
\* tap that guest_vm_up never returned is not known to it.
Unwind(w) ==
    cap' = [cap EXCEPT ![w].pc = IF cap[w].object THEN "guest_down"
                                                  ELSE "terminate"]

\* The process is gone, and ExecStopPost starts with its own host_down.
Cleanup(w) ==
    cap' = [cap EXCEPT ![w].pc = "delete", ![w].chain = 1, ![w].post = TRUE]

CaptureInit ==
    /\ cap = [w \in Workloads |-> Idle]
    /\ chains = {}
    /\ rules = {}
    /\ stage = [v \in VMs |-> 0]
    /\ captures = 0

-----------------------------------------------------------------------------
(* The run *)

\* `workloadctl pcap`: refused while the workload's capture unit is there.
StartCapture(w, vantages, direction) ==
    /\ cap[w].pc = "idle"
    /\ ValidRequest(w, vantages, direction)
    /\ Spend("captures")
    /\ captures' = captures + 1
    /\ cap' = [cap EXCEPT ![w] =
                  [Idle EXCEPT !.pc = "host_up", !.id = captures + 1,
                               !.vantages = vantages,
                               !.todo = IF "host" \in vantages
                                          THEN PcapRuleCommands(direction)
                                          ELSE <<>>]]
    /\ UNCHANGED <<unit, guest, monitor, tap, skew, data, boots>>
    /\ UNCHANGED <<chains, rules, stage>>

\* The next nft call of host_up.  A rule cannot be added to a chain that is gone.
HostUp(w) ==
    LET next == Head(cap[w].todo)
    IN  /\ cap[w].pc = "host_up"
        /\ IF cap[w].todo = <<>>
             THEN /\ Goto(w, IF "guest" \in cap[w].vantages /\ w \in VMs
                               THEN "guest_up" ELSE "readers")
                  /\ UNCHANGED <<chains, rules>>
             ELSE IF next.verb = "add_rule" /\ next.chain \notin chains
             THEN Unwind(w) /\ UNCHANGED <<chains, rules>>
             ELSE /\ cap' = [cap EXCEPT ![w].todo = Tail(@)]
                  /\ chains' = chains \cup {next.chain}
                  /\ rules' = IF next.verb = "add_rule"
                                THEN rules \cup {<<w, next.chain>>} ELSE rules
        /\ UNCHANGED vmVars /\ UNCHANGED <<stage, captures>>

\* Mutant of GuestVmUp: the connection is kept for the capture.
GuestVmUpKeeps(v) ==
    /\ cap[v].pc = "guest_up"
    /\ Reachable(v)
    /\ tap' = [tap EXCEPT ![v] = TRUE]
    /\ monitor' = [monitor EXCEPT ![v] = "capture"]
    /\ stage' = [stage EXCEPT ![v] = IF tap[v] THEN @ ELSE cap[v].id]
    /\ Goto(v, "guest_check")
    /\ UNCHANGED <<unit, guest, skew, data, boots, left>>
    /\ UNCHANGED <<chains, rules, captures>>

\* object-add: QEMU creates the file anew, unless the object is there already,
\* a reply nothing looks at, or (a fault) it cannot create the file.
GuestVmUp(v) ==
    /\ cap[v].pc = "guest_up"
    /\ Reachable(v)
    /\ tap' = [tap EXCEPT ![v] = TRUE]
    /\ \/ tap[v] /\ UNCHANGED <<stage, left>>
       \/ ~tap[v] /\ stage' = [stage EXCEPT ![v] = cap[v].id] /\ UNCHANGED left
       \/ ~tap[v] /\ Spend("faults") /\ UNCHANGED stage
    /\ Goto(v, "guest_check")
    /\ UNCHANGED <<unit, guest, monitor, skew, data, boots>>
    /\ UNCHANGED <<chains, rules, captures>>

\* The monitor does not answer.
GuestVmUpFails(v) ==
    /\ cap[v].pc = "guest_up"
    /\ Unreachable(v)
    /\ Unwind(v)
    /\ UNCHANGED vmVars /\ UNCHANGED <<chains, rules, stage, captures>>

\* guest_vm_up looks for the staged file, and takes the object out again when
\* there is none; then the probe.
GuestCheck(v) ==
    /\ cap[v].pc = "guest_check"
    /\ IF stage[v] # 0
         THEN /\ cap' = [cap EXCEPT ![v].pc = "readers", ![v].object = TRUE]
              /\ UNCHANGED tap
         ELSE /\ Reachable(v) \/ Unreachable(v)
              /\ tap' = [tap EXCEPT ![v] = @ /\ ~Reachable(v)]
              /\ Unwind(v)
    /\ UNCHANGED <<unit, guest, monitor, skew, data, boots, left>>
    /\ UNCHANGED <<chains, rules, stage, captures>>

\* The readers: tcpdump on the nflog group, and in a container's namespace,
\* which takes a running container.
Readers(w) ==
    LET inside == w \in Containers /\ "guest" \in cap[w].vantages
    IN  /\ cap[w].pc = "readers"
        /\ IF inside /\ guest[w] = "off"
             THEN Unwind(w)
             ELSE cap' = [cap EXCEPT ![w].pc = "wait",
                              ![w].reader = inside \/ "host" \in cap[w].vantages]
        /\ UNCHANGED vmVars /\ UNCHANGED <<chains, rules, stage, captures>>

\* A reader exits: its packet count, its namespace, or its own failure.
ReaderExits(w) ==
    /\ cap[w].pc = "wait" /\ cap[w].reader
    /\ Unwind(w)
    /\ UNCHANGED vmVars /\ UNCHANGED <<chains, rules, stage, captures>>

Running == {"host_up", "guest_up", "guest_check", "readers", "wait"}

Unwinding == {"guest_down", "finalize", "terminate", "delete", "relist", "drop"}

\* SIGTERM, from `pcap --stop` or RuntimeMaxSec: SystemExit unwinds the run.
Terminate(w) ==
    /\ cap[w].pc \in Running
    /\ Unwind(w)
    /\ UNCHANGED vmVars /\ UNCHANGED <<chains, rules, stage, captures>>

\* SIGKILL; or SIGTERM to a process that is in its finally already, which
\* SystemExit then leaves.
Killed(w) ==
    /\ cap[w].pc \in Running \cup Unwinding /\ ~cap[w].post
    /\ Spend("kills")
    /\ Cleanup(w)
    /\ UNCHANGED <<unit, guest, monitor, tap, skew, data, boots>>
    /\ UNCHANGED <<chains, rules, stage, captures>>

-----------------------------------------------------------------------------
(* The finally, and the cleanup *)

\* object-del, tolerant of a monitor that does not answer.
ObjectDel(v) ==
    /\ Reachable(v) \/ Unreachable(v)
    /\ tap' = [tap EXCEPT ![v] = @ /\ ~Reachable(v)]
    /\ UNCHANGED <<unit, guest, monitor, skew, data, boots, left>>

GuestVmDown(v) ==
    /\ cap[v].pc = "guest_down"
    /\ ObjectDel(v)
    /\ Goto(v, "finalize")
    /\ UNCHANGED <<chains, rules, stage, captures>>

\* finalize_guest moves the staged file to where it was asked for, or fails to,
\* which leaves the finally.
FinalizeGuest(v) ==
    /\ cap[v].pc = "finalize"
    /\ \/ /\ stage' = [stage EXCEPT ![v] = 0]
          /\ Goto(v, "terminate")
          /\ UNCHANGED left
       \/ /\ Spend("faults")
          /\ Cleanup(v)
          /\ UNCHANGED stage
    /\ UNCHANGED <<unit, guest, monitor, tap, skew, data, boots>>
    /\ UNCHANGED <<chains, rules, captures>>

\* The readers are gone; the counters are read while the rules are there.
TerminateReaders(w) ==
    /\ cap[w].pc = "terminate"
    /\ IF "host" \in cap[w].vantages
         THEN cap' = [cap EXCEPT ![w].reader = FALSE, ![w].pc = "delete"]
         ELSE Cleanup(w)
    /\ UNCHANGED vmVars /\ UNCHANGED <<chains, rules, stage, captures>>

\* host_down goes on to the next chain; after the last one the finally is over,
\* or the cleanup goes on with the object.
NextChain(w) ==
    IF cap[w].chain < Len(PCAP_CHAINS)
      THEN cap' = [cap EXCEPT ![w].pc = "delete", ![w].chain = @ + 1]
      ELSE IF cap[w].post THEN Goto(w, "object") ELSE Cleanup(w)

\* Mutant of HostDelete: every log rule of the chain.
HostDeleteAll(w) ==
    LET chain == PCAP_CHAINS[cap[w].chain]
    IN  /\ cap[w].pc = "delete"
        /\ rules' = {r \in rules : r[2] # chain}
        /\ IF chain \in chains THEN Goto(w, "relist") ELSE NextChain(w)
        /\ UNCHANGED vmVars /\ UNCHANGED <<chains, stage, captures>>

\* host_down: the handles of this workload's log rules in the chain, deleted.
HostDelete(w) ==
    LET chain == PCAP_CHAINS[cap[w].chain]
    IN  /\ cap[w].pc = "delete"
        /\ rules' = rules \ {<<w, chain>>}
        /\ IF chain \in chains THEN Goto(w, "relist") ELSE NextChain(w)
        /\ UNCHANGED vmVars /\ UNCHANGED <<chains, stage, captures>>

\* Mutant of HostRelist: the chain is left to whoever has another one.
HostRelistOwn(w) ==
    /\ cap[w].pc = "relist"
    /\ NextChain(w)
    /\ UNCHANGED vmVars /\ UNCHANGED <<chains, rules, stage, captures>>

\* host_down: the chain is listed again, and dropped when it holds no rule.
HostRelist(w) ==
    LET chain == PCAP_CHAINS[cap[w].chain]
    IN  /\ cap[w].pc = "relist"
        /\ IF chain \in chains /\ ~\E r \in rules : r[2] = chain
             THEN Goto(w, "drop") ELSE NextChain(w)
        /\ UNCHANGED vmVars /\ UNCHANGED <<chains, rules, stage, captures>>

\* host_down: `nft delete chain`, which takes the rules that are in it by now.
HostDrop(w) ==
    LET chain == PCAP_CHAINS[cap[w].chain]
    IN  /\ cap[w].pc = "drop"
        /\ chains' = chains \ {chain}
        /\ rules' = {r \in rules : r[2] # chain}
        /\ NextChain(w)
        /\ UNCHANGED vmVars /\ UNCHANGED <<stage, captures>>

\* The end of cleanup: the object goes if the monitor answers, and the unit.
CleanupObject(w) ==
    /\ cap[w].pc = "object"
    /\ IF w \in VMs THEN ObjectDel(w) ELSE UNCHANGED vmVars
    /\ cap' = [cap EXCEPT ![w] = Idle]
    /\ UNCHANGED <<chains, rules, stage, captures>>

\* What the unit's processes do, signals and failures aside.
CaptureStep(w) ==
    \/ HostUp(w) \/ Readers(w)
    \/ w \in VMs /\ (GuestVmUp(w) \/ GuestVmUpFails(w) \/ GuestCheck(w)
                        \/ GuestVmDown(w) \/ FinalizeGuest(w))
    \/ TerminateReaders(w)
    \/ HostDelete(w) \/ HostRelist(w) \/ HostDrop(w)
    \/ CleanupObject(w)

CaptureNext ==
    \E w \in left.on :
        \/ \E vantages \in left.vantages, direction \in {"out", "inout"} :
              StartCapture(w, vantages, direction)
        \/ CaptureStep(w)
        \/ ReaderExits(w) \/ Terminate(w) \/ Killed(w)
=============================================================================
