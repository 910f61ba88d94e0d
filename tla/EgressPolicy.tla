---------------------------- MODULE EgressPolicy ----------------------------
(***************************************************************************)
(* One workload's egress policy, from the instance file to the packet      *)
(* filter.                                                                 *)
(*                                                                         *)
(* The generator validates the file and writes the units, the credential   *)
(* broker's command line baked in.  A start reads the file AGAIN, without  *)
(* validating it: `inspect up` writes the inspector's document and arms    *)
(* the redirect, `filter up` resolves `allow` and arms the uid's filter    *)
(* elements.  A file may be edited between any two of these steps, and a   *)
(* name may resolve differently at every start.                            *)
(*                                                                         *)
(* Both substrates are modelled, a VM's [vm.network] and a container's     *)
(* [network], because they are two hand-written readings of one policy.    *)
(* The inspector, the responder, the broker and the pattern matcher are    *)
(* the moatery package, and nftables is the kernel's: both external.       *)
(*                                                                         *)
(* A file is a record.  A key the file does not carry is Absent, {} or     *)
(* <<>>; a file that spells a key with an empty value is not told apart    *)
(* from one that omits it, except for `methods` and `paths`.               *)
(***************************************************************************)
EXTENDS WorkloadAddr, Sequences

CONSTANTS
    Absent,       \* a key the file does not carry
    None,         \* nothing generated, nothing armed
    Names,        \* the hostnames a connection can name
    Patterns,     \* the well-formed host patterns
    Padded,       \* Padded[s]: the pattern that s spells with blanks around it
    Matches,      \* Matches[p]: the names pattern p matches
    Canon,        \* Canon[p]: p as normalize_hostname spells it, in lower case
                  \* and without the root dot
    Dotted,       \* the patterns that end in the root dot
    Wildcard,     \* Wildcard[p]: "*.p", normalised
    Starred,      \* the patterns with a '*' in them
    Literal,      \* Literal[n]: the pattern that spells the name n
    CredNames,    \* the credential names a file can declare
    Files,        \* the files the workload may be created with
    Edits,        \* the files an operator may edit it into
    MaxEdits,
    Answers,      \* the answers DNS may give: [Patterns -> SUBSET Address]
    Uid, Peers,   \* this workload's uid; uids with a running inspector
    PeerTarget,   \* a destination on every peer's allow list
    Targets,      \* the addresses and ports a packet may be sent to
    Misses,       \* the sets that one step's purges may fail to clear
    MaxMisses

ASSUME PatternAssumption ==
    /\ Matches \in [Patterns -> SUBSET Names]
    /\ Starred \cup Dotted \subseteq Patterns
    /\ \A s \in DOMAIN Padded : s \notin Patterns /\ Padded[s] \in Patterns
    /\ \A n \in Names : n \in Matches[Literal[n]] /\ Literal[n] \notin Starred

ASSUME WorkloadAssumption ==
    /\ {Uid} \cup Peers \subseteq WorkloadUids
    /\ Uid \notin Peers
    /\ Misses \subseteq SUBSET {"filtered", "allow", "internalOk"}

\* getaddrinfo knows no patterns.
ASSUME AnswersAssumption == \A answers \in Answers, p \in Starred : answers[p] = {}

\* An error list is modelled as the set of its complaints.
Complaint(refused, tag) == IF refused THEN {tag} ELSE {}

-----------------------------------------------------------------------------
(* Patterns. *)

\* str.strip
Strip(s) == IF s \in DOMAIN Padded THEN Padded[s] ELSE s

\* validate_host_pattern, of the stripped text: not a string, empty, a URL, a
\* path, a port, "*", outside the alphabet.
PatternRefused(s) == Strip(s) \notin Patterns

\* patterns_overlap and hostname_match, of moatery.inspect_document.
PatternsOverlap(p, q) == Matches[p] \cap Matches[q] # {}
HostnameMatch(p, q) == Matches[p] \subseteq Matches[q]

OverlapsSome(p, ps) == \E q \in ps : PatternsOverlap(p, q)

-----------------------------------------------------------------------------
(* Reading a file: the tolerant readers that the generator and the arming  *)
(* helpers use.                                                            *)

EGRESS_MODES == {"filtered", "open"}
EGRESS_DEFAULT == "filtered"
TLS_MODES == {"inspect", "splice"}
TLS_DEFAULT == "inspect"

Default(value, default) == IF value = Absent THEN default ELSE value

\* POLICY_METHODS, two of them, and the upper-casing of a token.
POLICY_METHODS == {"GET", "POST"}
Upper(token) == IF token = "get" THEN "GET" ELSE token

NotAHost == {"notString", "empty"}

\* .hosts is read as it is spelled, blanks included; the tables are stripped.
Hosts(f) == IF f.kind = "vm" THEN f.hosts ELSE f.hosts \ NotAHost
Readable(entries) == {Strip(e.host) : e \in {x \in entries : x.host \notin NotAHost}}
InternalHosts(f) == Readable(f.internal)
SpliceHosts(f) == Readable(f.splice)

\* parse_policy_entries: an entry with no usable host is skipped.
ReadEntry(e) ==
    [host       |-> Strip(e.host),
     methods    |-> IF e.methods = Absent THEN Absent
                                          ELSE {Upper(t) : t \in e.methods},
     paths      |-> e.paths,
     credential |-> e.credential]

PolicyEntries(f) ==
    LET read == SelectSeq(f.policy, LAMBDA e : e.host \notin NotAHost)
    IN  [i \in DOMAIN read |-> ReadEntry(read[i])]

\* parse_credential_entries keeps a block with a name, a placeholder and an
\* env.  "unnamed" stands for a block that lacks one of the three.
CredentialEntries(f) == SelectSeq(f.credentials, LAMBDA c : c.name # "unnamed")

\* The shape of a container workload.
VALID_WORKLOAD_MODES == {"single", "pod", "bridge"}
InferWorkloadMode(f) ==
    Default(f.mode, IF f.multi THEN "pod" ELSE "single")

ContainerRunsOnHostNetwork(f) ==
    f.netmode = "host" /\ InferWorkloadMode(f) # "bridge"

ContainerUsesInspect(f) ==
    /\ ~ContainerRunsOnHostNetwork(f)
    /\ Hosts(f) # {} \/ PolicyEntries(f) # <<>> \/ f.allow # {}

ContainerUsesResolve(f) ==
    /\ ContainerUsesInspect(f)
    /\ InferWorkloadMode(f) \in VALID_WORKLOAD_MODES \ {"bridge"}
    /\ f.netmode = "pasta"

VmUsesInspect(f) == f.bridge = Absent /\ Default(f.egress, EGRESS_DEFAULT) = "filtered"

VmUsesResolve(f) == VmUsesInspect(f) /\ f.resolver # "none"

UsesInspect(f) == IF f.kind = "vm" THEN VmUsesInspect(f) ELSE ContainerUsesInspect(f)
UsesResolve(f) == IF f.kind = "vm" THEN VmUsesResolve(f) ELSE ContainerUsesResolve(f)

VmUsesCredentials(f) == VmUsesInspect(f) /\ CredentialEntries(f) # <<>>
ContainerUsesCredentials(f) == ContainerUsesInspect(f) /\ CredentialEntries(f) # <<>>

UsesCredentials(f) ==
    IF f.kind = "vm" THEN VmUsesCredentials(f) ELSE ContainerUsesCredentials(f)

\* A container that governs no request has nothing to decrypt for.
ContainerEffectiveTlsMode(f) ==
    Default(f.tls, IF PolicyEntries(f) # <<>> THEN "inspect" ELSE "splice")

EffectiveTls(f) ==
    IF f.kind = "vm" THEN Default(f.tls, TLS_DEFAULT) ELSE ContainerEffectiveTlsMode(f)

-----------------------------------------------------------------------------
(* Validation, the checks both substrates make. *)

\* The hosts of `internal` and `splice` entries that pass the pattern check
\* (_validate_host_reason_entries, _validate_host_reason_array).
ValidHosts(entries) == {Strip(e.host) : e \in entries} \cap Patterns

\* The .hosts the validator goes on with, stripped.
ValidatedHosts(f) == {Strip(p) : p \in f.hosts} \cap Patterns

VmHostReasonErrors(entries, key) ==
    Complaint(\E e \in entries : PatternRefused(e.host) \/ ~e.reason, key)

\* validate_credential_entries.  A block is malformed when a value is missing
\* or not usable as a path segment, an environment variable or a header.
CredentialRefused(c) == c.name \notin CredNames \/ c.env = "malformed" \/ c.auth = "malformed"

RESERVED_GUEST_ENV == {"SSL_CERT_FILE"}

CredentialErrors(f) ==
    LET cs == f.credentials
    IN  Complaint(\E i \in DOMAIN cs : CredentialRefused(cs[i]), "credential")
        \cup Complaint(\E i \in DOMAIN cs : cs[i].env \in RESERVED_GUEST_ENV, "env taken")
        \cup Complaint(\E i, j \in DOMAIN cs : i # j /\ cs[i].env = cs[j].env, "one env twice")
        \cup Complaint(\E i, j \in DOMAIN cs : i # j /\ cs[i].name = cs[j].name,
                       "one credential twice")

DeclaredNames(f) == {f.credentials[i].name : i \in DOMAIN f.credentials} \cap CredNames

\* What is wrong with one [[policy]] entry whose host is a pattern.
UsablePath(p) == p \notin {"relative", "query"}

MethodsErrors(e) ==
    Complaint(/\ e.methods # Absent
              /\ e.methods = {} \/ \E t \in e.methods : Upper(t) \notin POLICY_METHODS,
              "methods")

EntryErrors(f, e) ==
    MethodsErrors(e)
    \cup Complaint(/\ e.paths # Absent
                   /\ e.paths = {} \/ \E p \in e.paths : ~UsablePath(p), "paths")
    \cup Complaint(e.credential \notin {Absent} \cup DeclaredNames(f), "undeclared")
    \cup Complaint(e.credential # Absent /\ Strip(e.host) \in Starred, "wildcard credential")

\* The entries the validator goes on with: the ones whose host is a pattern.
ValidEntries(f) ==
    LET kept == SelectSeq(f.policy, LAMBDA e : ~PatternRefused(e.host))
    IN  [i \in DOMAIN kept |-> ReadEntry(kept[i])]

PolicyHosts(f) == {ValidEntries(f)[i].host : i \in DOMAIN ValidEntries(f)}

EntriesErrors(f) ==
    Complaint(\E i \in DOMAIN f.policy : PatternRefused(f.policy[i].host), "host")
    \cup UNION {EntryErrors(f, f.policy[i]) :
                    i \in {j \in DOMAIN f.policy : ~PatternRefused(f.policy[j].host)}}
    \cup Complaint(\E c \in DeclaredNames(f) :
                      \A i \in DOMAIN ValidEntries(f) : ValidEntries(f)[i].credential # c,
                   "unselected credential")

\* The entries that can cover a name entry i covers.
Siblings(es, i) == {j \in DOMAIN es \ {i} : PatternsOverlap(es[i].host, es[j].host)}

\* Mutant of OmittedKeyErrors: only `paths` is asked for.
OmittedPathsErrors(es) ==
    Complaint(\E i \in DOMAIN es : Siblings(es, i) # {} /\ es[i].paths = Absent,
              "overlap with a key omitted")

\* An entry that omits a key admits any value of it, so beside a sibling it
\* would admit everything the sibling narrows.
OmittedKeyErrors(es) ==
    Complaint(\E i \in DOMAIN es : /\ Siblings(es, i) # {}
                                   /\ es[i].methods = Absent \/ es[i].paths = Absent,
              "overlap with a key omitted")

GovernedAndSplicedErrors(f) ==
    Complaint(\E p \in PolicyHosts(f) : OverlapsSome(p, ValidHosts(f.splice)),
              "policy host is spliced")

-----------------------------------------------------------------------------
(* Validation of a VM. *)

\* Two entries that can cover one name select one credential, or neither does.
CredentialClashErrors(es) ==
    Complaint(\E i \in DOMAIN es : \E j \in Siblings(es, i) :
                 es[i].credential # Absent /\ es[i].credential # es[j].credential,
              "overlap with another credential, or none")

DuplicateErrors(es) ==
    Complaint(\E i, j \in DOMAIN es :
                 /\ i # j
                 /\ Canon[es[i].host] = Canon[es[j].host]
                 /\ [es[i] EXCEPT !.host = ""] = [es[j] EXCEPT !.host = ""],
              "one entry twice")

\* _validate_policy
VmPolicyErrors(f, egress) ==
    LET es == ValidEntries(f)
    IN  EntriesErrors(f)
        \cup IF es = <<>> THEN {} ELSE
             Complaint(f.tls = "splice", "policy under splice")
             \cup Complaint(egress # "filtered", "policy when not filtered")
             \cup GovernedAndSplicedErrors(f)
             \cup OmittedKeyErrors(es)
             \cup CredentialClashErrors(es)
             \cup DuplicateErrors(es)

\* _validate_apex_coverage: "*.apex" is on the list, apex is on .hosts, and
\* nothing on the list matches apex.
ApexErrors(hosts, listed, selfAllowlisting, tag) ==
    Complaint(\E apex \in hosts :
                 /\ \E p \in listed : Canon[p] = Wildcard[apex]
                 /\ \/ selfAllowlisting
                    \/ \E p \in listed : /\ Canon[p] = Wildcard[apex]
                                         /\ OverlapsSome(p, hosts)
                 /\ \A p \in listed : ~HostnameMatch(apex, p),
              tag)

\* Mutant of AllowErrors: the range of a written address is left to the arming.
AllowSyntaxErrors(f, egress) ==
    Complaint(\E e \in f.allow :
                 \/ ~e.reason
                 \/ e.at.type = "junk"
                 \/ e.port \notin 1..65535
                 \/ egress = "filtered" /\ e.port \in {80, 443},
              "allow")

\* parse_vm_allow
AllowErrors(f, egress) ==
    Complaint(\E e \in f.allow :
                 \/ ~e.reason
                 \/ e.at.type = "junk"
                 \/ e.port \notin 1..65535
                 \/ egress = "filtered" /\ e.port \in {80, 443}
                 \/ e.at.type = "address" /\ AllowReserved(e.at.address),
              "allow")

\* validate_egress, up to the exception lists.
VmScalarErrors(f, egress) ==
    Complaint(f.egress \notin EGRESS_MODES \cup {Absent}, "egress")
    \cup AllowErrors(f, egress)
    \cup Complaint(\E p \in f.hosts : PatternRefused(p), "hosts")
    \cup Complaint(f.tls \notin TLS_MODES \cup {Absent}, "tls")
    \cup Complaint(f.tls = "splice" /\ ~f.tlsReason, "splice without a reason")
    \cup Complaint(f.tls # "splice" /\ f.tlsReason, "a reason without splice")

\* validate_egress, the exception lists and the policy.
VmExceptionErrors(f, egress) ==
    LET hosts == ValidatedHosts(f)
    IN  VmHostReasonErrors(f.internal, "internal")
        \cup VmHostReasonErrors(f.splice, "splice")
        \cup Complaint(\E p \in ValidHosts(f.splice) : ~OverlapsSome(p, hosts),
                       "splice excepts nothing")
        \cup CredentialErrors(f)
        \cup VmPolicyErrors(f, egress)
        \cup ApexErrors(hosts, ValidHosts(f.splice), FALSE, "apex not spliced")
        \cup ApexErrors(hosts, PolicyHosts(f), TRUE, "apex not governed")
        \cup Complaint(\E p \in ValidHosts(f.internal) :
                          ~OverlapsSome(p, hosts \cup PolicyHosts(f)),
                       "internal excepts nothing")

\* The egress keys a file states.
EgressKeys(f) ==
    {key \in {"egress", "tls"} : f[key] # Absent}
    \cup {key \in {"hosts", "allow", "internal", "splice"} : f[key] # {}}
    \cup {key \in {"policy", "credentials"} : f[key] # <<>>}
    \cup {key \in {"tlsReason"} : f[key]}

NoResolverErrors(f, egress) ==
    Complaint(/\ egress = "filtered"
              /\ f.resolver = "none"
              /\ \/ f.hosts # {} \/ PolicyHosts(f) # {}
                 \/ ValidHosts(f.internal) # {} \/ ValidHosts(f.splice) # {}
                 \/ \E e \in f.allow : e.at.type = "name",
              "names and no resolver")

\* validate_egress, from the bridge check to the end.
VmModeErrors(f, egress) ==
    IF f.bridge # Absent
    THEN Complaint(EgressKeys(f) # {}, "a bridge has no egress policy")
    ELSE Complaint(egress = "filtered" /\ f.allow = {} /\ f.hosts = {}
                      /\ PolicyHosts(f) = {}, "filtered and reaches nothing")
         \cup Complaint(egress = "open" /\ f.hosts # {}, "hosts when open")
         \cup Complaint(/\ egress # "filtered"
                        /\ EgressKeys(f) \cap {"tls", "tlsReason", "internal", "splice"} # {},
                        "inspection keys when open")
         \cup NoResolverErrors(f, egress)

\* An egress mode that is not one is complained of and read as the default.
ValidateEgress(f) ==
    LET egress == IF f.egress \in EGRESS_MODES THEN f.egress ELSE EGRESS_DEFAULT
    IN  VmScalarErrors(f, egress) \cup VmExceptionErrors(f, egress) \cup VmModeErrors(f, egress)

\* validate_vm_network.  `retired` is a key of an older schema.
PortErrors(f) ==
    Complaint(\E p \in f.ports :
                 \/ p.type = "junk"
                 \/ p.type = "address" /\ ReservedRange(p.address) # {},
              "ports")

ValidateVmNetwork(f) ==
    Complaint(f.bridge = "malformed", "bridge")
    \cup PortErrors(f)
    \cup Complaint(f.ports # {} /\ f.bridge # Absent, "ports on a bridge")
    \cup Complaint(f.retired, "retired key")
    \cup Complaint(f.resolver \notin {Absent, "host", "none"}, "resolver")
    \cup ValidateEgress(f)

-----------------------------------------------------------------------------
(* Validation of a container. *)

\* The keys that cannot be combined with the host's network.
HostNetworkKeys(f) ==
    (EgressKeys(f) \cap {"hosts", "policy", "allow", "internal", "splice", "tls", "credentials"})
    \cup {key \in {"caDelivery"} : f[key] # Absent}

\* The [[network.allow]] checks.  Neither the address nor its range is looked
\* at; the arming is the first to read it.
ContainerAllowErrors(f) ==
    Complaint(\E e \in f.allow : e.port \notin 1..65535 \/ e.port \in {80, 443} \/ ~e.reason,
              "allow")

ContainerHostReasonErrors(entries, key) ==
    Complaint(\E e \in entries : PatternRefused(e.host) \/ ~e.reason, key)

ContainerExceptionErrors(f) ==
    LET hosts == ValidatedHosts(f)
    IN  ContainerHostReasonErrors(f.internal, "internal")
        \cup ContainerHostReasonErrors(f.splice, "splice")
        \cup Complaint(\E p \in ValidHosts(f.splice) : ~OverlapsSome(p, hosts),
                       "splice excepts nothing")
        \cup Complaint(\E p \in ValidHosts(f.internal) :
                          ~OverlapsSome(p, hosts \cup PolicyHosts(f)),
                       "internal excepts nothing")

\* The apex check, coded a second time: it compares in lower case, but with the
\* root dot where one is spelled.
ContainerApexErrors(f) ==
    Complaint(\E apex \in ValidatedHosts(f) :
                 /\ \E p \in PolicyHosts(f) : /\ Canon[p] = Wildcard[apex]
                                              /\ p \in Dotted <=> apex \in Dotted
                 /\ \A p \in PolicyHosts(f) : ~HostnameMatch(apex, p),
              "apex not governed")

\* The checks on the entries, coded a second time, and on the policy as a whole.
ContainerEntriesErrors(f) == EntriesErrors(f)

ContainerPolicyErrors(f) ==
    ContainerEntriesErrors(f)
    \cup IF ValidEntries(f) = <<>> THEN {} ELSE
         Complaint(f.tls = "splice", "policy under splice")
         \cup GovernedAndSplicedErrors(f)
         \cup OmittedKeyErrors(ValidEntries(f))
         \cup ContainerApexErrors(f)

\* Decryption needs the CA delivered, and an exemption needs decryption.
ContainerTlsErrors(f) ==
    LET triggered == Hosts(f) # {} \/ ValidEntries(f) # <<>> \/ f.allow # {}
    IN  Complaint(f.tls \notin TLS_MODES \cup {Absent}, "tls")
        \cup Complaint(f.tls = "splice" /\ ~f.tlsReason, "splice without a reason")
        \cup Complaint(f.tls # "splice" /\ f.tlsReason, "a reason without splice")
        \cup Complaint(/\ triggered
                       /\ EffectiveTls(f) = "inspect"
                       /\ \/ f.caDelivery \notin {"env", "mount", "image"}
                          \/ f.caDelivery = "mount" /\ ~f.caPath, "CA not delivered")
        \cup Complaint(f.caPath /\ f.caDelivery # "mount", "CA path without a mount")
        \cup Complaint(EffectiveTls(f) = "splice" /\ ValidHosts(f.splice) # {},
                       "splice exempts from nothing")

ValidateContainerNetwork(f) ==
    Complaint(f.retired, "retired key")
    \cup IF ContainerRunsOnHostNetwork(f) /\ HostNetworkKeys(f) # {}
         THEN {"host network with egress keys"}
         ELSE Complaint(\E p \in f.hosts : PatternRefused(p), "hosts")
              \cup ContainerAllowErrors(f)
              \cup ContainerExceptionErrors(f)
              \cup CredentialErrors(f)
              \cup ContainerPolicyErrors(f)
              \cup ContainerTlsErrors(f)

\* uses_host_userns: a bridge's user namespaces are its members'.
UsesHostUserns(f) == IF InferWorkloadMode(f) = "bridge" THEN f.memberUserns = "host"
                                                        ELSE f.userns = "host"

\* validate_workload_config
ValidateWorkloadConfig(f) ==
    IF f.kind = "vm"
    THEN ValidateVmNetwork(f)
    ELSE Complaint(InferWorkloadMode(f) \notin VALID_WORKLOAD_MODES, "mode")
         \cup ValidateContainerNetwork(f)
         \cup Complaint(f.mode \in {"pod", "bridge"} /\ ~f.multi, "pod without containers")
         \cup Complaint(f.mode = "single" /\ f.multi, "single with containers")
         \cup Complaint(UsesHostUserns(f) /\ ~f.hostUsernsAck, "host user namespace")

-----------------------------------------------------------------------------
(* What is written from a file. *)

VmInspectPolicy(f) ==
    [tls              |-> Default(f.tls, TLS_DEFAULT),
     hosts            |-> Hosts(f),
     internalExpected |-> InternalHosts(f),
     splice           |-> SpliceHosts(f),
     policy           |-> PolicyEntries(f)]

ContainerInspectPolicy(f) ==
    [tls              |-> ContainerEffectiveTlsMode(f),
     hosts            |-> Hosts(f),
     internalExpected |-> InternalHosts(f),
     splice           |-> SpliceHosts(f),
     policy           |-> PolicyEntries(f)]

Document(f) == IF f.kind = "vm" THEN VmInspectPolicy(f) ELSE ContainerInspectPolicy(f)

\* broker_command: one --host per spelling, with the credential of the first
\* entry that spells it so.
BrokerTable(f) ==
    LET es == PolicyEntries(f)
        brokered == {i \in DOMAIN es : es[i].credential # Absent}
        first == {i \in brokered : \A j \in brokered : j < i => es[j].host # es[i].host}
    IN  IF UsesCredentials(f)
        THEN {[host |-> es[i].host, credential |-> es[i].credential] : i \in first}
        ELSE {}

\* The broker (moatery) ends at startup when two rows spell one host.
BrokerRefuses(f) ==
    \E r, s \in BrokerTable(f) : r.host # s.host /\ Canon[r.host] = Canon[s.host]

-----------------------------------------------------------------------------
(* The packet filter. *)

\* INTERNAL_PREFIXES4 and INTERNAL_PREFIXES6, as ranges of the high half; the
\* two narrower than a /16 carry the range of the low half.
WholeRange(first, last) == [first |-> first, last |-> last, lo |-> 0, hi |-> Half - 1]

INTERNAL_PREFIXES4 ==
    {WholeRange(0, 255), WholeRange(2560, 2815), WholeRange(25664, 25727),
     WholeRange(32512, 32767), WholeRange(43518, 43518), WholeRange(44048, 44063),
     WholeRange(49320, 49320),
     [first |-> 49152, last |-> 49152, lo |-> 512, hi |-> 767],
     [first |-> 65535, last |-> 65535, lo |-> 65535, hi |-> 65535]}

\* internal_reserved_reason is the negation.
Internal(a) ==
    \/ a.pre = "local6"
    \/ a.pre = "v4" /\ \E net \in INTERNAL_PREFIXES4 :
                          /\ net.first <= a.hi /\ a.hi <= net.last
                          /\ net.lo <= a.lo /\ a.lo <= net.hi

\* moatery.egress_plane: the ports the redirect takes, and where it sends them.
PLANES == {[guest |-> 80, inspect |-> 8080], [guest |-> 443, inspect |-> 8443]}

\* inspect_element_commands: what one inspector's arming holds, in both tables.
InspectElements(uid) ==
    [map  |-> {[uid |-> uid, port |-> p.guest, to |-> a, toPort |-> p.inspect] :
                  p \in PLANES, a \in InspectAddress(uid)},
     dst  |-> {[uid |-> uid, addr |-> a, port |-> p.inspect] :
                  p \in PLANES, a \in InspectAddress(uid)},
     self |-> {[uid |-> uid, addr |-> a] : a \in InspectAddress(uid)},
     live |-> InspectAddress(uid)]

Mine == InspectElements(Uid)

\* The output chain on the first packet of a connection, rule by rule: the
\* first rule that matches decides.  `sets` holds the elements; a packet carries
\* its uid, whether its socket is in the inspector's cgroup, and where it goes.
OifLo(a) == \/ a.pre = "v4" /\ 32512 <= a.hi /\ a.hi <= 32767
            \/ InNetwork(a, INSPECT_NETWORK) \/ InNetwork(a, INSPECT_ADDR6_PREFIX)

Rule(match, verdict) == [match |-> match, verdict |-> verdict]

\* Mutant of InternalRules: the drop is left to the rules below.
InternalOkRule(sets, p) ==
    << Rule(p.cgroup /\ [uid |-> p.uid, addr |-> p.addr] \in sets.internalOk, "accept") >>

\* The inspector's private destinations: the exempted ones, then the drop.
InternalRules(sets, p) ==
    << Rule(p.cgroup /\ [uid |-> p.uid, addr |-> p.addr] \in sets.internalOk, "accept"),
       Rule(p.cgroup /\ Internal(p.addr), "drop") >>

OutputChain(sets, p) ==
    LET to   == [uid |-> p.uid, addr |-> p.addr, port |-> p.port]
        host == [uid |-> p.uid, addr |-> p.addr]
    IN  << Rule(to \in sets.allow, "accept"),
           Rule(to \in sets.dst, "accept"),
           Rule(host \in sets.self, "drop"),
           Rule(p.uid # 0 /\ p.addr \in sets.live, "drop"),
           Rule(p.cgroup /\ p.port = 53, "accept") >>
        \o InternalRules(sets, p)
        \o << Rule(p.uid \in sets.filtered /\ OifLo(p.addr), "accept"),
              Rule(p.cgroup, "accept"),
              Rule(p.uid \in sets.filtered, "drop"),
              Rule(TRUE, "accept") >>

\* The redirect runs first; the inspector's own sockets are not translated.
Redirect(sets, p) ==
    LET family == IF p.addr.pre = "v4" THEN {"v4"} ELSE Prefixes \ {"v4"}
        to == {m \in sets.map : m.uid = p.uid /\ m.port = p.port /\ m.to.pre \in family}
    IN  IF p.cgroup \/ to = {} THEN p
        ELSE LET m == CHOOSE x \in to : TRUE
             IN  [p EXCEPT !.addr = m.to, !.port = m.toPort]

Accepted(sets, p) ==
    LET chain == OutputChain(sets, p)
        decides == CHOOSE i \in DOMAIN chain :
                      chain[i].match /\ \A j \in 1..(i - 1) : ~chain[j].match
    IN  chain[decides].verdict = "accept"

-----------------------------------------------------------------------------
(* Arming. *)

VARIABLES
    file,      \* the instance file on disk
    edits,     \* how often it was edited
    unit,      \* the file the units in /run were generated from
    phase,     \* "stopped", "running", "failed", or "off" after a poweroff
    inspect,   \* the file `inspect up` read and the exemptions its names resolved
               \* to, while the socket is up
    filter,    \* the file `filter up` read and the destinations its names
               \* resolved to, while the workload runs
    static,    \* the responder's static map: names and addresses
    sets,      \* the elements of the two tables; sets.missed remembers the sets
               \* in which the last purge of the uid left something
    misses     \* how many steps had a purge that failed

vars == <<file, edits, unit, phase, inspect, filter, static, sets, misses>>

Init ==
    /\ file \in Files
    /\ edits = 0
    /\ unit = None
    /\ phase = "stopped"
    /\ inspect = None
    /\ filter = None
    /\ static = {}
    /\ sets = [filtered   |-> Peers,
               allow      |-> {[uid |-> q, addr |-> PeerTarget.addr, port |-> PeerTarget.port] :
                                  q \in Peers},
               internalOk |-> {[uid |-> q, addr |-> BrokerListenAddress(q)] : q \in Peers},
               map        |-> UNION {InspectElements(q).map : q \in Peers},
               dst        |-> UNION {InspectElements(q).dst : q \in Peers},
               self       |-> UNION {InspectElements(q).self : q \in Peers},
               live       |-> UNION {InspectElements(q).live : q \in Peers},
               missed     |-> {}]
    /\ misses = 0

\* owned_elements, internal_ok_uid_elements: whether set x holds something of the uid.
Owns(s, x) == IF x = "filtered" THEN Uid \in s.filtered ELSE \E e \in s[x] : e.uid = Uid

\* Mutant of PurgeUidElements: only the membership is purged.
PurgeFiltered(s, miss) == [s EXCEPT !.filtered = @ \ {Uid}]

\* purge_uid_elements over NFT_SETS.  The sets in `miss` keep their elements and
\* nobody is told: the listing or the delete failed, or nft printed the uid as a
\* user name, which owned_elements, comparing with the number, does not own.
PurgeUidElements(s, miss) ==
    [s EXCEPT !.filtered = IF "filtered" \in miss THEN @ ELSE @ \ {Uid},
              !.allow = IF "allow" \in miss THEN @ ELSE {e \in @ : e.uid # Uid},
              !.missed = (@ \ {"filtered", "allow"})
                            \cup {x \in miss \cap {"filtered", "allow"} : Owns(s, x)}]

\* purge_internal_exemptions: a uid printed either way is matched, and a listing
\* or a delete that fails is passed over.
PurgeInternalExemptions(s, miss) ==
    [s EXCEPT !.internalOk = IF "internalOk" \in miss THEN @ ELSE {e \in @ : e.uid # Uid},
              !.missed = (@ \ {"internalOk"})
                            \cup {x \in miss \cap {"internalOk"} : Owns(s, x)}]

\* Mutant of DeleteInspectElements: the self-dial guard is flushed.
FlushInspectElements(s) ==
    [s EXCEPT !.map = @ \ Mine.map, !.dst = @ \ Mine.dst,
              !.self = {}, !.live = @ \ Mine.live]

DeleteInspectElements(s) ==
    [s EXCEPT !.map = @ \ Mine.map, !.dst = @ \ Mine.dst,
              !.self = @ \ Mine.self, !.live = @ \ Mine.live]

AddInspectElements(s) ==
    [s EXCEPT !.map = @ \cup Mine.map, !.dst = @ \cup Mine.dst,
              !.self = @ \cup Mine.self, !.live = @ \cup Mine.live]

\* vm_allow_resolved, container_allow_resolved: the addresses of one entry.
AllowAddresses(e, answers) ==
    IF e.at.type = "address" THEN {e.at.address} ELSE answers[e.at.name]

\* Whether an entry can be read: vm_allow_resolve parses the table again, while
\* container_allow_resolve finds out only here that an address is none.
VmAllowReads(f, e) == AllowErrors([f EXCEPT !.allow = {e}], "filtered") = {}
ContainerAllowReads(e) == e.at.type # "junk"

\* Whether an entry arms: it reads, its name resolves, and no address of it is
\* reserved.
AllowArms(f, e, answers) ==
    /\ IF f.kind = "vm" THEN VmAllowReads(f, e) ELSE ContainerAllowReads(e)
    /\ AllowAddresses(e, answers) # {}
    /\ \A a \in AllowAddresses(e, answers) : ~AllowReserved(a)

FilterElements(f, answers) ==
    UNION {{[uid |-> Uid, addr |-> a, port |-> e.port] : a \in AllowAddresses(e, answers)} :
               e \in f.allow}

\* resolve_static, from the resolution the elements were built from.
ResolveStatic(f, answers) ==
    UNION {{[host |-> Canon[e.at.name], addr |-> a] : a \in AllowAddresses(e, answers)} :
               e \in {x \in f.allow : x.at.type = "name"}}

\* filter_arm.up, on the sets `s`: whether it succeeds, and what it leaves.
FilterUp(f, answers, s, miss) ==
    LET purged == PurgeUidElements(s, miss)
        armed == [purged EXCEPT !.filtered = @ \cup {Uid},
                                !.allow = @ \cup FilterElements(f, answers)]
        result(ok, new, names) == [ok |-> ok, sets |-> new, static |-> names]
    IN  IF f.kind = "vm" /\ f.bridge # Absent THEN result(TRUE, s, static)
        ELSE IF ~UsesInspect(f) THEN result(TRUE, purged, static)
        ELSE IF \E e \in f.allow : ~AllowArms(f, e, answers) THEN result(FALSE, purged, static)
        ELSE result(TRUE, armed,
                    IF UsesResolve(f) THEN ResolveStatic(f, answers) ELSE static)

\* inspect_arm.up, after the document is written.
InternalAddresses(f, answers) ==
    UNION {answers[p] : p \in InternalHosts(f)}
    \cup IF UsesCredentials(f) THEN {BrokerListenAddress(Uid)} ELSE {}

InternalArms(f, answers) ==
    /\ \A p \in InternalHosts(f) : p \in Patterns /\ answers[p] # {}
    /\ \A a \in InternalAddresses(f, answers) : Internal(a)

InspectUp(f, answers, s, miss) ==
    LET redirected == PurgeInternalExemptions(AddInspectElements(DeleteInspectElements(s)), miss)
        result(ok, new) == [ok |-> ok, sets |-> new]
    IN  IF ~UsesInspect(f) THEN result(TRUE, s)
        ELSE IF ~InternalArms(f, answers) THEN result(FALSE, redirected)
        ELSE result(TRUE, [redirected EXCEPT !.internalOk =
                              @ \cup {[uid |-> Uid, addr |-> a] :
                                         a \in InternalAddresses(f, answers)}])

\* inspect_arm.down and filter_arm.down consult the uid and nothing else.
InspectDown(s, miss) == PurgeInternalExemptions(DeleteInspectElements(s), miss)
FilterDown(s, miss) == PurgeUidElements(s, miss)

\* Whether the generated main unit runs `filter up`.
HasFilterHook(f) == IF f.kind = "vm" THEN f.bridge = Absent ELSE ContainerUsesInspect(f)

-----------------------------------------------------------------------------
(* The steps. *)

\* The sets whose purges may fail in a step; a failure that leaves nothing is none.
Missable == {{}} \cup {m \in Misses : misses < MaxMisses /\ \E x \in m : Owns(sets, x)}

Missing(miss) ==
    /\ miss = {} \/ miss \cap sets'.missed # {}
    /\ misses' = IF miss = {} THEN misses ELSE misses + 1

\* The operator edits the instance file; the substrate does not change.
Edit(f) ==
    /\ edits < MaxEdits
    /\ f.kind = file.kind
    /\ f # file
    /\ file' = f
    /\ edits' = edits + 1
    /\ UNCHANGED <<unit, phase, inspect, filter, static, sets, misses>>

\* generate_workload: a file with errors is skipped, and the units of an earlier
\* generation stay.
Generate ==
    /\ unit # file
    /\ ValidateWorkloadConfig(file) = {}
    /\ unit' = file
    /\ UNCHANGED <<file, edits, phase, inspect, filter, static, sets, misses>>

\* systemctl start.  The inspect socket comes first, and only if it is not
\* listening already; its failure is the main unit's.
StartInspect(answers, miss) ==
    IF UsesInspect(unit) /\ inspect = None
    THEN InspectUp(file, answers, sets, miss)
    ELSE [ok |-> TRUE, sets |-> sets]

InspectAfterStart(answers) ==
    IF UsesInspect(unit) /\ inspect = None
    THEN [from     |-> file,
          resolved |-> IF UsesInspect(file) THEN InternalAddresses(file, answers) ELSE {}]
    ELSE inspect

StartFilter(answers, s, miss) ==
    IF HasFilterHook(unit) THEN FilterUp(file, answers, s, miss)
                           ELSE [ok |-> TRUE, sets |-> s, static |-> static]

Start(answers, miss) ==
    LET i == StartInspect(answers, miss)
        x == StartFilter(answers, i.sets, miss)
    IN  /\ unit # None
        /\ phase # "running"
        /\ phase' = IF i.ok /\ x.ok THEN "running" ELSE "failed"
        /\ sets' = IF ~i.ok THEN InspectDown(i.sets, miss)
                   ELSE IF ~x.ok THEN FilterDown(x.sets, miss) ELSE x.sets
        /\ Missing(miss)
        /\ static' = IF i.ok THEN x.static ELSE static
        /\ inspect' = IF i.ok THEN InspectAfterStart(answers) ELSE None
        /\ filter' = IF i.ok /\ x.ok /\ HasFilterHook(unit)
                     THEN [from     |-> file,
                           resolved |-> IF UsesInspect(file) THEN FilterElements(file, answers)
                                                             ELSE {}]
                     ELSE None
        /\ UNCHANGED <<file, edits, unit>>

\* systemctl stop: the socket is PartOf= the main unit.  ExecStopPost is the one
\* of the units as they are NOW, and a socket that is no longer generated has none
\* and goes on listening.
Stop(miss) ==
    LET s == IF phase = "running" /\ HasFilterHook(unit) THEN FilterDown(sets, miss) ELSE sets
    IN  /\ phase # "stopped"
        /\ phase' = "stopped"
        /\ sets' = IF UsesInspect(unit) /\ inspect # None THEN InspectDown(s, miss) ELSE s
        /\ Missing(miss)
        /\ inspect' = IF UsesInspect(unit) THEN None ELSE inspect
        /\ filter' = None
        /\ UNCHANGED <<file, edits, unit, static>>

\* The guest powers off: the main unit's ExecStopPost runs, the socket's does not.
PowerOff(miss) ==
    /\ phase = "running"
    /\ unit.kind = "vm"
    /\ phase' = "off"
    /\ sets' = IF HasFilterHook(unit) THEN FilterDown(sets, miss) ELSE sets
    /\ Missing(miss)
    /\ filter' = None
    /\ UNCHANGED <<file, edits, unit, inspect, static>>

Next ==
    \/ \E f \in Edits : Edit(f)
    \/ Generate
    \/ \E answers \in Answers, miss \in Missable : Start(answers, miss)
    \/ \E miss \in Missable : Stop(miss)
    \/ \E miss \in Missable : PowerOff(miss)

Spec == Init /\ [][Next]_vars

-----------------------------------------------------------------------------
(* Properties. *)

\* The state is of this shape, and every file in it is of the one substrate.
TypeOK ==
    /\ file.kind \in {"vm", "container"}
    /\ edits \in 0..MaxEdits
    /\ unit # None => unit.kind = file.kind
    /\ phase \in {"stopped", "running", "failed", "off"}
    /\ inspect # None => inspect.from.kind = file.kind
    /\ filter # None => filter.from.kind = file.kind
    /\ sets.filtered \subseteq Peers \cup {Uid}
    /\ \A e \in sets.allow \cup sets.internalOk : e.uid \in Peers \cup {Uid}

\* What the inspector does with a document (moatery): the entries that govern a
\* name, whether it is tunnelled unread, and which requests are let through.
Governing(doc, n) == {i \in DOMAIN doc.policy : n \in Matches[doc.policy[i].host]}
Spliced(doc, n) == doc.tls = "splice" \/ \E p \in doc.splice : n \in Matches[p]
Lets(e, method, path) == /\ e.methods = Absent \/ method \in e.methods
                         /\ e.paths = Absent \/ path \in e.paths
Permits(doc, n, method, path) ==
    \E i \in Governing(doc, n) : Lets(doc.policy[i], method, path)

\* A name that a [[policy]] entry governs is never tunnelled past the inspector:
\* in an accepted file no `tls` and no `splice` entry exempts it, so the stated
\* methods and paths are enforced (_validate_policy, validate_container_network).
GovernedNeverSpliced ==
    unit # None => \A n \in Names : Governing(Document(unit), n) # {} => ~Spliced(Document(unit), n)

\* Adding an entry never lifts another's restriction by leaving a key out: where
\* some entry narrows a name to listed methods, every permitted method is on a
\* list some entry of that name states; the same for paths (the siblings rule).
NarrowedStaysNarrow ==
    unit # None =>
        LET doc == Document(unit)
            stated(n, key) == {i \in Governing(doc, n) : doc.policy[i][key] # Absent}
            listed(n, key) == UNION {doc.policy[i][key] : i \in stated(n, key)}
        IN  \A n \in Names, m \in POLICY_METHODS, p \in {"/v1", "/v2"} :
                Permits(doc, n, m, p) =>
                    /\ stated(n, "methods") # {} => m \in listed(n, "methods")
                    /\ stated(n, "paths") # {} => p \in listed(n, "paths")

\* An apex on .hosts is governed whenever its wildcard is: no accepted file
\* restricts every name under a domain and leaves the domain itself open
\* (_validate_apex_coverage).  Excepted is a container's file that spells the root
\* dot on one of the two and not on the other, which its own check takes for two
\* domains (container_validate.py:476).
ApexIsGoverned ==
    unit # None =>
        \A n \in Names :
            LET doc == Document(unit)
                apex == Literal[n]
                policy == {doc.policy[i].host : i \in DOMAIN doc.policy}
                seen(p, q) == unit.kind = "vm" \/ (Strip(p) \in Dotted <=> q \in Dotted)
            IN  (\E p \in doc.hosts, q \in policy : /\ Canon[Strip(p)] = Canon[apex]
                                                    /\ Canon[q] = Wildcard[apex]
                                                    /\ seen(p, q))
                => Governing(doc, n) # {}

\* The document and the broker's table agree on the credential of every name:
\* all the entries that govern a name select the same credential, or none, and
\* every --host row that matches the name carries that one.  A broker that does
\* not start attaches nothing.
CredentialAgrees(f) ==
    LET doc == Document(f)
        selected(n) == {doc.policy[i].credential : i \in Governing(doc, n)}
        attached(n) == {r.credential : r \in {x \in BrokerTable(f) : n \in Matches[x.host]}}
    IN  \A n \in Names : /\ \A c, d \in selected(n) : c = d
                         /\ BrokerRefuses(f) \/ attached(n) = selected(n) \ {Absent}

\* A VM's broker substitutes exactly the credential its policy selects
\* (_validate_policy against broker_command), or does not start: an accepted file
\* may spell one host in two ways, and then its broker refuses the command line.
VmCredentialAgrees == unit # None /\ unit.kind = "vm" => CredentialAgrees(unit)

\* The validator and the tolerant readers see the same policy in an accepted
\* file: nothing the validator skipped or normalised reaches the inspector, the
\* responder or the broker in another form (two parsers of one file).  Only of
\* .hosts does the inspector get the spelling, where the validator judged it
\* stripped (vm_allowed_hosts, container_allowed_hosts).
RenderedIsValidated ==
    unit # None =>
        /\ PolicyEntries(unit) = ValidEntries(unit)
        /\ {Strip(p) : p \in Hosts(unit)} = ValidatedHosts(unit)
        /\ InternalHosts(unit) = ValidHosts(unit.internal)
        /\ SpliceHosts(unit) = ValidHosts(unit.splice)
        /\ {CredentialEntries(unit)[i].name : i \in DOMAIN CredentialEntries(unit)}
              = DeclaredNames(unit)

\* A VM file that names hosts gets a responder to resolve them, and a VM file
\* that is not inspected states no key an inspector would have to honour
\* (validate_egress against vm_uses_inspect and vm_uses_resolve).
VmKeysTakeEffect ==
    unit # None /\ unit.kind = "vm" =>
        /\ UsesInspect(unit) /\ (unit.hosts # {} \/ unit.policy # <<>>) => UsesResolve(unit)
        /\ ~UsesInspect(unit) => EgressKeys(unit) \subseteq {"egress", "allow"}

\* No published port of a VM shadows an address derived for any workload, its
\* own or another's (validate_vm_network against the derivations).
PortsNeverShadow ==
    unit # None /\ unit.kind = "vm" =>
        \A p \in unit.ports, uid \in Peers \cup {Uid} :
            p.type = "address" =>
                p.address \notin {DerivedAddress(row, uid) : row \in Rows} \cup InspectAddress(uid)

\* What validation accepts means what it says: in the policy the inspector is
\* given, in the broker's table, in the responder and in the derived addresses.
AcceptedMeansWhatItSays ==
    /\ TypeOK
    /\ GovernedNeverSpliced /\ NarrowedStaysNarrow /\ ApexIsGoverned
    /\ RenderedIsValidated /\ VmCredentialAgrees /\ VmKeysTakeEffect /\ PortsNeverShadow

\* What DNS can answer that fails a start: a name does not resolve, an `allow`
\* name resolves into the inspectors' range, an `internal` one to an address that
\* is not internal.  A wildcard is not a name.
BadAnswers(f, answers) ==
    \/ \E p \in InternalHosts(f) \ Starred :
          answers[p] = {} \/ \E a \in answers[p] : ~Internal(a)
    \/ \E e \in f.allow : /\ e.at.type = "name"
                          /\ \/ answers[e.at.name] = {}
                             \/ \E a \in answers[e.at.name] : AllowReserved(a)

\* A wildcard among the `internal` hosts: validation accepts it when it covers an
\* allowlisted name (vm_egress_validate.py:699-705), and inspect_arm.up hands it
\* to getaddrinfo.
WildcardInternal(f) == InternalHosts(f) \cap Starred # {}

\* Once the units are of the file on disk, a VM's start fails on what DNS answers
\* and on one thing the file says, a wildcard `internal` host, on which it fails
\* every time.  Nothing else that validation let through fails at boot, and
\* neither of the two leaves the workload running half armed.
VmStartFailsOnlyOnDns ==
    [][\A answers \in Answers, miss \in Missable :
          /\ unit = file
          /\ unit.kind = "vm"
          /\ Start(answers, miss)
          => /\ phase' = "failed" => BadAnswers(file, answers) \/ WildcardInternal(file)
             /\ UsesInspect(file) /\ WildcardInternal(file) /\ inspect = None => phase' = "failed"
             /\ phase' = "failed" => filter' = None]_vars

\* The elements of this workload in one of the sets.
Armed(set) == {e \in sets[set] : e.uid = Uid}

\* What is armed is a function of the file the start read and the answers it got,
\* and of nothing armed before: no element of an entry that was edited away or
\* of an address a name used to have survives into the next start.  Excepted are
\* the sets whose purge failed, until a later one succeeds: a purge whose listing
\* or delete fails, or that meets a user name for the uid, warns at most, and `up`
\* adds beside what is left (nft.py:98-112, 129-137).
ArmedIsConfig ==
    /\ filter # None =>
          /\ filter.resolved \subseteq Armed("allow")
          /\ "allow" \notin sets.missed => Armed("allow") = filter.resolved
    /\ inspect # None =>
          LET exempt == {e.addr : e \in Armed("internalOk")}
          IN  /\ inspect.resolved \subseteq exempt
              /\ "internalOk" \notin sets.missed => exempt = inspect.resolved

\* The responder sends the guest only to addresses the filter lets through: both
\* come from one resolution.
ResponderAgreesWithFilter ==
    filter # None /\ UsesResolve(filter.from) =>
        \A s \in static :
            \E e \in filter.from.allow :
                /\ e.at.type = "name"
                /\ Canon[e.at.name] = s.host
                /\ [uid |-> Uid, addr |-> s.addr, port |-> e.port] \in sets.allow

\* filter_arm and inspect_arm: what is armed and what the responder serves are of
\* one file and one resolution.
ArmedAgrees == ArmedIsConfig /\ ResponderAgreesWithFilter

\* The packets the workload, or its inspector, may send.
Packets == {[uid |-> Uid, cgroup |-> c, addr |-> t.addr, port |-> t.port] :
               c \in BOOLEAN, t \in Targets}

\* Whatever the file says, validated or not, no packet of the workload reaches
\* another workload's inspector, where it would be judged by, and would carry
\* the credentials of, the other's policy.
InspectorsIsolated ==
    \A p \in Packets :
        LET q == Redirect(sets, p)
        IN  (\E peer \in Peers : q.addr \in InspectAddress(peer)) => ~Accepted(sets, q)

\* While it is filtered the workload reaches this host's own addresses and what
\* its file lists, and its inspector reaches no private address but the ones
\* `internal` names, its broker, and the resolvers.  Excepted is what a failed
\* purge left armed, see ArmedIsConfig.
ReachIsListed ==
    filter # None /\ UsesInspect(filter.from) /\ sets.missed \subseteq {"filtered"} =>
        \A p \in Packets :
            LET q == Redirect(sets, p)
                listed == [uid |-> Uid, addr |-> q.addr, port |-> q.port]
                             \in filter.resolved
            IN  Accepted(sets, q) =>
                   \/ listed
                   \/ ~q.cgroup /\ OifLo(q.addr)
                   \/ q.cgroup /\ (~Internal(q.addr) \/ q.port = 53)
                   \/ /\ q.cgroup
                      /\ inspect # None
                      /\ q.addr \in inspect.resolved

\* While it is inspected, every web connection the workload opens is sent to its
\* own inspector, whatever address it dials and whatever `allow` says.
WebIsInspected ==
    phase = "running" /\ inspect # None /\ UsesInspect(inspect.from) =>
        \A p \in Packets :
            ~p.cgroup /\ p.port \in {80, 443} => Redirect(sets, p).addr \in InspectAddress(Uid)

\* Where the packets of the workload and of its inspector can get to, in every
\* state of the sets (the ruleset of nft.py).
ReachIsConfined == InspectorsIsolated /\ ReachIsListed /\ WebIsInspected

\* No step of one workload adds or removes another's elements.
PeersUntouched ==
    [][/\ sets'.filtered \ {Uid} = sets.filtered \ {Uid}
       /\ \A s \in {"allow", "internalOk", "map", "dst", "self"} :
             {e \in sets'[s] : e.uid # Uid} = {e \in sets[s] : e.uid # Uid}
       /\ sets'.live \ InspectAddress(Uid) = sets.live \ InspectAddress(Uid)]_vars

-----------------------------------------------------------------------------
(* What the sources say and the code does not keep; see README.md.           *)

\* broker_command: "two entries for one host cannot name different credentials".
\* Nothing refuses them in a container's file.
ContainerCredentialAgrees == unit # None /\ unit.kind = "container" => CredentialAgrees(unit)

\* docs/agent-broker.md:533-541: two spellings of one host are a startup error of
\* the broker, and "`validate` catches the TOML-side versions before the generator
\* writes a unit".  It does not.
BrokerStarts == unit # None => ~BrokerRefuses(unit)

\* nft.py:80-82: the purge "makes the armed state a function of the config ALONE".
\* It warns, or says nothing, where it fails.
ArmedIsConfigAlone == filter # None => Armed("allow") = filter.resolved

\* tests/test_egress.py:2905-2927: a wildcard `internal` entry over an allowlisted
\* name is "a working config".  Its workload never starts.
WildcardInternalStarts ==
    phase = "failed" /\ unit = file /\ unit.kind = "vm" => ~WildcardInternal(unit)

\* A container whose file and units carry no [network] trigger runs unfiltered.  The
\* unit regenerated without the trigger has no `filter down` either.
UntriggeredIsUnfiltered ==
    /\ phase = "running"
    /\ filter = None
    /\ unit = file
    /\ unit.kind = "container"
    /\ ~UsesInspect(unit)
    => Uid \notin sets.filtered
=============================================================================
