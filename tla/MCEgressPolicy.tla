--------------------------- MODULE MCEgressPolicy ---------------------------
(***************************************************************************)
(* Files for EgressPolicy: families around one small VM and one small      *)
(* container, each family varying the keys that are judged together.  The  *)
(* names are a.example ("a"), www.a.example ("www") and b.example ("b");   *)
(* the pattern "A" is a second spelling of "a", "a." a third, with the     *)
(* root dot, and " a" is "a" with a blank before it.                       *)
(***************************************************************************)
EXTENDS EgressPolicy, TLC

McNames == {"a", "www", "b"}
McPatterns == {"a", "A", "a.", "*.a", "www", "b"}
McPadded == [s \in {" a"} |-> "a"]
McDotted == {"a."}
McMatches == [p \in McPatterns |-> CASE p \in {"a", "A", "a."} -> {"a"}
                                     [] p \in {"*.a", "www"} -> {"www"}
                                     [] p = "b" -> {"b"}]
McCanon == [p \in McPatterns |-> IF p \in {"A", "a."} THEN "a" ELSE p]
McWildcard == [p \in McPatterns |-> IF p \in {"a", "A", "a."} THEN "*.a" ELSE "*.other"]
McStarred == {"*.a"}
McLiteral == [n \in McNames |-> n]
McCredNames == {"k1", "k2"}

McUid == 10000
McPeers == {52948}

Public == V4(2056, 2056)            \* 8.8.8.8
Lan(n) == V4(49320, n)              \* 192.168.0.n
PeerInspectors == InspectAddress(52948)
PeerInspector == CHOOSE a \in PeerInspectors : a.pre = "v4"

Resolving(a, b) == [p \in McPatterns |-> CASE p \in {"a", "A", "a."} -> a
                                           [] p = "b" -> b
                                           [] OTHER -> {}]

McAnswers == {Resolving({Public}, {Lan(1)}), Resolving({Lan(1)}, {Lan(2), Public}),
              Resolving({PeerInspector}, {})}

McPeerTarget == [addr |-> Public, port |-> 22]

\* nft prints the user name, or a listing or a delete of one set fails.
McMisses == {{"filtered", "allow"}, {"internalOk"}}

McTargets ==
    [addr : {Public, Lan(1), Lan(2), BrokerListenAddress(52948), BrokerListenAddress(10000)}
               \cup PeerInspectors \cup InspectAddress(10000),
     port : {22, 53, 80, 443, 8080}]

-----------------------------------------------------------------------------
Bare ==
    [kind |-> "vm", bridge |-> Absent, egress |-> Absent, resolver |-> Absent,
     ports |-> {}, hosts |-> {}, allow |-> {}, internal |-> {}, splice |-> {},
     tls |-> Absent, tlsReason |-> FALSE, policy |-> <<>>, credentials |-> <<>>,
     mode |-> Absent, multi |-> FALSE, netmode |-> "pasta", caDelivery |-> Absent,
     caPath |-> FALSE, userns |-> "keep-id", memberUserns |-> "keep-id",
     hostUsernsAck |-> FALSE, retired |-> FALSE]

Vm == [Bare EXCEPT !.hosts = {"a"}]
Container == [Bare EXCEPT !.kind = "container", !.hosts = {"a"}, !.caDelivery = "env"]

Reasoned(p) == [host |-> p, reason |-> TRUE]
ByName(p, port) == [at |-> [type |-> "name", name |-> p], port |-> port, reason |-> TRUE]
ByAddress(a, port) == [at |-> [type |-> "address", address |-> a], port |-> port, reason |-> TRUE]
Credential(name) == [name |-> name, env |-> IF name = "k1" THEN "E1" ELSE "E2", auth |-> Absent]
Entry(host, methods, paths, credential) ==
    [host |-> host, methods |-> methods, paths |-> paths, credential |-> credential]

\* Policies of two entries, with the credentials they select declared.
Unstated == <<Absent, {"/v1"}>>
Narrow == <<{"get"}, {"/v1"}>>
Wide == <<{"POST"}, {"/v1", "/v2"}>>

Entries(rules, creds) ==
    {Entry(h, r[1], r[2], c) : h \in {"a", "A", "*.a", "www"}, r \in rules, c \in creds}

Declaring(f, policy) ==
    LET used == {policy[i].credential : i \in DOMAIN policy} \ {Absent}
    IN  [f EXCEPT !.policy = policy,
                  !.credentials = SelectSeq(<<Credential("k1"), Credential("k2")>>,
                                            LAMBDA c : c.name \in used)]

\* The two credentials are alike, so the second entry need not select k2.
VmPairs == {Declaring(Vm, <<d, e>>) : d \in Entries({Unstated, Narrow, Wide}, {Absent, "k1", "k2"}),
                                      e \in Entries({Unstated, Wide}, {Absent, "k1"})}
ContainerPairs == {Declaring(Container, <<d, e>>) :
                      d \in Entries({Unstated, Narrow, Wide}, {Absent, "k1"}),
                      e \in Entries({Unstated, Wide}, {Absent, "k1"})}

\* One entry beside the lists that must agree with it, and malformed entries.
OneEntry ==
    {[Declaring(f, <<e>>) EXCEPT !.hosts = hs, !.splice = sp, !.internal = int, !.tls = t,
                                 !.tlsReason = (t = "splice"),
                                 !.caDelivery = IF f.kind = "vm" THEN Absent ELSE ca] :
        f \in {Vm, Container},
        e \in {Entry("a", Absent, Absent, Absent), Entry("*.a", {"GET"}, Absent, Absent),
               Entry("www", Absent, {"/v1"}, "k1")},
        hs \in {{}, {"a"}, {"A", "b"}, {"*.a"}, {"a.", " a"}},
        sp \in {{}, {Reasoned("a")}, {Reasoned("*.a")}},
        int \in {{}, {Reasoned("www")}, {Reasoned("*.a")}, {Reasoned("b")}},
        t \in {Absent, "splice"},
        ca \in {Absent, "env"}}

Malformed ==
    {Declaring(f, <<e>>) :
        f \in {Vm, Container},
        e \in {Entry("notString", Absent, Absent, Absent), Entry("url", Absent, Absent, Absent),
               Entry("a", {}, Absent, Absent),
               Entry("a", {"CONNECT"}, Absent, Absent), Entry("a", Absent, {"relative"}, Absent),
               Entry("a", Absent, {}, Absent), Entry("*.a", Absent, Absent, "k1")}}
    \cup {[f EXCEPT !.credentials = cs, !.policy = <<Entry("a", Absent, Absent, "k1")>>] :
        f \in {Vm, Container},
        cs \in {<<>>, <<Credential("k1"), Credential("k2")>>, <<Credential("k1"), Credential("k1")>>,
                <<[Credential("k1") EXCEPT !.env = "SSL_CERT_FILE"]>>,
                <<[Credential("k1") EXCEPT !.auth = "malformed"]>>,
                <<[Credential("k1") EXCEPT !.name = "unnamed"]>>}}
    \cup {[f EXCEPT !.hosts = {"a", bad}] : f \in {Vm, Container}, bad \in {"empty", "url"}}
    \cup {[f EXCEPT !.retired = TRUE] : f \in {Vm, Container}}

\* A VM's modes.
VmModes ==
    {[Vm EXCEPT !.egress = eg, !.tls = IF tr THEN "splice" ELSE Absent, !.tlsReason = tr,
                !.resolver = r, !.bridge = br, !.hosts = hs, !.splice = sp, !.internal = int,
                !.allow = al] :
        eg \in {Absent, "open", "other"}, tr \in BOOLEAN, r \in {Absent, "none"},
        br \in {Absent, "br0"}, hs \in {{}, {"a", "b"}},
        sp \in {{}, {Reasoned("a")}}, int \in {{}, {Reasoned("b")}},
        al \in {{}, {ByName("b", 22)}}}

\* Without a responder.
Resolverless ==
    {[Vm EXCEPT !.hosts = {}, !.resolver = "none", !.allow = al, !.policy = po] :
        al \in {{}, {ByAddress(Public, 22)}},
        po \in {<<>>, <<Entry("b", Absent, Absent, Absent)>>}}

\* A container's modes.
ContainerModes ==
    {[Container EXCEPT !.mode = m, !.multi = mu, !.netmode = net, !.hosts = hs, !.tls = t,
                       !.tlsReason = tr, !.caDelivery = ca, !.caPath = cp] :
        m \in {Absent, "single", "bridge", "other"}, mu \in BOOLEAN,
        net \in {"pasta", "host"}, hs \in {{}, {"a"}}, t \in {Absent, "inspect", "splice"},
        tr \in BOOLEAN, ca \in {Absent, "mount"}, cp \in BOOLEAN}
    \cup {[Container EXCEPT !.userns = u, !.memberUserns = mu, !.mode = m, !.multi = (m # Absent),
                            !.hostUsernsAck = ack] :
        u \in {"keep-id", "host"}, mu \in {"keep-id", "host"}, m \in {Absent, "bridge"},
        ack \in BOOLEAN}

\* Destinations that bypass the inspector, and published ports.
Bypasses ==
    {[f EXCEPT !.allow = {[at |-> at, port |-> port, reason |-> why]}] :
        f \in {Vm, Container},
        at \in {[type |-> "junk"]}
               \cup {ByName(p, 22).at : p \in {"a", "b"}}
               \cup {ByAddress(a, 22).at : a \in {Public, BrokerListenAddress(52948)}
                                                \cup PeerInspectors},
        port \in {0, 22, 443, 65536}, why \in BOOLEAN}

PublishedPorts ==
    {[Vm EXCEPT !.ports = {p}, !.bridge = br, !.hosts = IF br = Absent THEN {"a"} ELSE {}] :
        p \in {[type |-> "any"], [type |-> "junk"]}
              \cup {[type |-> "address", address |-> a] :
                       a \in {Public, ManagementAddress(52948), ManagementAddress(10000),
                              BrokerListenAddress(52948), ResolveAddress(52948)}
                             \cup PeerInspectors},
        br \in {Absent, "br0"}}

McFiles == VmPairs \cup ContainerPairs \cup OneEntry \cup Malformed \cup VmModes \cup Resolverless \cup ContainerModes
           \cup Bypasses \cup PublishedPorts

\* What an operator may edit a file into, valid or not.
McEdits ==
    {[Vm EXCEPT !.allow = {ByName("b", 22)}, !.internal = {Reasoned("a")}],
     [Vm EXCEPT !.allow = {ByAddress(PeerInspector, 8080)}],
     [Bare EXCEPT !.egress = "open"],
     [Bare EXCEPT !.bridge = "br0"],
     [Container EXCEPT !.allow = {ByName("b", 22), ByName("a", 8080)}],
     [Container EXCEPT !.allow = {ByAddress(PeerInspector, 8080)}],
     [Container EXCEPT !.hosts = {}]}
=============================================================================
