---------------------------- MODULE WorkloadAddr ----------------------------
(***************************************************************************)
(* Every per-workload value derived from a workload uid                    *)
(* (lib/workload_addr.py): four listener addresses and the nflog group.    *)
(* There is no registry: a value is a base plus the uid's offset into the  *)
(* workload range, and the ranges the values live in are reserved against  *)
(* [vm.network].ports and against `allow`.                                 *)
(*                                                                         *)
(* An IPv4 address is the two 16-bit halves of its number, so that the     *)
(* addition carries exactly as it does on 32 bits; an address of any other *)
(* prefix is told apart by `pre`.  The inspector's IPv6 twin has prefix    *)
(* "inspect6" and the number of its IPv4 address.                          *)
(***************************************************************************)
EXTENDS Integers, FiniteSets

UID_MIN == 10000
UID_MAX == 52948
WorkloadUids == {uid \in Nat : UID_MIN <= uid /\ uid <= UID_MAX}

Half == 65536

\* The prefixes an address may carry: IPv4, the inspector's /48, and every
\* other IPv6 address, private or global.
Prefixes == {"v4", "inspect6", "local6", "global6"}

V4(hi, lo) == [pre |-> "v4", hi |-> hi, lo |-> lo]

\* Integer addition to an IPv4Address, over the two halves.
Plus(a, n) == [pre |-> a.pre,
               hi  |-> (a.hi + (a.lo + n) \div Half) % Half,
               lo  |-> (a.lo + n) % Half]

-----------------------------------------------------------------------------
(* The reserved ranges. *)

\* A range: the prefix and the first and last high half it spans.
MGMT_NETWORK == [pre |-> "v4", first |-> 32640, last |-> 32767]      \* 127.128.0.0/9
INSPECT_NETWORK == [pre |-> "v4", first |-> 50706, last |-> 50706]   \* 198.18.0.0/16
INSPECT_ADDR6_PREFIX == [pre |-> "inspect6", first |-> 0, last |-> Half - 1]

InNetwork(a, net) == a.pre = net.pre /\ net.first <= a.hi /\ a.hi <= net.last

\* The rows of the table: what a value is called, its base, the ranges that
\* cover it.  A row is named by its noun.
Rows == {"management", "broker", "responder", "inspector"}

Base == [management |-> V4(32640, 0),      \* 127.128.0.0
         broker     |-> V4(32641, 0),      \* 127.129.0.0
         responder  |-> V4(32642, 0),      \* 127.130.0.0
         inspector  |-> V4(50706, 256)]    \* 198.18.1.0

Reservations(row) ==
    IF row = "inspector" THEN {INSPECT_NETWORK, INSPECT_ADDR6_PREFIX}
                         ELSE {MGMT_NETWORK}

\* RESERVED_RANGES is computed from the rows, never listed.
RESERVED_RANGES == UNION {Reservations(row) : row \in Rows}

-----------------------------------------------------------------------------
(* The derivations. *)

Underivable == "underivable"

\* _uid_derived_value for the address rows.
DerivedAddress(row, uid) ==
    IF uid < UID_MIN \/ uid > UID_MAX
    THEN Underivable
    ELSE Plus(Base[row], uid - UID_MIN)

ManagementAddress(uid) == DerivedAddress("management", uid)
BrokerListenAddress(uid) == DerivedAddress("broker", uid)
ResolveAddress(uid) == DerivedAddress("responder", uid)

\* inspect_address: the IPv4 address and the twin that embeds it.
InspectAddress(uid) ==
    LET v4 == DerivedAddress("inspector", uid)
    IN  {v4, [pre |-> "inspect6", hi |-> v4.hi, lo |-> v4.lo]}

NFLOG_GROUP_BASE == 1000
NflogGroup(uid) ==
    IF uid < UID_MIN \/ uid > UID_MAX
    THEN Underivable
    ELSE NFLOG_GROUP_BASE + (uid - UID_MIN)

-----------------------------------------------------------------------------
(* The two questions asked of the ranges. *)

\* reserved_range: the ranges a [vm.network].ports bind address falls in.  No
\* reservation of the table names a port.
ReservedRange(a) == {net \in RESERVED_RANGES : InNetwork(a, net)}

\* allow_reserved_reason: may this address appear in `allow`?
AllowReserved(a) ==
    \/ a.pre = "v4" /\ InNetwork(a, INSPECT_NETWORK)
    \/ a.pre # "v4" /\ InNetwork(a, INSPECT_ADDR6_PREFIX)
=============================================================================
