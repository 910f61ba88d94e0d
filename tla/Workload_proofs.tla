-------------------------- MODULE Workload_proofs --------------------------
(***************************************************************************)
(* What every other part assumes of a workload: for every uid of the       *)
(* workload range the values derived from it are its own and covered by    *)
(* the ranges `ports` and `allow` are checked against; and what            *)
(* implementing Confinement gives a workload, whatever its payloads.       *)
(***************************************************************************)
EXTENDS WorkloadAddr, Confinement, TLAPS

-----------------------------------------------------------------------------
(* The uid-derived values.                                                   *)

(***************************************************************************)
(* A uid of the range is an integer whose offset is at most 42948, and     *)
(* _uid_derived_value's bounds check lets it through.                      *)
(***************************************************************************)
LEMMA UidBounds ==
    ASSUME NEW uid \in WorkloadUids
    PROVE  /\ uid \in Int
           /\ uid - UID_MIN \in Int /\ 0 <= uid - UID_MIN /\ uid - UID_MIN <= 42948
           /\ ~(uid < UID_MIN \/ uid > UID_MAX)
  BY DEF WorkloadUids, UID_MIN, UID_MAX

(***************************************************************************)
(* For a uid of the range the offset never carries out of the low half, so *)
(* a derived address is its base's high half and base plus offset.         *)
(***************************************************************************)
LEMMA DerivedHalves ==
    ASSUME NEW row \in Rows, NEW uid \in WorkloadUids
    PROVE  DerivedAddress(row, uid) =
             [pre |-> "v4", hi |-> Base[row].hi,
              lo |-> Base[row].lo + (uid - UID_MIN)]
<1> DEFINE b == Base[row]
           n == uid - UID_MIN
<1>1. /\ n \in Int /\ 0 <= n /\ n <= 42948
      /\ ~(uid < UID_MIN \/ uid > UID_MAX)
  BY UidBounds
<1>2. /\ b.pre = "v4"
      /\ b.hi \in Int /\ 0 <= b.hi /\ b.hi < 65536
      /\ b.lo \in Int /\ 0 <= b.lo /\ b.lo <= 256
  BY DEF Rows, Base, V4
<1>3. b.lo + n \in Int /\ 0 <= b.lo + n /\ b.lo + n < 65536
  BY <1>1, <1>2
<1>4. (b.lo + n) \div Half = 0 /\ (b.lo + n) % Half = b.lo + n
  BY <1>3 DEF Half
<1>5. (b.hi + 0) % Half = b.hi
  BY <1>2 DEF Half
<1>6. Plus(b, n) = [pre |-> "v4", hi |-> b.hi, lo |-> b.lo + n]
  BY <1>2, <1>4, <1>5 DEF Plus
<1> QED
  BY <1>1, <1>6 DEF DerivedAddress

(***************************************************************************)
(* No two workloads, and no two uses by one workload, derive the same      *)
(* address: uniqueness is inherited from the uid allocator                 *)
(* (workload_addr.py, "no registry ... and no collision").                 *)
(***************************************************************************)
THEOREM DerivedDistinct ==
    ASSUME NEW r \in Rows, NEW s \in Rows,
           NEW u \in WorkloadUids, NEW v \in WorkloadUids,
           DerivedAddress(r, u) = DerivedAddress(s, v)
    PROVE  r = s /\ u = v
<1>1. /\ Base[r].hi = Base[s].hi
      /\ Base[r].lo + (u - UID_MIN) = Base[s].lo + (v - UID_MIN)
  BY DerivedHalves
<1>2. r = s
  BY <1>1 DEF Rows, Base, V4
<1>3. Base[r].lo \in Int
  BY DEF Rows, Base, V4
<1>4. u \in Int /\ v \in Int
  BY ONLY UidBounds, u \in WorkloadUids, v \in WorkloadUids
<1>5. Base[r].lo + (u - UID_MIN) = Base[r].lo + (v - UID_MIN)
  BY <1>1, <1>2
<1>6. u = v
  BY ONLY <1>3, <1>4, <1>5 DEF UID_MIN
<1> QED
  BY <1>2, <1>6

(***************************************************************************)
(* Every derived address, the inspector's IPv6 twin included, falls in a   *)
(* range [vm.network].ports may not bind into (reserved_range).            *)
(***************************************************************************)
THEOREM DerivedReserved ==
    ASSUME NEW u \in WorkloadUids
    PROVE  /\ \A r \in Rows : ReservedRange(DerivedAddress(r, u)) # {}
           /\ \A a \in InspectAddress(u) : ReservedRange(a) # {}
<1>1. ASSUME NEW r \in Rows
      PROVE  \E net \in Reservations(r) : InNetwork(DerivedAddress(r, u), net)
  <2>1. DerivedAddress(r, u).pre = "v4" /\ DerivedAddress(r, u).hi = Base[r].hi
    BY DerivedHalves
  <2>2. CASE r = "inspector"
    <3>1. INSPECT_NETWORK \in Reservations(r)
      BY <2>2 DEF Reservations
    <3>2. InNetwork(DerivedAddress(r, u), INSPECT_NETWORK)
      BY <2>1, <2>2 DEF InNetwork, INSPECT_NETWORK, Base, V4
    <3> QED BY <3>1, <3>2
  <2>3. CASE r # "inspector"
    <3>1. MGMT_NETWORK \in Reservations(r)
      BY <2>3 DEF Reservations
    <3>2. Base[r].hi \in Int /\ 32640 <= Base[r].hi /\ Base[r].hi <= 32642
      BY <2>3 DEF Rows, Base, V4
    <3>3. InNetwork(DerivedAddress(r, u), MGMT_NETWORK)
      BY <2>1, <3>2 DEF InNetwork, MGMT_NETWORK
    <3> QED BY <3>1, <3>3
  <2> QED BY <2>2, <2>3
<1>2. ASSUME NEW r \in Rows
      PROVE  ReservedRange(DerivedAddress(r, u)) # {}
  BY <1>1 DEF ReservedRange, RESERVED_RANGES
<1> DEFINE v4 == DerivedAddress("inspector", u)
           v6 == [pre |-> "inspect6", hi |-> v4.hi, lo |-> v4.lo]
<1>3. ReservedRange(v6) # {}
  <2>1. INSPECT_ADDR6_PREFIX \in RESERVED_RANGES
    BY DEF RESERVED_RANGES, Rows, Reservations
  <2>2. v4 = [pre |-> "v4", hi |-> 50706, lo |-> 256 + (u - UID_MIN)]
    BY DerivedHalves DEF Rows, Base, V4
  <2>3. v6.pre = "inspect6" /\ v6.hi = 50706
    BY <2>2
  <2>4. InNetwork(v6, INSPECT_ADDR6_PREFIX)
    BY <2>3 DEF InNetwork, INSPECT_ADDR6_PREFIX, Half
  <2> QED BY <2>1, <2>4 DEF ReservedRange
<1>4. ReservedRange(v4) # {}
  BY <1>2 DEF Rows
<1> QED
  BY <1>2, <1>3, <1>4 DEF InspectAddress

(***************************************************************************)
(* No `allow` element can name any workload's inspector, in either family, *)
(* and no workload's nflog group is a small number convention uses or      *)
(* leaves the 16-bit group space (allow_reserved_reason, nflog_group).     *)
(***************************************************************************)
THEOREM InspectorNeverAllowed ==
    ASSUME NEW u \in WorkloadUids
    PROVE  /\ \A a \in InspectAddress(u) : AllowReserved(a)
           /\ 1000 <= NflogGroup(u) /\ NflogGroup(u) < Half
<1> DEFINE v4 == DerivedAddress("inspector", u)
           v6 == [pre |-> "inspect6", hi |-> v4.hi, lo |-> v4.lo]
<1>1. v4 = [pre |-> "v4", hi |-> 50706, lo |-> 256 + (u - UID_MIN)]
  BY DerivedHalves DEF Rows, Base, V4
<1>2. v4.pre = "v4" /\ v4.hi = 50706 /\ v6.pre = "inspect6" /\ v6.hi = 50706
  BY <1>1
<1>3. AllowReserved(v4)
  BY <1>2 DEF AllowReserved, InNetwork, INSPECT_NETWORK
<1>4. AllowReserved(v6)
  BY <1>2 DEF AllowReserved, InNetwork, INSPECT_ADDR6_PREFIX, Half
<1>5. 1000 <= NflogGroup(u) /\ NflogGroup(u) < Half
  BY UidBounds DEF NflogGroup, NFLOG_GROUP_BASE, Half
<1> QED
  BY <1>3, <1>4, <1>5 DEF InspectAddress

-----------------------------------------------------------------------------
(* Confinement.                                                              *)

\* The uid of a workload is disarmed (`filter down`) only when no payload of it is
\* alive, and a payload starts only while the uid is armed (`filter up`), so no
\* payload is ever alive outside the packet filter.
THEOREM AlwaysConfined == Spec => []Confined
<1>1. Init => Confined
  BY DEF Init, Confined
<1>2. Confined /\ [Next]_vars => Confined'
  <2> SUFFICES ASSUME Confined, [Next]_vars
               PROVE  Confined'
    OBVIOUS
  <2>1. CASE Arm
    BY <2>1 DEF Arm, Confined
  <2>2. CASE Disarm
    BY <2>2 DEF Disarm, Confined
  <2>3. ASSUME NEW p \in Payloads, Run(p)
        PROVE  Confined'
    BY <2>3 DEF Run, Confined
  <2>4. ASSUME NEW gone \in SUBSET Payloads, End(gone)
        PROVE  Confined'
    BY <2>4 DEF End, Confined
  <2>5. CASE UNCHANGED vars
    BY <2>5 DEF vars, Confined
  <2>6. QED
    BY <2>1, <2>2, <2>3, <2>4, <2>5 DEF Next
<1>3. QED
  BY <1>1, <1>2, PTL DEF Spec
=============================================================================
