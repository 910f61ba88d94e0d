------------------------------ MODULE PcapFile ------------------------------
(***************************************************************************)
(* pcap_shift_timestamps of lib/pcap_file.py, which finalize_guest uses to *)
(* put a guest-side capture on the host's clock: read the header, then one *)
(* record at a time, with the same rule for a torn record as the packet    *)
(* count.                                                                  *)
(*                                                                         *)
(* A file is its magic, its records and its size.  A field is the number   *)
(* its writer put there; reading it in the other byte order gives the      *)
(* number with its four bytes reversed.  Numbers are less than 2^7, so     *)
(* that one byte carries them.                                             *)
(***************************************************************************)
EXTENDS Integers, SequencesExt

CONSTANTS
    Lengths,    \* the payload lengths, positive
    Stamps,     \* the timestamps, in ticks
    MaxPackets, \* the longest capture
    Correction  \* what the timestamps are moved by, either way, in ticks

VARIABLES file, delta, pc, endian, at, next, out

vars == <<file, delta, pc, endian, at, next, out>>

PCAP_GLOBAL_HEADER_LEN == 24
PCAP_RECORD_HEADER_LEN == 16

\* _PCAP_MAGICS, the microsecond pair: the byte order that the file's first four
\* bytes are taken to announce.
PcapMagics == [x \in {<<161, 178, 195, 212>>, <<212, 195, 178, 161>>} |->
                  IF x[1] = 161 THEN "little" ELSE "big"]

\* struct.unpack of an unsigned 32-bit field that holds n < 2^7.
Unpack(as, order, n) == IF as = order THEN n ELSE n * 2^24

\* What a writer of the host's byte order puts first: PCAP_MAGIC, 0xa1b2c3d4.
WriterMagic(order) == IF order = "big" THEN <<161, 178, 195, 212>>
                                       ELSE <<212, 195, 178, 161>>

\* Bytes the records take.
Bytes(records) ==
    FoldSeq(LAMBDA r, n : n + PCAP_RECORD_HEADER_LEN + r.captured, 0, records)

\* The captures of a writer on a host of either byte order, the last record whole
\* or torn by `cut` bytes.
Files ==
    UNION {{[order |-> order, magic |-> WriterMagic(order), records |-> r,
             size |-> PCAP_GLOBAL_HEADER_LEN + Bytes(r) - cut] :
                r \in [1..n -> [stamp : Stamps, captured : Lengths]]} :
             order \in {"little", "big"}, n \in 1..MaxPackets, cut \in {0, 1, 17}}

Init ==
    /\ file \in Files /\ delta \in {-Correction, Correction}
    /\ pc = "header" /\ endian = "little"
    /\ at = 0 /\ next = 1 /\ out = <<>>

\* _read_pcap_header, and the header is copied.
ReadHeader ==
    /\ pc = "header" /\ pc' = "records"
    /\ endian' = PcapMagics[file.magic]
    /\ at' = PCAP_GLOBAL_HEADER_LEN
    /\ UNCHANGED <<file, delta, next, out>>

\* A record's timestamp, moved, and kept at the epoch or after it.
Shifted(stamp, by) == IF stamp + by < 0 THEN 0 ELSE stamp + by

\* One turn of the loop: a short header or a length past the end ends it.
ShiftRecord ==
    LET header == at + PCAP_RECORD_HEADER_LEN
        captured == Unpack(endian, file.order, file.records[next].captured)
    IN  /\ pc = "records"
        /\ IF header > file.size \/ header + captured > file.size
             THEN pc' = "done" /\ UNCHANGED <<at, next, out>>
             ELSE /\ at' = header + captured
                  /\ next' = next + 1
                  /\ out' = Append(out, [stamp |-> Shifted(file.records[next].stamp,
                                                           delta),
                                         captured |-> captured])
                  /\ UNCHANGED pc
        /\ UNCHANGED <<file, delta, endian>>

Next == ReadHeader \/ ShiftRecord

Spec == Init /\ [][Next]_vars

-----------------------------------------------------------------------------

\* The copy has every whole packet of the capture, each moved by delta ("Copy
\* `src` to `dst` with every timestamp moved by `delta` seconds").
ShiftKeepsPackets ==
    pc = "done" =>
        LET whole == {n \in 0..Len(file.records) :
                         PCAP_GLOBAL_HEADER_LEN
                             + Bytes(SubSeq(file.records, 1, n)) <= file.size}
            last == CHOOSE n \in whole : \A k \in whole : k <= n
        IN  out = [i \in 1..last |->
                      [stamp |-> Shifted(file.records[i].stamp, delta),
                       captured |-> file.records[i].captured]]
=============================================================================
