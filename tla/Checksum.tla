------------------------------- MODULE Checksum -------------------------------
(***************************************************************************)
(* The Internet checksum (src/c/checksum.c).  Bytes are 0..255.  The       *)
(* running sum is a uint32_t: a frame has at most RAW_SOCKET_MAX_FRAME     *)
(* (65536) bytes and the longest pseudo-header 40, so that it stays below  *)
(* 2^32 and nothing is lost from it.                                       *)
(***************************************************************************)
EXTENDS Integers, Sequences

Octet == 0 .. 255
W == 65536

(* An odd byte at the end is padded with a zero low byte. *)
WordAt(data, i) == 256 * data[2 * i - 1] + (IF 2 * i <= Len(data) THEN data[2 * i] ELSE 0)

(* The words i to j of data added up: the loop, in halves. *)
WordSum(data, n) ==
    LET Sum[i \in 1 .. n + 1, j \in 0 .. n] ==
            IF i > j THEN 0
            ELSE IF i = j THEN WordAt(data, i)
            ELSE Sum[i, (i + j) \div 2] + Sum[((i + j) \div 2) + 1, j]
    IN  Sum[1, n]

(* Fault: an odd byte at the end is left out. *)
PartialEvenOnly(data, sum) == sum + WordSum(data, Len(data) \div 2)

checksum_partial(data, sum) == sum + WordSum(data, (Len(data) + 1) \div 2)

(* One iteration of the folding loop: the high half is added to the low one. *)
Carry(sum) == (sum % W) + (sum \div W)

(* The loop runs while there is a high half; after two iterations there is *)
(* none (theorem TwoFoldsSuffice).                                         *)
Folded(sum) ==
    IF sum < W THEN sum ELSE IF Carry(sum) < W THEN Carry(sum) ELSE Carry(Carry(sum))

Verdict(sum) == Folded(sum) = W - 1

checksum_verify(data) == Verdict(checksum_partial(data, 0))

(* A length as the pseudo-headers hold it: the low 16 or 32 bits. *)
Bytes2(n) == <<(n \div 256) % 256, n % 256>>
Bytes4(n) == Bytes2(n \div W) \o Bytes2(n)

checksum_verify_ipv4_pseudo(segment, src_ip, dst_ip, protocol) ==
    LET pseudo_header == src_ip \o dst_ip \o <<0, protocol>> \o Bytes2(Len(segment))
    IN  Verdict(checksum_partial(segment, checksum_partial(pseudo_header, 0)))

checksum_verify_ipv6_pseudo(segment, src_ip, dst_ip, next_header) ==
    LET pseudo_header == src_ip \o dst_ip \o Bytes4(Len(segment)) \o <<0, 0, 0, next_header>>
    IN  Verdict(checksum_partial(segment, checksum_partial(pseudo_header, 0)))
=============================================================================
