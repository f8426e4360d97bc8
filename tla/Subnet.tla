------------------------------- MODULE Subnet -------------------------------
(***************************************************************************)
(* IPv4 addresses and subnets as cmd/virt-prerunner and the VM webhook use *)
(* them: an address is a sequence of bytes, a CIDR is <<>> (the empty      *)
(* string), <<"bad">> (one that net.ParseCIDR refuses) or <<address, ones>>.*)
(***************************************************************************)
EXTENDS Integers, Sequences

CONSTANTS
  ByteBits,  \* 8 in the code
  Bytes      \* 4 in the code

ASSUME AddressAssumption == ByteBits \in Nat \ {0} /\ Bytes \in Nat \ {0}

Bits == ByteBits * Bytes
ByteMax == 2^ByteBits - 1
Address == [1..Bytes -> 0..ByteMax]

Value(ip) ==
  LET upTo[j \in 0..Bytes] == IF j = 0 THEN 0 ELSE upTo[j - 1] * (ByteMax + 1) + ip[j]
  IN  upTo[Bytes]
AddressOf(n) == [j \in 1..Bytes |-> (n \div 2^(ByteBits * (Bytes - j))) % (ByteMax + 1)]

\* net.ParseCIDR: the address with the host bits cleared, and the mask's size.
HostSize(ones) == 2^(Bits - ones)
ParseCIDR(cidr) ==
  LET size == HostSize(cidr[2])
  IN  [ip |-> AddressOf((Value(cidr[1]) \div size) * size), ones |-> cidr[2]]

InSubnet(subnet, ip) ==
  Value(ip) \div HostSize(subnet.ones) = Value(subnet.ip) \div HostSize(subnet.ones)

\* A CIDR that parses and has room.
ValidateCIDR(cidr, capacity) == Len(cidr) = 2 /\ HostSize(cidr[2]) >= capacity

\* The bytes at the end that are full wrap to 0, the one before them is
\* incremented.
nextIP(ip) ==
  LET wraps(j) == \A k \in j..Bytes : ip[k] = ByteMax
  IN  [j \in 1..Bytes |-> IF wraps(j) THEN 0
                          ELSE IF j = Bytes \/ wraps(j + 1) THEN ip[j] + 1 ELSE ip[j]]
=============================================================================
