----------------------------- MODULE Addresses ------------------------------
(***************************************************************************)
(* Nickvision::Network::IPv4Address and MacAddress                         *)
(* (src/network/ipv4address.cpp, src/network/macaddress.cpp). A text is    *)
(* the sequence of its parts, between "." or ":", and a part the sequence  *)
(* of its digits, as numbers.                                              *)
(***************************************************************************)
EXTENDS Integers, Sequences

CONSTANT Octets  \* bytes of addresses

ASSUME AddressAssumption == Octets \subseteq 0..255

Localhost == <<>>  \* a text whose part has no digits
NoAddress == <<>>

IsByte(n) == n >= 0 /\ n <= 255

\* What a byte counts for in the number: it is shifted by 24, 16, 8 and 0 bits.
Weight == <<256 * 256 * 256, 256 * 256, 256, 1>>

Octet(address, i) == (address \div Weight[i]) % 256
FromLong(address) == [i \in 1..4 |-> Octet(address, i)]

\* std::stoi, of parts that have no more than three digits.
ReadNumber(digits, base) ==
    CASE Len(digits) = 1 -> digits[1]
      [] Len(digits) = 2 -> digits[1] * base + digits[2]
      [] Len(digits) = 3 -> (digits[1] * base + digits[2]) * base + digits[3]

Parsed(text, base, n) ==
    LET numbers == [i \in DOMAIN text |-> ReadNumber(text[i], base)]
    IN  IF Len(text) = n /\ \A i \in 1..n : IsByte(numbers[i]) THEN numbers ELSE NoAddress

ParseIPv4(text) == IF text = Localhost THEN <<127, 0, 0, 1>> ELSE Parsed(text, 10, 4)

ParseMac(text) == Parsed(text, 16, 6)

\* A byte is written without leading zeros in decimal, and with two hexadecimal digits.
Decimal(n) ==
    IF n < 10 THEN <<n>>
    ELSE IF n < 100 THEN <<n \div 10, n % 10>>
    ELSE <<n \div 100, (n \div 10) % 10, n % 10>>

Hexadecimal(n) == <<n \div 16, n % 16>>

StrIPv4(address) == [i \in 1..4 |-> Decimal(address[i])]
StrMac(address) == [i \in 1..6 |-> Hexadecimal(address[i])]

getNetworkByteOrder(a) ==
    a[1] * Weight[1] + a[2] * Weight[2] + a[3] * Weight[3] + a[4] * Weight[4]

\* An address comes back from its number and from its text. (TLC's integers have
\* 32 bits where the long has 64: hence the first byte of at most 127.)
AddressesRoundTrip ==
    /\ \A a \in [1..4 -> Octets] :
          /\ a[1] <= 127 => FromLong(getNetworkByteOrder(a)) = a
          /\ ParseIPv4(StrIPv4(a)) = a
    /\ \A a \in [1..6 -> Octets] : ParseMac(StrMac(a)) = a

=============================================================================
