------------------------------- MODULE Base64 -------------------------------
(***************************************************************************)
(* StringHelpers::encode() and decode() (src/helpers/stringhelpers.cpp).   *)
(* Bytes and the digits of base 64 are numbers. Places in a text count     *)
(* from 1, groups of three bytes and four digits from 0.                   *)
(***************************************************************************)
EXTENDS Integers, Sequences, FiniteSets

CONSTANTS
    Bytes,    \* bytes to encode
    MaxBytes  \* bound on how many

ByteValues == 0..255

ASSUME Base64Assumption == Bytes \subseteq ByteValues /\ MaxBytes \in Nat

Pad == 255  \* what decode() looks up for "="

Groups(bytes) == (Len(bytes) + 2) \div 3

Byte(bytes, i) == IF i <= Len(bytes) THEN bytes[i] ELSE 0

DigitsOf(b1, b2, b3) ==
    <<b1 \div 4, (b1 % 4) * 16 + b2 \div 16, (b2 % 16) * 4 + b3 \div 64, b3 % 64>>

Digit(bytes, i) ==
    LET index == 3 * ((i - 1) \div 4)
    IN  DigitsOf(Byte(bytes, index + 1), Byte(bytes, index + 2), Byte(bytes, index + 3))
            [((i - 1) % 4) + 1]

Encode(bytes) ==
    LET missing == 3 * Groups(bytes) - Len(bytes)
        size    == 4 * Groups(bytes)
    IN  [i \in 1..size |-> IF i > size - missing THEN Pad ELSE Digit(bytes, i)]

\* A pad counts as 63, its low six bits, in the bytes that are kept.
BytesOf(d1, d2, d3, d4) ==
    <<(d1 % 64) * 4 + (d2 % 64) \div 16, (d2 % 16) * 16 + (d3 % 64) \div 4,
      (d3 % 4) * 64 + (d4 % 64)>>

\* The i-th of the bytes that the digits hold, and the digit that it ends in.
Decoded(base64, i) ==
    LET index == 4 * ((i - 1) \div 3)
    IN  BytesOf(base64[index + 1], base64[index + 2], base64[index + 3], base64[index + 4])
            [((i - 1) % 3) + 1]

LastDigit(i) == 4 * ((i - 1) \div 3) + ((i - 1) % 3) + 2

\* A byte that ends in a pad is left out, wherever it is.
Decode(base64) ==
    LET kept   == {i \in 1..3 * (Len(base64) \div 4) : base64[LastDigit(i)] # Pad}
        nth(j) == CHOOSE i \in kept : Cardinality({h \in kept : h <= i}) = j
    IN  IF base64 = <<>> \/ Len(base64) % 4 # 0 THEN <<>>
        ELSE [j \in 1..Cardinality(kept) |-> Decoded(base64, nth(j))]

-----------------------------------------------------------------------------
\* decode() undoes encode(), for any number of bytes missing in the last group.
Base64RoundTrips ==
    \A n \in 0..MaxBytes : \A bytes \in [1..n -> Bytes] : Decode(Encode(bytes)) = bytes

=============================================================================
