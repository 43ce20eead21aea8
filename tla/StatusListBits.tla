--------------------------- MODULE StatusListBits ---------------------------
(***************************************************************************)
(* How the status of a wallet unit is read out of a decompressed status    *)
(* list: isIndexListed in openid4vci/wua_validate.go.  A list is a         *)
(* sequence of bytes; its entries are bitsPerEntry wide, packed from the   *)
(* low bit of the first byte up.  The code accepts any entry width.        *)
(***************************************************************************)
EXTENDS Integers, Sequences

CONSTANT IntBits  \* width of the integer an entry is collected in; 64 in Go

ASSUME IntBitsAssumption == IntBits \in Nat \ {0}

\* 2 ^ i, with its recursion in the open.
Power(i) ==
  LET power[n \in 0 .. i] == IF n = 0 THEN 1 ELSE 2 * power[n - 1] IN power[i]

\* Bit n of the list, counted from 0.
Bit(bitset, n) == (bitset[n \div 8 + 1] \div Power(n % 8)) % 2

\* The shift of a bit by i places: bits beyond the width fall off.
Shifted(bit, i) == IF i < IntBits THEN bit * Power(i) ELSE 0

\* Mutant of EntryValue: the entry is read from the byte its number names.
EntryValueByteAligned(bitset, index, bitsPerEntry) ==
  LET val[i \in 0 .. bitsPerEntry] ==
        IF i = 0 THEN 0
        ELSE val[i - 1] + Shifted(Bit(bitset, (index * 8 + i - 1) % (Len(bitset) * 8)), i - 1)
  IN  val[bitsPerEntry]

\* What the loop over the bits of an entry collects; bits have separate places,
\* so or is +.
EntryValue(bitset, index, bitsPerEntry) ==
  LET val[i \in 0 .. bitsPerEntry] ==
        IF i = 0 THEN 0
        ELSE val[i - 1] + Shifted(Bit(bitset, index * bitsPerEntry + i - 1), i - 1)
  IN  val[bitsPerEntry]

\* The last entry that lies wholly in the list.
MaxIndex(bitset, bitsPerEntry) == (Len(bitset) * 8) \div bitsPerEntry - 1

\* isIndexListed: "error" for a negative index or a width of 0, FALSE beyond
\* the list.
isIndexListed(bitset, index, bitsPerEntry) ==
  IF index < 0 \/ bitsPerEntry <= 0 THEN "error"
  ELSE IF index > MaxIndex(bitset, bitsPerEntry) THEN "unlisted"
  ELSE IF EntryValue(bitset, index, bitsPerEntry) # 0 THEN "listed" ELSE "unlisted"

-----------------------------------------------------------------------------

\* What the entry says: it lies wholly in the list and one of its bits is set;
\* an integer holds only its first IntBits bits.
EntryIsSet(bitset, index, bitsPerEntry) ==
  /\ (index + 1) * bitsPerEntry <= Len(bitset) * 8
  /\ \E i \in 0 .. bitsPerEntry - 1 :
       i < IntBits /\ Bit(bitset, index * bitsPerEntry + i) = 1
=============================================================================
