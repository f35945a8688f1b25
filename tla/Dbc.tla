--------------------------------- MODULE Dbc ---------------------------------
(***************************************************************************)
(* The packing of signals into CAN frames (the DBC codec of                *)
(* fwmodel/model/dingosim.py, after utils/dbc.cpp).  The eight data bytes  *)
(* of a frame are the set of their bits that are 1, bit b of byte n being  *)
(* 8n + b.  A signal s is a record with startBit, bitLength, bigEndian,    *)
(* signed, factor and offset; its raw value is a number or the set of the  *)
(* exponents of two that it is the sum of, exponent 0 being its last bit.  *)
(***************************************************************************)
EXTENDS Integers, FiniteSetsExt

DataBits == 0..63

\* most significant bit first, a big-endian signal goes through a byte from bit 7
\* to bit 0 and on to the next byte; numbered in that order, bit p is Mirror(p)
Mirror(p) == 8 * (p \div 8) + 7 - (p % 8)

\* the bit of the frame that carries 2^k
Place(s, k) ==
  IF s.bigEndian THEN Mirror(Mirror(s.startBit) + s.bitLength - 1 - k) ELSE s.startBit + k

\* signals of no or of more than 32 bits are neither read nor written
Coded(s)     == s.bitLength \in 1..32
Exponents(s) == IF Coded(s) THEN 0..(s.bitLength - 1) ELSE {}
Places(s)    == {Place(s, k) : k \in Exponents(s)} \cap DataBits

Extract(s, data) == {k \in Exponents(s) : Place(s, k) \in data}

\* the bits of a signal that are not in the frame are lost
Insert(s, raw, data) ==
  (data \ Places(s)) \cup ({Place(s, k) : k \in Exponents(s) \cap raw} \cap DataBits)

-----------------------------------------------------------------------------
Sum(exponents) == MapThenSumSet(LAMBDA k : 2^k, exponents)
BitsOf(s, n)   == {k \in Exponents(s) : (n \div 2^k) % 2 = 1}

\* a signal of 32 bits is signed whatever it says: it is returned as an int32
DecodeInt(s, data) ==
  LET raw  == Extract(s, data)
      sign == s.bitLength - 1
  IN  IF (s.signed \/ s.bitLength = 32) /\ sign \in raw
      THEN Sum(raw \ {sign}) - 2^sign ELSE Sum(raw)

DecodeFloat(s, data) == DecodeInt(s, data) * s.factor + s.offset

\* division as a C cast does it, towards zero
Truncated(a, b) ==
  LET Size(x) == IF x < 0 THEN -x ELSE x
      q == Size(a) \div Size(b)
  IN  IF (a < 0) # (b < 0) THEN -q ELSE q

Raw(s, value) ==
  BitsOf(s, IF s.factor = 0 THEN 0 ELSE Truncated(value - s.offset, s.factor))

-----------------------------------------------------------------------------
(* A frame is filled by several signals, one after the other in the order  *)
(* of their slots: of two that claim a bit the later one has it.           *)

(* Mutated form: the bits of the signals are not cleared first.           *)
InsertAllSticky(signals, raws, data) ==
  LET later(i) == UNION {Places(signals[j]) : j \in {k \in DOMAIN signals : k > i}}
  IN  data \cup UNION {Insert(signals[i], raws[i], {}) \ later(i) : i \in DOMAIN signals}

InsertAll(signals, raws, data) ==
  LET later(i) == UNION {Places(signals[j]) : j \in {k \in DOMAIN signals : k > i}}
  IN  (data \ UNION {Places(signals[i]) : i \in DOMAIN signals})
      \cup UNION {Insert(signals[i], raws[i], {}) \ later(i) : i \in DOMAIN signals}
=============================================================================
