---------------------------- MODULE DingoSimProofs ----------------------------
(***************************************************************************)
(* Theorems about the packing of signals into frames, for every signal,    *)
(* raw value and frame: that a big-endian signal goes through the frame as *)
(* the loop of the code does, that filling a frame in one step is filling  *)
(* it signal by signal, that the signals do not disturb each other, and    *)
(* that a number is read back as it was written.                           *)
(*                                                                         *)
(* Then lemmas about one cycle of a device, for every configuration.       *)
(* A cycle updates the slots of a category one after the other.  By        *)
(* induction over the slots a category changes only what its slots own,    *)
(* and each slot is updated once, from itself as it was; so that for each  *)
(* kind of block one lemma (Cycle...) says what a cycle does to one slot.  *)
(***************************************************************************)
EXTENDS DingoSim, FiniteSetTheorems, WellFoundedInduction, TLAPS

\* what matters here of a signal
IsSignal(s) == s.startBit \in DataBits /\ s.bitLength \in Nat /\ s.bigEndian \in BOOLEAN

-----------------------------------------------------------------------------
\* The numbering of the bits most significant first is its own inverse.
LEMMA MirrorTwice ==
  ASSUME NEW p \in Nat
  PROVE  Mirror(p) \in Nat /\ Mirror(Mirror(p)) = p
BY SMTT(30) DEF Mirror

\* The next bit in that numbering is the next lower one of the byte, or bit 7 of
\* the next byte.
LEMMA MirrorDown ==
  ASSUME NEW p \in Nat
  PROVE  Mirror(Mirror(p) + 1) = IF p % 8 = 0 THEN p + 15 ELSE p - 1
BY SMTT(30) DEF Mirror

\* The bits of a signal have places that are numbers, if not always in the frame.
LEMMA PlaceType ==
  ASSUME NEW s, IsSignal(s), NEW k \in Exponents(s)
  PROVE  /\ s.bitLength \in 1..32 /\ k \in 0..(s.bitLength - 1)
         /\ Place(s, k) \in Nat
         /\ Mirror(s.startBit) + s.bitLength - 1 - k \in Nat
<1>1. s.bitLength \in 1..32 /\ k \in 0..(s.bitLength - 1)
  BY DEF Exponents, Coded
<1>2. s.startBit \in Nat /\ s.bigEndian \in BOOLEAN
  BY DEF IsSignal, DataBits
<1>3. Mirror(s.startBit) \in Nat
  BY <1>2, MirrorTwice
<1>4. Mirror(s.startBit) + s.bitLength - 1 - k \in Nat
  BY <1>1, <1>3
<1>5. Mirror(Mirror(s.startBit) + s.bitLength - 1 - k) \in Nat
  BY <1>4, MirrorTwice
<1>6. s.startBit + k \in Nat
  BY <1>1, <1>2
<1> QED BY <1>1, <1>2, <1>4, <1>5, <1>6 DEF Place

\* Two bits of a signal never share a place in the frame.
LEMMA PlacesDistinct ==
  ASSUME NEW s, IsSignal(s), NEW k \in Exponents(s), NEW l \in Exponents(s),
         Place(s, k) = Place(s, l)
  PROVE  k = l
<1>1. /\ s.bitLength \in 1..32 /\ k \in 0..(s.bitLength - 1) /\ l \in 0..(s.bitLength - 1)
      /\ Mirror(s.startBit) + s.bitLength - 1 - k \in Nat
      /\ Mirror(s.startBit) + s.bitLength - 1 - l \in Nat
  BY PlaceType
<1>2. s.startBit \in Nat /\ s.bigEndian \in BOOLEAN
  BY DEF IsSignal, DataBits
<1>3. Mirror(s.startBit) \in Nat
  BY <1>2, MirrorTwice
<1>4. CASE s.bigEndian
  <2>1. Mirror(Mirror(s.startBit) + s.bitLength - 1 - k) = Mirror(Mirror(s.startBit) + s.bitLength - 1 - l)
    BY <1>4 DEF Place
  <2>2. Mirror(s.startBit) + s.bitLength - 1 - k = Mirror(s.startBit) + s.bitLength - 1 - l
    BY <2>1, <1>1, MirrorTwice
  <2> QED BY <2>2, <1>1, <1>3
<1>5. CASE ~s.bigEndian
  BY <1>5, <1>1, <1>2 DEF Place
<1> QED BY <1>4, <1>5, <1>2

-----------------------------------------------------------------------------
\* A big-endian signal starts at startBit with its most significant bit and goes
\* on to the next lower bit, or from bit 0 of a byte to bit 7 of the next one:
\* the loop of decode_int and encode_float.
THEOREM BigEndianWalk ==
  ASSUME NEW s, IsSignal(s), Coded(s), s.bigEndian
  PROVE  /\ Place(s, s.bitLength - 1) = s.startBit
         /\ \A k \in Exponents(s) \ {0} :
              Place(s, k - 1) = IF Place(s, k) % 8 = 0 THEN Place(s, k) + 15 ELSE Place(s, k) - 1
<1>1. s.bitLength \in 1..32 /\ s.startBit \in Nat
  BY DEF IsSignal, DataBits, Coded
<1>2. Mirror(s.startBit) \in Nat /\ Mirror(Mirror(s.startBit)) = s.startBit
  BY <1>1, MirrorTwice
<1>3. Mirror(s.startBit) + s.bitLength - 1 - (s.bitLength - 1) = Mirror(s.startBit)
  BY <1>1, <1>2
<1>4. Place(s, s.bitLength - 1) = s.startBit
  BY <1>2, <1>3 DEF Place
<1>5. ASSUME NEW k \in Exponents(s) \ {0}
      PROVE  Place(s, k - 1) = IF Place(s, k) % 8 = 0 THEN Place(s, k) + 15 ELSE Place(s, k) - 1
  <2> DEFINE m == Mirror(s.startBit) + s.bitLength - 1 - k
  <2>1. k \in 1..(s.bitLength - 1) /\ m \in Nat /\ Place(s, k) \in Nat
    BY <1>5, <1>1, PlaceType DEF Exponents
  <2>2. Place(s, k) = Mirror(m) /\ Mirror(Place(s, k)) = m
    BY <2>1, MirrorTwice DEF Place
  <2>3. Mirror(s.startBit) + s.bitLength - 1 - (k - 1) = m + 1
    BY <2>1, <1>1, <1>2
  <2>4. Place(s, k - 1) = Mirror(Mirror(Place(s, k)) + 1)
    BY <2>2, <2>3 DEF Place
  <2> QED BY <2>1, <2>4, MirrorDown
<1> QED BY <1>4, <1>5

\* What is in a frame after a signal was inserted.
LEMMA InsertMembers ==
  ASSUME NEW s, NEW raw, NEW data, NEW p
  PROVE  /\ p \in Insert(s, raw, data) <=> (p \in data /\ p \notin Places(s)) \/ p \in Insert(s, raw, {})
         /\ p \in Insert(s, raw, {}) => p \in Places(s)
BY DEF Insert, Places

\* What is in a frame after all of its signals were inserted.
LEMMA InsertAllMembers ==
  ASSUME NEW signals, NEW raws, NEW data, NEW p
  PROVE  p \in InsertAll(signals, raws, data) <=>
           \/ p \in data /\ \A i \in DOMAIN signals : p \notin Places(signals[i])
           \/ \E i \in DOMAIN signals :
                /\ p \in Insert(signals[i], raws[i], {})
                /\ \A j \in DOMAIN signals : j > i => p \notin Places(signals[j])
BY DEF InsertAll

\* Filling a frame with all its signals is filling it with all but the last one
\* and then inserting that one: the loop of _can_outputs over the slots.
THEOREM FilledSlotBySlot ==
  ASSUME NEW S \in SUBSET Nat, NEW n \in S, \A i \in S : i <= n,
         NEW signals, DOMAIN signals = S, NEW raws, NEW data
  PROVE  InsertAll(signals, raws, data) =
           Insert(signals[n], raws[n],
                  InsertAll([i \in S \ {n} |-> signals[i]], [i \in S \ {n} |-> raws[i]], data))
<1> DEFINE others == [i \in S \ {n} |-> signals[i]]
           raws0  == [i \in S \ {n} |-> raws[i]]
           before == InsertAll(others, raws0, data)
<1>1. ASSUME NEW p
      PROVE  p \in before <=>
               \/ p \in data /\ \A i \in S \ {n} : p \notin Places(signals[i])
               \/ \E i \in S \ {n} : /\ p \in Insert(signals[i], raws[i], {})
                                     /\ \A j \in S \ {n} : j > i => p \notin Places(signals[j])
  <2>1. /\ DOMAIN others = S \ {n}
        /\ \A i \in S \ {n} : others[i] = signals[i] /\ raws0[i] = raws[i]
    OBVIOUS
  <2> HIDE DEF others, raws0
  <2>2. p \in InsertAll(others, raws0, data) <=>
          \/ p \in data /\ \A i \in DOMAIN others : p \notin Places(others[i])
          \/ \E i \in DOMAIN others :
               /\ p \in Insert(others[i], raws0[i], {})
               /\ \A j \in DOMAIN others : j > i => p \notin Places(others[j])
    BY InsertAllMembers, Zenon
  <2> QED BY <2>1, <2>2
<1>2. ASSUME NEW p
      PROVE  p \in InsertAll(signals, raws, data) <=> p \in Insert(signals[n], raws[n], before)
  <2>1. p \in Insert(signals[n], raws[n], before)
          <=> (p \in before /\ p \notin Places(signals[n])) \/ p \in Insert(signals[n], raws[n], {})
    BY InsertMembers
  <2>2. p \in Insert(signals[n], raws[n], {}) => p \in Places(signals[n])
    BY InsertMembers
  <2>3. \A j \in S : ~(j > n)
    OBVIOUS
  <2>4. \A i \in S \ {n} : n > i
    OBVIOUS
  <2>5. p \in InsertAll(signals, raws, data) <=>
          \/ p \in data /\ \A i \in S : p \notin Places(signals[i])
          \/ \E i \in S : /\ p \in Insert(signals[i], raws[i], {})
                          /\ \A j \in S : j > i => p \notin Places(signals[j])
    <3>1. p \in InsertAll(signals, raws, data) <=>
            \/ p \in data /\ \A i \in DOMAIN signals : p \notin Places(signals[i])
            \/ \E i \in DOMAIN signals :
                 /\ p \in Insert(signals[i], raws[i], {})
                 /\ \A j \in DOMAIN signals : j > i => p \notin Places(signals[j])
      BY InsertAllMembers, Zenon
    <3> QED BY <3>1, Zenon
  <2> HIDE DEF before
  <2> QED BY <1>1, <2>1, <2>2, <2>3, <2>4, <2>5
<1> HIDE DEF before
<1>3. InsertAll(signals, raws, data) = Insert(signals[n], raws[n], before)
  BY <1>2
<1> QED BY <1>3 DEF before

\* What a frame carries of a signal is exactly its raw value, whatever the frame
\* held before and whatever its other signals are, as long as the signal lies in
\* the frame and no higher slot claims a bit of it.
THEOREM SignalsKeepApart ==
  ASSUME NEW S \in SUBSET Nat, NEW i \in S,
         NEW signals, DOMAIN signals = S, NEW raws, NEW data,
         IsSignal(signals[i]),
         \A k \in Exponents(signals[i]) : Place(signals[i], k) \in DataBits,
         \A j \in S : j > i => Places(signals[j]) \cap Places(signals[i]) = {}
  PROVE  Extract(signals[i], InsertAll(signals, raws, data)) = raws[i] \cap Exponents(signals[i])
<1> DEFINE s == signals[i]
           after == InsertAll(signals, raws, data)
<1>1. ASSUME NEW k \in Exponents(s)
      PROVE  Place(s, k) \in after <=> k \in raws[i]
  <2>1. Place(s, k) \in Places(s)
    BY DEF Places
  <2>2. \A j \in S : j > i => Place(s, k) \notin Places(signals[j])
    BY <2>1
  <2>3. Place(s, k) \in Insert(s, raws[i], {}) <=> k \in raws[i]
    <3>1. Place(s, k) \in Insert(s, raws[i], {})
            <=> \E l \in Exponents(s) \cap raws[i] : Place(s, k) = Place(s, l)
      BY DEF Insert
    <3>2. \A l \in Exponents(s) : Place(s, k) = Place(s, l) => k = l
      BY PlacesDistinct
    <3> QED BY <3>1, <3>2
  <2>4. Place(s, k) \in after <=>
          \E j \in S : /\ Place(s, k) \in Insert(signals[j], raws[j], {})
                       /\ \A l \in S : l > j => Place(s, k) \notin Places(signals[l])
    BY <2>1, InsertAllMembers
  <2>5. \A j \in S : Place(s, k) \in Insert(signals[j], raws[j], {}) => Place(s, k) \in Places(signals[j])
    BY InsertMembers
  <2>6. \A j \in S \ {i} : j > i \/ i > j
    OBVIOUS
  <2> HIDE DEF after, s
  <2>7. ASSUME k \in raws[i] PROVE Place(s, k) \in after
    BY <2>7, <2>2, <2>3, <2>4 DEF s
  <2>8. ASSUME Place(s, k) \in after PROVE k \in raws[i]
    <3>1. PICK j \in S : /\ Place(s, k) \in Insert(signals[j], raws[j], {})
                         /\ \A l \in S : l > j => Place(s, k) \notin Places(signals[l])
      BY <2>8, <2>4
    <3>2. ~(i > j)
      BY <3>1, <2>1 DEF s
    <3>3. ~(j > i)
      BY <3>1, <2>2, <2>5
    <3>4. j = i
      BY <3>2, <3>3, <2>6
    <3> QED BY <3>1, <3>4, <2>3 DEF s
  <2> QED BY <2>7, <2>8
<1> HIDE DEF after, s
<1>2. Extract(s, after) = raws[i] \cap Exponents(s)
  BY <1>1 DEF Extract
<1> QED BY <1>2 DEF after, s

-----------------------------------------------------------------------------
(* Induction over numbers.                                                 *)

\* Of any numbers one is the least.
LEMMA LeastNumber ==
  ASSUME NEW T \in SUBSET Nat, T # {}
  PROVE  \E n \in T : \A m \in T : n <= m
<1> DEFINE less == OpToRel(<, Nat)
<1>1. IsWellFoundedOn(less, Nat)
  BY NatLessThanWellFounded
<1>2. \A n, m \in Nat : <<m, n>> \in less <=> m < n
  BY DEF OpToRel
<1> HIDE DEF less
<1>3. PICK n \in T : \A m \in T : ~(<<m, n>> \in less)
  BY <1>1, WFMin
<1>4. ASSUME NEW m \in T PROVE n <= m
  <2>1. n \in Nat /\ m \in Nat /\ ~(<<m, n>> \in less)
    BY <1>3
  <2>2. ~(m < n)
    BY <1>2, <2>1
  <2> QED BY <2>1, <2>2
<1> QED BY <1>4

\* A set of numbers that is bounded has a greatest.
LEMMA GreatestNumber ==
  ASSUME NEW T \in SUBSET Nat, T # {}, NEW b \in Nat, \A n \in T : n <= b
  PROVE  Max(T) \in T /\ \A n \in T : n <= Max(T)
<1> DEFINE bounds == {m \in Nat : \A n \in T : n <= m}
<1>1. PICK m \in bounds : \A k \in bounds : m <= k
  BY LeastNumber
<1>2. m \in T
  <2> SUFFICES ASSUME m \notin T PROVE FALSE
    OBVIOUS
  <2>1. \A n \in T : n \in Nat /\ n <= m /\ n # m
    BY <1>1
  <2>2. PICK n \in T : TRUE
    OBVIOUS
  <2>3. m \in Nat /\ m - 1 \in Nat /\ m - 1 < m
    BY <1>1, <2>1, <2>2
  <2>4. \A k \in T : k <= m - 1
    BY <2>1, <2>3
  <2>5. m - 1 \in bounds
    BY <2>3, <2>4
  <2> QED BY <1>1, <2>3, <2>5
<1>3. \A n \in T : m >= n
  BY <1>1
<1>4. \E k \in T : \A n \in T : k >= n
  BY <1>2, <1>3
<1>5. Max(T) \in T /\ \A n \in T : Max(T) >= n
  BY <1>4 DEF Max
<1>6. \A n \in T : n \in Nat /\ Max(T) \in Nat
  BY <1>5
<1> QED BY <1>5, <1>6

\* What holds of 0, and of n + 1 if it does of n, holds of every number.
LEMMA Counting ==
  ASSUME NEW P, 0 \in P, \A n \in Nat : n \in P => n + 1 \in P
  PROVE  Nat \subseteq P
<1> DEFINE T == Nat \ P
<1>1. SUFFICES ASSUME T # {} PROVE FALSE
  OBVIOUS
<1>2. PICK n \in T : \A m \in T : n <= m
  BY <1>1, LeastNumber
<1>3. n \in Nat /\ n # 0 /\ n \notin P
  OBVIOUS
<1>4. n - 1 \in Nat /\ ~(n <= n - 1) /\ (n - 1) + 1 = n
  BY <1>3
<1>5. n - 1 \in P
  BY <1>2, <1>4
<1> QED BY <1>3, <1>4, <1>5

-----------------------------------------------------------------------------
(* Powers of two and division.                                             *)

\* The powers of two, counted as the subsets of 1..n.
LEMMA PowersDouble ==
  ASSUME NEW n \in Nat
  PROVE  2^n \in Nat /\ 2^n > 0 /\ 2^(n + 1) = 2 * 2^n
<1> DEFINE A == 1..n
           low == SUBSET A
           high == {T \cup {n + 1} : T \in SUBSET A}
           all == SUBSET (1..(n + 1))
<1>1. IsFiniteSet(A) /\ Cardinality(A) = n /\ IsFiniteSet(1..(n + 1)) /\ Cardinality(1..(n + 1)) = n + 1
  BY FS_Interval
<1>2. IsFiniteSet(low) /\ Cardinality(low) = 2^n /\ Cardinality(all) = 2^(n + 1)
  BY <1>1, FS_SUBSET
<1>3. 2^n \in Nat /\ 2^n # 0
  <2>1. low # {}
    OBVIOUS
  <2> HIDE DEF low
  <2> QED BY <1>2, <2>1, FS_CardinalityType, FS_EmptySet
<1>4. ExistsBijection(low, high)
  <2> DEFINE f == [T \in low |-> T \cup {n + 1}]
  <2>1. f \in [low -> high]
    OBVIOUS
  <2>2. \A S, T \in low : f[S] = f[T] => S = T
    <3>1. n + 1 \notin A
      OBVIOUS
    <3> HIDE DEF A
    <3> QED BY <3>1
  <2>3. \A U \in high : \E T \in low : f[T] = U
    OBVIOUS
  <2> HIDE DEF f, low, high
  <2>4. f \in Bijection(low, high)
    BY <2>1, <2>2, <2>3 DEF Bijection, Injection, Surjection, IsInjective
  <2> QED BY <2>4 DEF ExistsBijection
<1>5. IsFiniteSet(high) /\ Cardinality(high) = 2^n
  <2> HIDE DEF low, high
  <2> QED BY <1>2, <1>4, FS_Bijection
<1>6. all = low \cup high /\ low \cap high = {}
  <2>1. 1..(n + 1) = A \cup {n + 1} /\ n + 1 \notin A
    OBVIOUS
  <2> HIDE DEF A
  <2>2. ASSUME NEW U \in SUBSET (A \cup {n + 1}), n + 1 \in U PROVE U \in high
    <3>1. U = (U \ {n + 1}) \cup {n + 1} /\ U \ {n + 1} \in SUBSET A
      BY <2>2
    <3> QED BY <3>1
  <2> QED BY <2>1, <2>2
<1>7. 2^(n + 1) = 2^n + 2^n - 0
  <2> HIDE DEF low, high, all
  <2>1. Cardinality(low \cup high) = Cardinality(low) + Cardinality(high) - Cardinality(low \cap high)
    BY <1>2, <1>5, FS_Union
  <2> QED BY <1>2, <1>5, <1>6, <2>1, FS_EmptySet
<1> QED BY <1>3, <1>7

\* A quotient and a remainder are the only ones.
LEMMA DivisionIsUnique ==
  ASSUME NEW d \in Nat, d > 0, NEW q \in Int, NEW r \in Int, 0 <= r, r < d
  PROVE  (d * q + r) \div d = q /\ (d * q + r) % d = r
<1> DEFINE m == d * q + r
           q1 == m \div d
           r1 == m % d
<1>1. m \in Int /\ q1 \in Int /\ r1 \in Int /\ m = d * q1 + r1 /\ 0 <= r1 /\ r1 < d
  OBVIOUS
<1> HIDE DEF q1, r1
<1>2. d * (q1 - q) = r - r1
  BY <1>1
<1>3. ~(q1 - q >= 1)
  <2> SUFFICES ASSUME q1 - q >= 1 PROVE FALSE
    OBVIOUS
  <2>1. d * (q1 - q) >= d
    BY <1>1
  <2> QED BY <1>1, <1>2, <2>1
<1>4. ~(q - q1 >= 1)
  <2> SUFFICES ASSUME q - q1 >= 1 PROVE FALSE
    OBVIOUS
  <2>1. d * (q - q1) >= d
    BY <1>1
  <2>2. d * (q - q1) = r1 - r
    BY <1>1
  <2> QED BY <1>1, <2>1, <2>2
<1>5. q1 = q
  BY <1>1, <1>3, <1>4
<1>6. r1 = r
  BY <1>1, <1>2, <1>5
<1> QED BY <1>5, <1>6 DEF q1, r1

\* The remainder by twice a number has one more binary digit.
LEMMA OneMoreDigit ==
  ASSUME NEW n \in Nat, NEW p \in Nat, p > 0
  PROVE  n % (2 * p) = (n % p) + p * ((n \div p) % 2)
<1> DEFINE q == n \div p
           r == n % p
           h == q \div 2
           b == q % 2
<1>1. q \in Int /\ r \in Int /\ n = p * q + r /\ 0 <= r /\ r < p
  OBVIOUS
<1> HIDE DEF q, r
<1>2. h \in Int /\ b \in {0, 1} /\ q = 2 * h + b
  BY <1>1
<1> HIDE DEF h, b
<1>3. n = (2 * p) * h + (p * b + r)
  BY <1>1, <1>2
<1>4. p * b + r \in Int /\ 0 <= p * b + r /\ p * b + r < 2 * p
  BY <1>1, <1>2
<1>5. ((2 * p) * h + (p * b + r)) % (2 * p) = p * b + r
  <2> DEFINE d == 2 * p
             c == p * b + r
  <2>1. d \in Nat /\ d > 0 /\ c \in Int /\ 0 <= c /\ c < d
    BY <1>4
  <2> HIDE DEF d, c
  <2>2. (d * h + c) % d = c
    BY <1>2, <2>1, DivisionIsUnique
  <2> QED BY <2>2 DEF d, c
<1> QED BY <1>3, <1>5 DEF b, q, r

-----------------------------------------------------------------------------
(* Sums of powers of two.                                                  *)

ElementOf(S) == CHOOSE x \in S : TRUE

\* f sums up each of the sets in D, element by element
SumsUp(f, D) == f = [S \in D |-> IF S = {} THEN 0 ELSE 2^ElementOf(S) + f[S \ {ElementOf(S)}]]

\* Any element of a set is one.
LEMMA ElementIsIn ==
  ASSUME NEW S, S # {}
  PROVE  ElementOf(S) \in S
BY DEF ElementOf

\* A finite set without one of its elements is smaller.
LEMMA OneLess ==
  ASSUME NEW S, IsFiniteSet(S), NEW x \in S
  PROVE  /\ IsFiniteSet(S \ {x})
         /\ Cardinality(S) \in Nat /\ Cardinality(S \ {x}) \in Nat
         /\ Cardinality(S \ {x}) = Cardinality(S) - 1
BY FS_RemoveElement, FS_CardinalityType

\* The sums over the subsets of a finite set exist.
LEMMA SumsExist ==
  ASSUME NEW S, IsFiniteSet(S)
  PROVE  \E f : SumsUp(f, SUBSET S)
<1> DEFINE D(n) == {T \in SUBSET S : Cardinality(T) <= n}
           P == {n \in Nat : \E f : SumsUp(f, D(n))}
<1>1. \A T \in SUBSET S : IsFiniteSet(T) /\ Cardinality(T) \in Nat
  BY FS_Subset, FS_CardinalityType
<1>2. 0 \in P
  <2> DEFINE f == [T \in D(0) |-> 0]
  <2>1. \A T \in D(0) : T = {}
    BY <1>1, FS_EmptySet
  <2>2. SumsUp(f, D(0))
    BY <2>1 DEF SumsUp
  <2> QED BY <2>2
<1>3. ASSUME NEW n \in Nat, n \in P PROVE n + 1 \in P
  <2>1. PICK f : SumsUp(f, D(n))
    BY <1>3
  <2> DEFINE g == [T \in D(n + 1) |-> IF T = {} THEN 0 ELSE 2^ElementOf(T) + f[T \ {ElementOf(T)}]]
  <2>2. ASSUME NEW T \in D(n)
        PROVE  T \in D(n + 1) /\ g[T] = f[T]
    <3>1. T \in D(n + 1)
      BY <1>1
    <3>2. g[T] = IF T = {} THEN 0 ELSE 2^ElementOf(T) + f[T \ {ElementOf(T)}]
      BY <3>1
    <3>3. f[T] = IF T = {} THEN 0 ELSE 2^ElementOf(T) + f[T \ {ElementOf(T)}]
      BY <2>1 DEF SumsUp
    <3> QED BY <3>1, <3>2, <3>3
  <2>3. ASSUME NEW T \in D(n + 1), T # {}
        PROVE  g[T \ {ElementOf(T)}] = f[T \ {ElementOf(T)}]
    <3>1. IsFiniteSet(T) /\ Cardinality(T) <= n + 1 /\ ElementOf(T) \in T /\ T \in SUBSET S
      BY <1>1, <2>3, ElementIsIn
    <3>2. T \ {ElementOf(T)} \in D(n)
      BY <3>1, OneLess
    <3> QED BY <2>2, <3>2
  <2> HIDE DEF D
  <2>4. ASSUME NEW T \in D(n + 1)
        PROVE  g[T] = IF T = {} THEN 0 ELSE 2^ElementOf(T) + g[T \ {ElementOf(T)}]
    BY <2>3
  <2>5. g = [T \in D(n + 1) |-> g[T]]
    OBVIOUS
  <2>6. SumsUp(g, D(n + 1))
    <3> HIDE DEF g
    <3> QED BY <2>4, <2>5 DEF SumsUp
  <2> HIDE DEF g
  <2> QED BY <2>6
<1>4. Cardinality(S) \in P
  <2> HIDE DEF P
  <2> QED BY <1>1, <1>2, <1>3, Counting
<1>5. D(Cardinality(S)) = SUBSET S
  BY <1>1, FS_Subset
<1> QED BY <1>4, <1>5

\* A sum does not depend on the larger set it is a part of.
LEMMA SumsAgree ==
  ASSUME NEW S, NEW T, IsFiniteSet(S), NEW f, NEW g, SumsUp(f, SUBSET S), SumsUp(g, SUBSET T)
  PROVE  \A U \in (SUBSET S) \cap (SUBSET T) : f[U] = g[U]
<1> DEFINE P == {n \in Nat : \A U \in (SUBSET S) \cap (SUBSET T) : Cardinality(U) = n => f[U] = g[U]}
<1>1. \A U \in SUBSET S : IsFiniteSet(U) /\ Cardinality(U) \in Nat
  BY FS_Subset, FS_CardinalityType
<1>2. ASSUME NEW U \in (SUBSET S) \cap (SUBSET T)
      PROVE  /\ f[U] = IF U = {} THEN 0 ELSE 2^ElementOf(U) + f[U \ {ElementOf(U)}]
             /\ g[U] = IF U = {} THEN 0 ELSE 2^ElementOf(U) + g[U \ {ElementOf(U)}]
  BY DEF SumsUp
<1>3. 0 \in P
  BY <1>1, <1>2, FS_EmptySet
<1>4. ASSUME NEW n \in Nat, n \in P PROVE n + 1 \in P
  <2> SUFFICES ASSUME NEW U \in (SUBSET S) \cap (SUBSET T), Cardinality(U) = n + 1 PROVE f[U] = g[U]
    OBVIOUS
  <2>1. U # {}
    BY <1>1, FS_EmptySet
  <2>2. U \ {ElementOf(U)} \in (SUBSET S) \cap (SUBSET T) /\ Cardinality(U \ {ElementOf(U)}) = n
    BY <1>1, <2>1, ElementIsIn, OneLess
  <2>3. f[U \ {ElementOf(U)}] = g[U \ {ElementOf(U)}]
    BY <1>4, <2>2
  <2> QED BY <1>2, <2>1, <2>3
<1>5. Nat \subseteq P
  <2> HIDE DEF P
  <2> QED BY <1>3, <1>4, Counting
<1> QED BY <1>1, <1>5

\* A sum is that of one element and the others.
LEMMA SumStep ==
  ASSUME NEW S, IsFiniteSet(S)
  PROVE  Sum(S) = IF S = {} THEN 0 ELSE 2^ElementOf(S) + Sum(S \ {ElementOf(S)})
<1>1. ASSUME NEW T, IsFiniteSet(T)
      PROVE  \E f : SumsUp(f, SUBSET T) /\ Sum(T) = f[T]
  <2> DEFINE f == CHOOSE h : SumsUp(h, SUBSET T)
  <2>1. SumsUp(f, SUBSET T)
    BY <1>1, SumsExist
  <2>2. Sum(T) = f[T]
    BY DEF Sum, MapThenSumSet, MapThenFoldSet, SumsUp, ElementOf
  <2> QED BY <2>1, <2>2
<1>2. PICK f : SumsUp(f, SUBSET S) /\ Sum(S) = f[S]
  BY <1>1
<1>3. f[S] = IF S = {} THEN 0 ELSE 2^ElementOf(S) + f[S \ {ElementOf(S)}]
  BY <1>2 DEF SumsUp
<1>4. CASE S = {}
  BY <1>2, <1>3, <1>4
<1>5. CASE S # {}
  <2> DEFINE T == S \ {ElementOf(S)}
  <2>1. IsFiniteSet(T)
    BY <1>5, ElementIsIn, OneLess
  <2>2. PICK g : SumsUp(g, SUBSET T) /\ Sum(T) = g[T]
    BY <1>1, <2>1
  <2>3. f[T] = g[T]
    <3>1. T \in (SUBSET S) \cap (SUBSET T)
      OBVIOUS
    <3> HIDE DEF T
    <3> QED BY SMTT(30), <1>2, <2>2, <3>1, SumsAgree
  <2> QED BY <1>2, <1>3, <1>5, <2>2, <2>3
<1> QED BY <1>4, <1>5

\* A sum is that of any one element and the others.
LEMMA SumWithout ==
  ASSUME NEW S \in SUBSET Nat, IsFiniteSet(S)
  PROVE  Sum(S) \in Nat /\ \A x \in S : Sum(S \ {x}) \in Nat /\ Sum(S) = 2^x + Sum(S \ {x})
<1> DEFINE Good(T) == Sum(T) \in Nat /\ \A x \in T : Sum(T \ {x}) \in Nat /\ Sum(T) = 2^x + Sum(T \ {x})
           P == {n \in Nat : \A T \in SUBSET Nat : IsFiniteSet(T) /\ Cardinality(T) = n => Good(T)}
<1>1. 0 \in P
  <2>1. Sum({}) = 0
    BY SumStep, FS_EmptySet
  <2>2. Good({})
    BY <2>1
  <2> HIDE DEF Good
  <2> QED BY <2>2, FS_EmptySet
<1>2. ASSUME NEW n \in Nat, n \in P PROVE n + 1 \in P
  <2> SUFFICES ASSUME NEW T \in SUBSET Nat, IsFiniteSet(T), Cardinality(T) = n + 1 PROVE Good(T)
    BY DEF P
  <2> DEFINE y == ElementOf(T)
  <2>1. T # {}
    BY FS_EmptySet
  <2>2. y \in T /\ Sum(T) = 2^y + Sum(T \ {y})
    BY <2>1, ElementIsIn, SumStep
  <2> HIDE DEF y
  <2>3. ASSUME NEW x \in T PROVE IsFiniteSet(T \ {x}) /\ Cardinality(T \ {x}) = n /\ Good(T \ {x})
    <3>1. IsFiniteSet(T \ {x}) /\ Cardinality(T \ {x}) = n /\ T \ {x} \in SUBSET Nat
      BY OneLess
    <3> HIDE DEF Good
    <3> QED BY <1>2, <3>1
  <2>4. \A x \in T : 2^x \in Nat
    BY PowersDouble
  <2>5. Sum(T) \in Nat
    <3>1. 2^y \in Nat /\ Sum(T \ {y}) \in Nat
      BY <2>2, <2>3, <2>4
    <3> QED BY <2>2, <3>1
  <2>6. ASSUME NEW x \in T PROVE Sum(T) = 2^x + Sum(T \ {x})
    <3>1. CASE x = y
      BY <3>1, <2>2
    <3>2. CASE x # y
      <4> DEFINE both == T \ {x, y}
      <4>1. /\ both = (T \ {y}) \ {x} /\ both = (T \ {x}) \ {y}
            /\ x \in T \ {y} /\ y \in T \ {x}
        BY <2>2, <3>2
      <4>2. /\ Sum(T \ {y}) = 2^x + Sum(both) /\ Sum(T \ {x}) = 2^y + Sum(both)
            /\ Sum(both) \in Nat
        BY <2>2, <2>3, <4>1
      <4>3. Sum(T \ {y}) \in Nat /\ Sum(T \ {x}) \in Nat
        BY <2>2, <2>3
      <4> HIDE DEF both
      <4> QED BY <2>2, <2>4, <4>2, <4>3
    <3> QED BY <3>1, <3>2
  <2> QED BY <2>3, <2>5, <2>6
<1>3. Nat \subseteq P
  <2> HIDE DEF P
  <2> QED BY <1>1, <1>2, Counting
<1> QED BY <1>3, FS_CardinalityType

-----------------------------------------------------------------------------
(* Numbers through a frame.                                                *)

\* The binary digits of a number below its k-th.
Digits(n, k) == {j \in 0..(k - 1) : (n \div 2^j) % 2 = 1}

\* They sum up to the number's remainder by 2^k.
LEMMA DigitsSum ==
  ASSUME NEW n \in Nat, NEW k \in Nat
  PROVE  Sum(Digits(n, k)) = n % 2^k
<1> DEFINE P == {m \in Nat : Sum(Digits(n, m)) = n % 2^m}
<1>1. 0 \in P
  <2>1. Digits(n, 0) = {} /\ n % 2^0 = 0
    BY DEF Digits
  <2>2. Sum({}) = 0
    BY SumStep, FS_EmptySet
  <2> QED BY <2>1, <2>2
<1>2. ASSUME NEW m \in Nat, m \in P PROVE m + 1 \in P
  <2> DEFINE S == Digits(n, m + 1)
             digit == (n \div 2^m) % 2
             p == 2^m
  <2>1. p \in Nat /\ p > 0 /\ 2^(m + 1) = 2 * p
    BY PowersDouble
  <2> HIDE DEF p
  <2>2. n % 2^(m + 1) = (n % p) + p * ((n \div p) % 2)
    BY <2>1, OneMoreDigit
  <2>3. digit \in {0, 1} /\ n % p \in Int
    BY <2>1 DEF p
  <2>4. Digits(n, m) = S \ {m} /\ (m \in S <=> digit = 1)
    BY DEF Digits
  <2>5. Sum(S \ {m}) = n % p
    BY <1>2, <2>4 DEF p
  <2>6. Sum(S) = (n % p) + p * digit
    <3>1. S \in SUBSET Nat /\ IsFiniteSet(S)
      <4>1. S \in SUBSET (0..m)
        BY DEF Digits
      <4>2. IsFiniteSet(0..m)
        BY FS_Interval
      <4> QED BY <4>1, <4>2, FS_Subset
    <3> HIDE DEF S, digit
    <3>2. CASE digit = 1
      <4>1. Sum(S) = p + Sum(S \ {m})
        BY <2>4, <3>1, <3>2, SumWithout DEF p
      <4> QED BY <2>1, <2>3, <2>5, <3>2, <4>1
    <3>3. CASE digit = 0
      <4>1. S \ {m} = S
        BY <2>4, <3>3
      <4> QED BY <2>1, <2>3, <2>5, <3>3, <4>1
    <3> QED BY <2>3, <3>2, <3>3
  <2> QED BY <2>2, <2>6 DEF p
<1>3. Nat \subseteq P
  <2> HIDE DEF P
  <2> QED BY <1>1, <1>2, Counting
<1> QED BY <1>3

\* Dividing a multiple truncates nothing.
LEMMA NothingTruncated ==
  ASSUME NEW n \in Nat, NEW f \in Int, f # 0
  PROVE  Truncated(n * f, f) = n
<1> DEFINE size == IF f < 0 THEN -f ELSE f
<1>1. size \in Nat /\ size > 0
  OBVIOUS
<1>2. (size * n + 0) \div size = n
  <2> HIDE DEF size
  <2> QED BY <1>1, DivisionIsUnique
<1>3. n * f \in Int /\ (IF n * f < 0 THEN -(n * f) ELSE n * f) = size * n + 0
  <2>1. CASE f > 0
    <3>1. n * f >= 0
      BY <2>1
    <3> QED BY <2>1, <3>1
  <2>2. CASE f < 0
    <3>1. n * (-f) >= 0 /\ n * f = -(n * (-f))
      BY <2>2
    <3> QED BY <2>2, <3>1
  <2> QED BY <2>1, <2>2
<1>4. n # 0 => ((n * f < 0) <=> (f < 0))
  <2>1. CASE f > 0
    <3>1. n * f >= 0
      BY <2>1
    <3> QED BY <2>1, <3>1
  <2>2. CASE f < 0
    <3>1. n # 0 => n * (-f) > 0
      BY <2>2
    <3>2. n * f = -(n * (-f))
      BY <2>2
    <3> QED BY <2>2, <3>1, <3>2
  <2> QED BY <2>1, <2>2
<1> HIDE DEF size
<1>5. CASE n = 0
  BY <1>1, <1>2, <1>3, <1>5 DEF Truncated, size
<1>6. CASE n # 0
  BY <1>1, <1>2, <1>3, <1>4, <1>6 DEF Truncated, size
<1> QED BY <1>5, <1>6

\* A number that an unsigned signal can hold is read back from its raw value: the
\* codec's encoding and decoding are each other's inverse, whatever the scaling.
\* A signal of 32 bits holds one bit less, because decode_int takes it for signed.
THEOREM NumbersReadBack ==
  ASSUME NEW s, Coded(s), s.signed = FALSE, s.factor \in Int, s.offset \in Int,
         NEW n \in Nat, n < 2^s.bitLength, s.bitLength = 32 => n < 2^31,
         NEW data, Extract(s, data) = Raw(s, n * s.factor + s.offset)
  PROVE  DecodeFloat(s, data) = n * s.factor + s.offset
<1> DEFINE m == IF s.factor = 0 THEN 0 ELSE n
           long == s.bitLength
<1>1. long \in 1..32 /\ long \in Nat /\ 2^long \in Nat /\ 2^long > 0
  BY PowersDouble DEF Coded
<1>2. m \in Nat /\ m < 2^long /\ (long = 32 => m < 2^31) /\ m * s.factor = n * s.factor
  <2>1. CASE s.factor = 0
    BY <1>1, <2>1
  <2>2. CASE s.factor # 0
    BY <2>2
  <2> QED BY <2>1, <2>2
<1>3. Extract(s, data) = Digits(m, long)
  <2>1. (n * s.factor + s.offset) - s.offset = n * s.factor
    OBVIOUS
  <2>2. Raw(s, n * s.factor + s.offset) = BitsOf(s, m)
    BY <2>1, NothingTruncated DEF Raw
  <2>3. BitsOf(s, m) = Digits(m, long)
    BY DEF BitsOf, Exponents, Digits
  <2> QED BY <2>2, <2>3
<1> HIDE DEF m
<1>4. Sum(Digits(m, long)) = m
  <2> DEFINE p == 2^long
  <2>1. Sum(Digits(m, long)) = m % p
    BY <1>1, <1>2, DigitsSum
  <2>2. p \in Nat /\ p > 0 /\ m \in Int /\ 0 <= m /\ m < p
    BY <1>1, <1>2
  <2> HIDE DEF p
  <2>3. (p * 0 + m) % p = m
    BY <2>2, DivisionIsUnique
  <2> QED BY <2>1, <2>2, <2>3
<1>5. long = 32 => 31 \notin Digits(m, long)
  BY <1>2 DEF Digits
<1>6. DecodeInt(s, data) = m
  BY <1>3, <1>4, <1>5 DEF DecodeInt
<1> QED BY <1>2, <1>6 DEF DecodeFloat

-----------------------------------------------------------------------------
(* What a category of blocks owns of the state of a device, slot by slot.  *)

Kinds == {"output", "digIn", "virtIn", "flasher", "counter", "condition"}

Fields == {"var", "din", "dinLatch", "cinAge", "cinLatch", "viLatch", "flash", "count",
           "sample", "data", "wait", "tx"}

\* the fields with the memory of a category's blocks
Memory(kind) ==
  CASE kind = "digIn"   -> {"din", "dinLatch"}
    [] kind = "virtIn"  -> {"viLatch"}
    [] kind = "flasher" -> {"flash"}
    [] kind = "counter" -> {"count"}
    [] OTHER            -> {}

Shape(c, s) ==
  /\ DOMAIN s = Fields
  /\ DOMAIN s.var = VarMap(c)
  /\ DOMAIN s.din = DOMAIN c.inputs /\ DOMAIN s.dinLatch = DOMAIN c.inputs
  /\ DOMAIN s.cinAge = DOMAIN c.canInputs /\ DOMAIN s.cinLatch = DOMAIN c.canInputs
  /\ DOMAIN s.viLatch = DOMAIN c.virtualInputs
  /\ DOMAIN s.flash = DOMAIN c.flashers
  /\ DOMAIN s.count = DOMAIN c.counters
  /\ DOMAIN s.wait = FrameIds(c) /\ DOMAIN s.sample = DOMAIN c.canOutputs

\* t is s except for slot i of a category, or for all its slots
InSlot(kind, c, s, t, i) ==
  /\ Shape(c, t)
  /\ \A x \in VarMap(c) : x # <<kind, i>> => t.var[x] = s.var[x]
  /\ \A f \in Fields \ {"var"} : f \notin Memory(kind) => t[f] = s[f]
  /\ \A f \in Memory(kind) : \A j \in DOMAIN SlotsOf(kind, c) : j # i => t[f][j] = s[f][j]

InKind(kind, c, s, t) ==
  /\ Shape(c, t)
  /\ \A x \in VarMap(c) : x[1] # kind => t.var[x] = s.var[x]
  /\ \A f \in Fields \ {"var"} : f \notin Memory(kind) => t[f] = s[f]

\* s and t agree on slot j
SameSlot(kind, s, t, j) ==
  /\ t.var[<<kind, j>>] = s.var[<<kind, j>>]
  /\ \A f \in Memory(kind) : t[f][j] = s[f][j]

-----------------------------------------------------------------------------
\* The variables of a category's slots are in the variable map.
LEMMA OwnVariables ==
  ASSUME NEW c, NEW kind \in Kinds, NEW i \in DOMAIN SlotsOf(kind, c)
  PROVE  <<kind, i>> \in VarMap(c)
BY DEF Kinds, SlotsOf, VarMap, Slots

\* An update of a block changes nothing but what its slot owns: an output.
LEMMA OutputInSlot ==
  ASSUME NEW c, NEW s, Shape(c, s), NEW i \in DOMAIN c.outputs
  PROVE  InSlot("output", c, s, Profet(c, s, i), i)
BY DEF InSlot, Shape, Fields, Memory, Profet

\* A digital input.
LEMMA DigInInSlot ==
  ASSUME NEW c, NEW s, Shape(c, s), NEW i \in DOMAIN c.inputs, NEW pin
  PROVE  InSlot("digIn", c, s, DigIn(c, s, i, pin), i)
BY DEF InSlot, Shape, Fields, Memory, DigIn, SlotsOf

\* A virtual input.
LEMMA VirtInInSlot ==
  ASSUME NEW c, NEW s, Shape(c, s), NEW i \in DOMAIN c.virtualInputs
  PROVE  InSlot("virtIn", c, s, VirtIn(c, s, i), i)
BY DEF InSlot, Shape, Fields, Memory, VirtIn, SlotsOf

\* A flasher.
LEMMA FlasherInSlot ==
  ASSUME NEW c, NEW s, Shape(c, s), NEW i \in DOMAIN c.flashers
  PROVE  InSlot("flasher", c, s, Flasher(c, s, i), i)
BY DEF InSlot, Shape, Fields, Memory, Flasher, SlotsOf

\* A counter.
LEMMA CounterInSlot ==
  ASSUME NEW c, NEW s, Shape(c, s), NEW i \in DOMAIN c.counters
  PROVE  InSlot("counter", c, s, Counter(c, s, i), i)
BY DEF InSlot, Shape, Fields, Memory, Counter, SlotsOf

\* A condition.
LEMMA ConditionInSlot ==
  ASSUME NEW c, NEW s, Shape(c, s), NEW i \in DOMAIN c.conditions
  PROVE  InSlot("condition", c, s, Condition(c, s, i), i)
BY DEF InSlot, Shape, Fields, Memory, Condition

\* Any of them.
LEMMA UpdateInSlot ==
  ASSUME NEW c, NEW s, Shape(c, s), NEW kind \in Kinds, NEW i \in DOMAIN SlotsOf(kind, c), NEW pins
  PROVE  InSlot(kind, c, s, Update(kind, c, s, i, pins), i)
BY OutputInSlot, DigInInSlot, VirtInInSlot, FlasherInSlot, CounterInSlot, ConditionInSlot
   DEF Kinds, SlotsOf, Update

-----------------------------------------------------------------------------
(* A category updated slot after slot.                                     *)

\* What slot i of a category changes is within the category and leaves its other slots alone.
LEMMA SlotOfKind ==
  ASSUME NEW c, NEW kind \in Kinds, NEW i \in DOMAIN SlotsOf(kind, c), NEW s, NEW t, NEW u,
         InKind(kind, c, s, t), InSlot(kind, c, t, u, i)
  PROVE  /\ InKind(kind, c, s, u)
         /\ \A j \in DOMAIN SlotsOf(kind, c) : j # i => SameSlot(kind, t, u, j)
<1>1. InKind(kind, c, s, u)
  BY DEF InKind, InSlot
<1>2. ASSUME NEW j \in DOMAIN SlotsOf(kind, c), j # i PROVE SameSlot(kind, t, u, j)
  <2>1. <<kind, j>> \in VarMap(c) /\ <<kind, j>> # <<kind, i>>
    BY <1>2, OwnVariables
  <2> QED BY <1>2, <2>1 DEF InSlot, SameSlot
<1> QED BY <1>1, <1>2

\* the states before, between and after the updates of a category
Run(kind, c, s, pins, h) ==
  /\ h[0] = s
  /\ \A n \in 1..Len(SlotsOf(kind, c)) : h[n] = Update(kind, c, h[n - 1], n, pins)
  /\ InSlotOrder(kind, c, s, pins) = h[Len(SlotsOf(kind, c))]

\* They exist: the recursion is well-founded.
LEMMA AfterSlots ==
  ASSUME NEW c, NEW kind, NEW s, NEW pins, Len(SlotsOf(kind, c)) \in Nat
  PROVE  \E h : Run(kind, c, s, pins, h)
<1> DEFINE last == Len(SlotsOf(kind, c))
           next(r, n) == Update(kind, c, r, n, pins)
           Upto(h, n) == h = [k \in 0..n |-> IF k = 0 THEN s ELSE next(h[k - 1], k)]
           P == {n \in Nat : \E h : Upto(h, n)}
<1>1. 0 \in P
  <2>1. Upto([k \in 0..0 |-> s], 0)
    OBVIOUS
  <2> QED BY <2>1
<1>2. ASSUME NEW n \in Nat, n \in P PROVE n + 1 \in P
  <2> HIDE DEF next
  <2>1. PICK h : Upto(h, n)
    BY <1>2
  <2> DEFINE g == [k \in 0..(n + 1) |-> IF k = n + 1 THEN next(h[n], n + 1) ELSE h[k]]
  <2>2. ASSUME NEW k \in 0..(n + 1)
        PROVE  g[k] = IF k = 0 THEN s ELSE next(g[k - 1], k)
    <3>1. CASE k = n + 1
      BY <3>1
    <3>2. CASE k # n + 1
      <4>1. k \in 0..n /\ (k # 0 => k - 1 \in 0..(n + 1) /\ k - 1 # n + 1)
        BY <3>2
      <4>2. g[k] = h[k] /\ (k # 0 => g[k - 1] = h[k - 1])
        BY <4>1, <3>2
      <4>3. h[k] = IF k = 0 THEN s ELSE next(h[k - 1], k)
        BY <4>1, <2>1
      <4> QED BY <4>2, <4>3
    <3> QED BY <3>1, <3>2
  <2>3. g = [k \in 0..(n + 1) |-> g[k]]
    OBVIOUS
  <2>4. Upto(g, n + 1)
    <3> HIDE DEF g
    <3> QED BY <2>2, <2>3
  <2> HIDE DEF Upto, g
  <2> QED BY <2>4
<1>3. Nat \subseteq P
  <2> HIDE DEF P
  <2> QED BY <1>1, <1>2, Counting
<1> HIDE DEF next
<1>4. \E h : Upto(h, last)
  BY <1>3
<1> DEFINE after == CHOOSE h : Upto(h, last)
<1>5. Upto(after, last)
  BY <1>4
<1>6. InSlotOrder(kind, c, s, pins) = after[last]
  BY DEF InSlotOrder, next
<1> HIDE DEF after
<1>7. after[0] = s /\ \A n \in 1..last : after[n] = next(after[n - 1], n)
  BY <1>5
<1> QED BY <1>6, <1>7 DEF next, Run

\* r is the state in which slot j is updated, on the way of its category from s to t:
\* the slots before it are as they will be, it and those behind it as they were
Before(kind, c, s, t, j, r) ==
  /\ InKind(kind, c, s, r)
  /\ \A k \in DOMAIN SlotsOf(kind, c) :
       IF k < j THEN SameSlot(kind, r, t, k) ELSE SameSlot(kind, s, r, k)

\* What one category makes of a state: it changes only what its slots own, and each
\* slot is updated once, after the ones before it and before the ones behind it.
LEMMA CategoryUpdate ==
  ASSUME NEW c, NEW kind \in Kinds, NEW s, NEW pins, Shape(c, s),
         Len(SlotsOf(kind, c)) \in Nat, DOMAIN SlotsOf(kind, c) = 1..Len(SlotsOf(kind, c))
  PROVE  /\ InKind(kind, c, s, InSlotOrder(kind, c, s, pins))
         /\ \A j \in DOMAIN SlotsOf(kind, c) :
              \E r : /\ Before(kind, c, s, InSlotOrder(kind, c, s, pins), j, r)
                     /\ SameSlot(kind, Update(kind, c, r, j, pins), InSlotOrder(kind, c, s, pins), j)
<1>0. PICK h : Run(kind, c, s, pins, h)
  BY AfterSlots
<1> DEFINE last == Len(SlotsOf(kind, c))
           Done(r0, j, t) == /\ Before(kind, c, s, t, j, r0)
                             /\ SameSlot(kind, Update(kind, c, r0, j, pins), t, j)
<1>1. /\ h[0] = s
      /\ \A n \in 1..last : h[n] = Update(kind, c, h[n - 1], n, pins)
      /\ InSlotOrder(kind, c, s, pins) = h[last]
  BY <1>0 DEF Run
<1> DEFINE Good(n) == /\ InKind(kind, c, s, h[n])
                      /\ \A j \in (n + 1)..last : SameSlot(kind, s, h[n], j)
                      /\ \A j \in 1..n : \E r : Done(r, j, h[n])
           P == {n \in Nat : n <= last => Good(n)}
<1>2. 0 \in P
  <2>1. InKind(kind, c, s, s)
    BY DEF InKind
  <2>2. \A j \in 1..last : SameSlot(kind, s, s, j)
    BY DEF SameSlot
  <2>3. 1..0 = {} /\ 0 + 1 = 1
    OBVIOUS
  <2>4. Good(0)
    BY <2>1, <2>2, <2>3, <1>1
  <2> QED BY <2>4
<1>3. ASSUME NEW n \in Nat, n \in P PROVE n + 1 \in P
  <2>1. SUFFICES ASSUME n + 1 <= last PROVE Good(n + 1)
    BY DEF P
  <2>2. Good(n) /\ n + 1 \in 1..last /\ n + 1 \in DOMAIN SlotsOf(kind, c) /\ (n + 1) - 1 = n
    BY <1>3, <2>1
  <2> DEFINE t == h[n]
             u == h[n + 1]
  <2>3. u = Update(kind, c, t, n + 1, pins)
    BY <1>1, <2>2
  <2>4. InKind(kind, c, s, t) /\ Shape(c, t)
    BY <2>2 DEF InKind
  <2>5. InSlot(kind, c, t, u, n + 1)
    BY <2>2, <2>3, <2>4, UpdateInSlot
  <2>6. InKind(kind, c, s, u) /\ \A j \in DOMAIN SlotsOf(kind, c) : j # n + 1 => SameSlot(kind, t, u, j)
    <3> HIDE DEF t, u
    <3> QED BY <2>2, <2>4, <2>5, SlotOfKind
  <2>7. ASSUME NEW j \in (n + 2)..last PROVE SameSlot(kind, s, u, j)
    <3>1. j \in (n + 1)..last /\ j \in DOMAIN SlotsOf(kind, c) /\ j # n + 1
      BY <2>7
    <3>2. SameSlot(kind, s, t, j) /\ SameSlot(kind, t, u, j)
      BY <2>2, <2>6, <3>1
    <3> HIDE DEF t, u
    <3> QED BY <3>2 DEF SameSlot
  <2>8. ASSUME NEW j \in 1..n PROVE \E r : Done(r, j, u)
    <3>1. PICK r : Done(r, j, t)
      BY <2>2
    <3>2. j \in DOMAIN SlotsOf(kind, c) /\ j # n + 1 /\ j < n + 1
      BY <2>2
    <3>3. SameSlot(kind, t, u, j)
      BY <2>6, <3>2
    <3>4. SameSlot(kind, Update(kind, c, r, j, pins), u, j)
      <4> HIDE DEF t, u
      <4> QED BY <3>1, <3>3 DEF SameSlot
    <3>5. ASSUME NEW k \in DOMAIN SlotsOf(kind, c), k < j PROVE SameSlot(kind, r, u, k)
      <4>1. k # n + 1
        BY <3>2, <3>5
      <4>2. SameSlot(kind, r, t, k) /\ SameSlot(kind, t, u, k)
        BY <2>6, <3>1, <3>5, <4>1 DEF Before
      <4> HIDE DEF t, u
      <4> QED BY <4>2 DEF SameSlot
    <3>6. Before(kind, c, s, u, j, r)
      <4> HIDE DEF t, u
      <4> QED BY <3>1, <3>5 DEF Before
    <3> QED BY <3>4, <3>6
  <2>9. Done(t, n + 1, u)
    <3>1. ASSUME NEW k \in DOMAIN SlotsOf(kind, c)
          PROVE  IF k < n + 1 THEN SameSlot(kind, t, u, k) ELSE SameSlot(kind, s, t, k)
      <4>1. k \in 1..last
        OBVIOUS
      <4>2. CASE k < n + 1
        BY <2>6, <4>2
      <4>3. CASE ~(k < n + 1)
        <5>1. k \in (n + 1)..last
          BY <4>1, <4>3
        <5> QED BY <2>2, <4>3, <5>1
      <4> QED BY <4>2, <4>3
    <3>2. SameSlot(kind, u, u, n + 1)
      BY DEF SameSlot
    <3>3. Before(kind, c, s, u, n + 1, t)
      <4> HIDE DEF t, u
      <4> QED BY <2>4, <3>1 DEF Before
    <3> QED BY <2>3, <3>2, <3>3
  <2>10. (n + 1) + 1 = n + 2 /\ \A j \in 1..(n + 1) : j \in 1..n \/ j = n + 1
    OBVIOUS
  <2> HIDE DEF t, Done
  <2> QED BY <2>6, <2>7, <2>8, <2>9, <2>10
<1>4. last \in P
  <2> HIDE DEF P
  <2> QED BY <1>2, <1>3, Counting
<1>5. Good(last)
  BY <1>4
<1> QED BY <1>1, <1>5

-----------------------------------------------------------------------------
(* The stages of a cycle, named by what was done last.                     *)

Driven(c, s, pins, rx)   == InSlotOrder("output", c, Receive(c, s, rx), pins)
Sensed(c, s, pins, rx)   == InSlotOrder("digIn", c, Driven(c, s, pins, rx), pins)
Waited(c, s, pins, rx)   == CanTimeouts(c, Sensed(c, s, pins, rx))
Sent(c, s, pins, rx)     == CanOutputs(c, Waited(c, s, pins, rx))
Combined(c, s, pins, rx) == InSlotOrder("virtIn", c, Sent(c, s, pins, rx), pins)
Flashed(c, s, pins, rx)  == InSlotOrder("flasher", c, Combined(c, s, pins, rx), pins)
CountedUp(c, s, pins, rx) == InSlotOrder("counter", c, Flashed(c, s, pins, rx), pins)
Decided(c, s, pins, rx)  == InSlotOrder("condition", c, CountedUp(c, s, pins, rx), pins)

\* A cycle runs through these stages and then lets the time pass.
LEMMA StepStages ==
  ASSUME NEW c, NEW s, NEW pins, NEW rx
  PROVE  Step(c, s, pins, rx) = Tick(c, Decided(c, s, pins, rx))
BY DEF Step, Driven, Sensed, Waited, Sent, Combined, Flashed, CountedUp, Decided

\* The slots of a category are numbered from 1.
LEMMA SlotsAreNumbered ==
  ASSUME NEW c, Runs(c), NEW kind \in Kinds
  PROVE  Len(SlotsOf(kind, c)) \in Nat /\ DOMAIN SlotsOf(kind, c) = 1..Len(SlotsOf(kind, c))
<1>1. \A slots \in {c.inputs, c.canInputs, c.outputs, c.canOutputs,
                    c.virtualInputs, c.flashers, c.counters, c.conditions} :
        slots \in Seq(Range(slots))
  BY DEF Runs, Listed
<1>2. SlotsOf(kind, c) \in {c.inputs, c.canInputs, c.outputs, c.canOutputs,
                            c.virtualInputs, c.flashers, c.counters, c.conditions}
  BY DEF SlotsOf, Kinds
<1> DEFINE slots == SlotsOf(kind, c)
<1> HIDE DEF slots
<1>3. slots \in Seq(Range(slots))
  BY <1>1, <1>2 DEF slots
<1>4. Len(slots) \in Nat /\ DOMAIN slots = 1..Len(slots)
  BY <1>3
<1> QED BY <1>4 DEF slots

\* Taking in the received frames changes only the CAN inputs.
LEMMA ReceiveKeeps ==
  ASSUME NEW c, NEW s, NEW rx, Shape(c, s), NEW t, t = Receive(c, s, rx)
  PROVE  /\ Shape(c, t)
         /\ \A x \in VarMap(c) : x[1] \notin {"canIn", "canVal"} => t.var[x] = s.var[x]
         /\ \A f \in Fields \ {"var", "cinAge", "cinLatch"} : t[f] = s[f]
BY DEF Shape, Fields, Receive

\* The time-outs change only the variables of the CAN inputs.
LEMMA TimeoutsKeep ==
  ASSUME NEW c, NEW s, Shape(c, s), NEW t, t = CanTimeouts(c, s)
  PROVE  /\ Shape(c, t)
         /\ \A x \in VarMap(c) : x[1] \notin {"canIn", "canVal"} => t.var[x] = s.var[x]
         /\ \A f \in Fields \ {"var"} : t[f] = s[f]
BY DEF Shape, Fields, CanTimeouts

\* The CAN outputs change no variable.
LEMMA CanOutputsKeep ==
  ASSUME NEW c, NEW s, Shape(c, s), NEW t, t = CanOutputs(c, s)
  PROVE  /\ Shape(c, t)
         /\ \A f \in Fields \ {"sample", "wait", "data", "tx"} : t[f] = s[f]
BY DEF Shape, Fields, CanOutputs

\* The passing of time changes only ages and waits.
LEMMA TickKeeps ==
  ASSUME NEW c, NEW s, Shape(c, s), NEW t, t = Tick(c, s)
  PROVE  /\ Shape(c, t)
         /\ \A f \in Fields \ {"din", "cinAge", "flash", "count", "wait"} : t[f] = s[f]
BY DEF Shape, Fields, Tick

\* Each stage has a state of the device to start from and changes what is its own.
LEMMA StagesKeep ==
  ASSUME NEW c, Runs(c), NEW s, NEW pins, NEW rx, Shape(c, s)
  PROVE  /\ Shape(c, Receive(c, s, rx))
         /\ InKind("output", c, Receive(c, s, rx), Driven(c, s, pins, rx))
         /\ InKind("digIn", c, Driven(c, s, pins, rx), Sensed(c, s, pins, rx))
         /\ Shape(c, Waited(c, s, pins, rx))
         /\ Shape(c, Sent(c, s, pins, rx))
         /\ InKind("virtIn", c, Sent(c, s, pins, rx), Combined(c, s, pins, rx))
         /\ InKind("flasher", c, Combined(c, s, pins, rx), Flashed(c, s, pins, rx))
         /\ InKind("counter", c, Flashed(c, s, pins, rx), CountedUp(c, s, pins, rx))
         /\ InKind("condition", c, CountedUp(c, s, pins, rx), Decided(c, s, pins, rx))
<1>1. ASSUME NEW kind \in Kinds, NEW t, Shape(c, t)
      PROVE  InKind(kind, c, t, InSlotOrder(kind, c, t, pins))
  BY <1>1, SlotsAreNumbered, CategoryUpdate
<1>2. \A kind, t, u : InKind(kind, c, t, u) => Shape(c, u)
  BY DEF InKind
<1>3. {"output", "digIn", "virtIn", "flasher", "counter", "condition"} \subseteq Kinds
  BY DEF Kinds
<1>4. Shape(c, Receive(c, s, rx))
  BY ReceiveKeeps
<1>5. InKind("output", c, Receive(c, s, rx), Driven(c, s, pins, rx))
  BY <1>1, <1>3, <1>4 DEF Driven
<1>6. InKind("digIn", c, Driven(c, s, pins, rx), Sensed(c, s, pins, rx))
  BY <1>1, <1>2, <1>3, <1>5 DEF Sensed
<1>7. Shape(c, Waited(c, s, pins, rx))
  BY <1>2, <1>6, TimeoutsKeep DEF Waited
<1>8. Shape(c, Sent(c, s, pins, rx))
  BY <1>7, CanOutputsKeep DEF Sent
<1>9. InKind("virtIn", c, Sent(c, s, pins, rx), Combined(c, s, pins, rx))
  BY <1>1, <1>3, <1>8 DEF Combined
<1>10. InKind("flasher", c, Combined(c, s, pins, rx), Flashed(c, s, pins, rx))
  BY <1>1, <1>2, <1>3, <1>9 DEF Flashed
<1>11. InKind("counter", c, Flashed(c, s, pins, rx), CountedUp(c, s, pins, rx))
  BY <1>1, <1>2, <1>3, <1>10 DEF CountedUp
<1>12. InKind("condition", c, CountedUp(c, s, pins, rx), Decided(c, s, pins, rx))
  BY <1>1, <1>2, <1>3, <1>11 DEF Decided
<1> QED BY <1>4, <1>5, <1>6, <1>7, <1>8, <1>9, <1>10, <1>11, <1>12

-----------------------------------------------------------------------------
(* What one cycle makes of a slot, category by category.                   *)

\* A cycle has a state of the device to end with.
LEMMA StepShape ==
  ASSUME NEW c, Runs(c), NEW s, NEW pins, NEW rx, Shape(c, s)
  PROVE  Shape(c, Step(c, s, pins, rx))
<1>1. Shape(c, Decided(c, s, pins, rx))
  BY StagesKeep DEF InKind
<1> QED BY <1>1, StepStages, TickKeeps

\* A stage leaves alone the variables of the categories that it does not update.
LEMMA VariablesPass ==
  ASSUME NEW c, Runs(c), NEW s, NEW pins, NEW rx, Shape(c, s), NEW x \in VarMap(c)
  PROVE  /\ x[1] \notin {"canIn", "canVal"} => Receive(c, s, rx).var[x] = s.var[x]
         /\ x[1] # "output" => Driven(c, s, pins, rx).var[x] = Receive(c, s, rx).var[x]
         /\ x[1] # "digIn" => Sensed(c, s, pins, rx).var[x] = Driven(c, s, pins, rx).var[x]
         /\ x[1] \notin {"canIn", "canVal"} =>
              Waited(c, s, pins, rx).var[x] = Sensed(c, s, pins, rx).var[x]
         /\ Sent(c, s, pins, rx).var[x] = Waited(c, s, pins, rx).var[x]
         /\ x[1] # "virtIn" => Combined(c, s, pins, rx).var[x] = Sent(c, s, pins, rx).var[x]
         /\ x[1] # "flasher" => Flashed(c, s, pins, rx).var[x] = Combined(c, s, pins, rx).var[x]
         /\ x[1] # "counter" => CountedUp(c, s, pins, rx).var[x] = Flashed(c, s, pins, rx).var[x]
         /\ x[1] # "condition" => Decided(c, s, pins, rx).var[x] = CountedUp(c, s, pins, rx).var[x]
         /\ Step(c, s, pins, rx).var[x] = Decided(c, s, pins, rx).var[x]
<1>1. x[1] \notin {"canIn", "canVal"} => Receive(c, s, rx).var[x] = s.var[x]
  BY ReceiveKeeps
<1>2. x[1] \notin {"canIn", "canVal"} => Waited(c, s, pins, rx).var[x] = Sensed(c, s, pins, rx).var[x]
  <2>1. Shape(c, Sensed(c, s, pins, rx))
    BY StagesKeep DEF InKind
  <2> QED BY <2>1, TimeoutsKeep DEF Waited
<1>3. Sent(c, s, pins, rx).var = Waited(c, s, pins, rx).var
  BY StagesKeep, CanOutputsKeep DEF Sent, Fields
<1>4. Step(c, s, pins, rx).var = Decided(c, s, pins, rx).var
  <2>1. Shape(c, Decided(c, s, pins, rx))
    BY StagesKeep DEF InKind
  <2> QED BY <2>1, StepStages, TickKeeps DEF Fields
<1>5. /\ x[1] # "output" => Driven(c, s, pins, rx).var[x] = Receive(c, s, rx).var[x]
      /\ x[1] # "digIn" => Sensed(c, s, pins, rx).var[x] = Driven(c, s, pins, rx).var[x]
      /\ x[1] # "virtIn" => Combined(c, s, pins, rx).var[x] = Sent(c, s, pins, rx).var[x]
  BY StagesKeep DEF InKind
<1>6. /\ x[1] # "flasher" => Flashed(c, s, pins, rx).var[x] = Combined(c, s, pins, rx).var[x]
      /\ x[1] # "counter" => CountedUp(c, s, pins, rx).var[x] = Flashed(c, s, pins, rx).var[x]
      /\ x[1] # "condition" => Decided(c, s, pins, rx).var[x] = CountedUp(c, s, pins, rx).var[x]
  BY StagesKeep DEF InKind
<1> QED BY <1>1, <1>2, <1>3, <1>4, <1>5, <1>6

\* A stage leaves alone the memory of what it does not update.
LEMMA MemoryPasses ==
  ASSUME NEW c, Runs(c), NEW s, NEW pins, NEW rx, Shape(c, s), NEW f \in Fields \ {"var"}
  PROVE  /\ f \notin {"cinAge", "cinLatch"} => Receive(c, s, rx)[f] = s[f]
         /\ Driven(c, s, pins, rx)[f] = Receive(c, s, rx)[f]
         /\ f \notin {"din", "dinLatch"} => Sensed(c, s, pins, rx)[f] = Driven(c, s, pins, rx)[f]
         /\ Waited(c, s, pins, rx)[f] = Sensed(c, s, pins, rx)[f]
         /\ f \notin {"sample", "wait", "data", "tx"} =>
              Sent(c, s, pins, rx)[f] = Waited(c, s, pins, rx)[f]
         /\ f # "viLatch" => Combined(c, s, pins, rx)[f] = Sent(c, s, pins, rx)[f]
         /\ f # "flash" => Flashed(c, s, pins, rx)[f] = Combined(c, s, pins, rx)[f]
         /\ f # "count" => CountedUp(c, s, pins, rx)[f] = Flashed(c, s, pins, rx)[f]
         /\ Decided(c, s, pins, rx)[f] = CountedUp(c, s, pins, rx)[f]
         /\ f \notin {"din", "cinAge", "flash", "count", "wait"} =>
              Step(c, s, pins, rx)[f] = Decided(c, s, pins, rx)[f]
<1>1. f \notin {"cinAge", "cinLatch"} => Receive(c, s, rx)[f] = s[f]
  BY ReceiveKeeps
<1>2. Waited(c, s, pins, rx)[f] = Sensed(c, s, pins, rx)[f]
  <2>1. Shape(c, Sensed(c, s, pins, rx))
    BY StagesKeep DEF InKind
  <2> QED BY <2>1, TimeoutsKeep DEF Waited
<1>3. f \notin {"sample", "wait", "data", "tx"} => Sent(c, s, pins, rx)[f] = Waited(c, s, pins, rx)[f]
  BY StagesKeep, CanOutputsKeep DEF Sent
<1>4. f \notin {"din", "cinAge", "flash", "count", "wait"} =>
        Step(c, s, pins, rx)[f] = Decided(c, s, pins, rx)[f]
  <2>1. Shape(c, Decided(c, s, pins, rx))
    BY StagesKeep DEF InKind
  <2> QED BY <2>1, StepStages, TickKeeps
<1>5. /\ Driven(c, s, pins, rx)[f] = Receive(c, s, rx)[f]
      /\ f \notin {"din", "dinLatch"} => Sensed(c, s, pins, rx)[f] = Driven(c, s, pins, rx)[f]
      /\ f # "viLatch" => Combined(c, s, pins, rx)[f] = Sent(c, s, pins, rx)[f]
  BY StagesKeep DEF InKind, Memory
<1>6. /\ f # "flash" => Flashed(c, s, pins, rx)[f] = Combined(c, s, pins, rx)[f]
      /\ f # "count" => CountedUp(c, s, pins, rx)[f] = Flashed(c, s, pins, rx)[f]
      /\ Decided(c, s, pins, rx)[f] = CountedUp(c, s, pins, rx)[f]
  BY StagesKeep DEF InKind, Memory
<1> QED BY <1>1, <1>2, <1>3, <1>4, <1>5, <1>6

\* A category updates each of its slots once, from a state of the device in which
\* the slot is as the cycle found it.
LEMMA SlotUpdated ==
  ASSUME NEW c, Runs(c), NEW kind \in Kinds, NEW s, NEW pins, Shape(c, s),
         NEW i \in DOMAIN SlotsOf(kind, c)
  PROVE  \E r : /\ Before(kind, c, s, InSlotOrder(kind, c, s, pins), i, r)
                /\ InKind(kind, c, s, r) /\ SameSlot(kind, s, r, i)
                /\ SameSlot(kind, Update(kind, c, r, i, pins), InSlotOrder(kind, c, s, pins), i)
<1>1. PICK r : /\ Before(kind, c, s, InSlotOrder(kind, c, s, pins), i, r)
               /\ SameSlot(kind, Update(kind, c, r, i, pins), InSlotOrder(kind, c, s, pins), i)
  BY SlotsAreNumbered, CategoryUpdate
<1>2. i \in Nat /\ ~(i < i)
  BY SlotsAreNumbered
<1>3. InKind(kind, c, s, r) /\ SameSlot(kind, s, r, i)
  BY <1>1, <1>2 DEF Before
<1> QED BY <1>1, <1>3

\* An output is driven by what the variables are once the frames were received,
\* except for the outputs.
LEMMA CycleOutput ==
  ASSUME NEW c, Runs(c), NEW s, NEW pins, NEW rx, Shape(c, s), NEW i \in DOMAIN c.outputs
  PROVE  \E r : /\ InKind("output", c, Receive(c, s, rx), r)
                /\ Step(c, s, pins, rx).var[<<"output", i>>] = Profet(c, r, i).var[<<"output", i>>]
<1> DEFINE x == <<"output", i>>
<1>1. "output" \in Kinds /\ i \in DOMAIN SlotsOf("output", c) /\ x \in VarMap(c) /\ x[1] = "output"
  BY DEF Kinds, SlotsOf, VarMap, Slots
<1>2. PICK r : /\ InKind("output", c, Receive(c, s, rx), r)
               /\ SameSlot("output", Update("output", c, r, i, pins), Driven(c, s, pins, rx), i)
  BY <1>1, StagesKeep, SlotUpdated DEF Driven
<1>3. Driven(c, s, pins, rx).var[x] = Profet(c, r, i).var[x]
  BY <1>2 DEF SameSlot, Update
<1> HIDE DEF x
<1>4. Step(c, s, pins, rx).var[x] = Driven(c, s, pins, rx).var[x]
  BY <1>1, VariablesPass
<1> QED BY <1>2, <1>3, <1>4 DEF x

\* A counter is updated with its count and memory of the cycle before.
LEMMA CycleCounter ==
  ASSUME NEW c, Runs(c), NEW s, NEW pins, NEW rx, Shape(c, s), NEW i \in DOMAIN c.counters
  PROVE  \E r : /\ Shape(c, r) /\ r.var[<<"counter", i>>] = s.var[<<"counter", i>>]
                /\ r.count[i] = s.count[i]
                /\ Step(c, s, pins, rx).var[<<"counter", i>>] = Counter(c, r, i).var[<<"counter", i>>]
<1> DEFINE x == <<"counter", i>>
           flashed == Flashed(c, s, pins, rx)
<1>1. "counter" \in Kinds /\ i \in DOMAIN SlotsOf("counter", c) /\ x \in VarMap(c) /\ x[1] = "counter"
  BY DEF Kinds, SlotsOf, VarMap, Slots
<1>2. Shape(c, flashed)
  BY StagesKeep DEF InKind
<1>3. PICK r : /\ InKind("counter", c, flashed, r) /\ SameSlot("counter", flashed, r, i)
               /\ SameSlot("counter", Update("counter", c, r, i, pins), CountedUp(c, s, pins, rx), i)
  BY <1>1, <1>2, SlotUpdated DEF CountedUp
<1>4. CountedUp(c, s, pins, rx).var[x] = Counter(c, r, i).var[x]
  BY <1>3 DEF SameSlot, Update
<1>5. r.var[x] = flashed.var[x] /\ r.count[i] = flashed.count[i] /\ Shape(c, r)
  BY <1>3 DEF SameSlot, Memory, InKind
<1>6. flashed.count = s.count
  BY MemoryPasses DEF Fields
<1> HIDE DEF x, flashed
<1>7. flashed.var[x] = s.var[x] /\ Step(c, s, pins, rx).var[x] = CountedUp(c, s, pins, rx).var[x]
  BY <1>1, VariablesPass DEF flashed
<1> QED BY <1>4, <1>5, <1>6, <1>7 DEF x

\* One update of a digital input, for the parts that its slot owns.
LEMMA DigInParts ==
  ASSUME NEW c, NEW r, Shape(c, r), NEW i \in DOMAIN c.inputs, NEW pin
  PROVE  LET slot  == c.inputs[i]
             d     == Sampled(r.din[i], pin)
             latch == LatchCheck(r.dinLatch[i], slot.mode, slot.invert, pin)
             u     == DigIn(c, r, i, pin)
         IN  /\ ~slot.enabled => /\ u.var[<<"digIn", i>>] = 0
                                 /\ u.din[i] = r.din[i] /\ u.dinLatch[i] = r.dinLatch[i]
             /\ slot.enabled =>
                  /\ u.din[i] = Debounced(slot, d)
                  /\ MustRead(slot, d) => /\ u.dinLatch[i] = latch
                                          /\ u.var[<<"digIn", i>>] = Value(latch.out)
                  /\ ~MustRead(slot, d) => /\ u.dinLatch[i] = r.dinLatch[i]
                                           /\ u.var[<<"digIn", i>>] = r.var[<<"digIn", i>>]
<1>1. <<"digIn", i>> \in VarMap(c)
  BY DEF VarMap, Slots
<1> QED BY <1>1 DEF DigIn, Shape, Fields

\* A digital input is updated with its variable, debouncing and latch of the cycle
\* before and the level of its pin.
LEMMA CycleDigIn ==
  ASSUME NEW c, Runs(c), NEW s, NEW pins, NEW rx, Shape(c, s), NEW i \in DOMAIN c.inputs
  PROVE  \E r : /\ Shape(c, r) /\ r.var[<<"digIn", i>>] = s.var[<<"digIn", i>>]
                /\ r.din[i] = s.din[i] /\ r.dinLatch[i] = s.dinLatch[i]
                /\ LET t == Step(c, s, pins, rx)
                       u == DigIn(c, r, i, pins[i])
                   IN  /\ t.var[<<"digIn", i>>] = u.var[<<"digIn", i>>]
                       /\ t.dinLatch[i] = u.dinLatch[i]
                       /\ t.din[i] = [u.din[i] EXCEPT !.age = Older(@, CycleMs, MaxAge)]
<1> DEFINE x == <<"digIn", i>>
           driven == Driven(c, s, pins, rx)
           sensed == Sensed(c, s, pins, rx)
           t == Step(c, s, pins, rx)
<1>1. "digIn" \in Kinds /\ i \in DOMAIN SlotsOf("digIn", c) /\ x \in VarMap(c) /\ x[1] = "digIn"
  BY DEF Kinds, SlotsOf, VarMap, Slots
<1>2. Shape(c, driven)
  BY StagesKeep DEF InKind
<1>3. PICK r : /\ InKind("digIn", c, driven, r) /\ SameSlot("digIn", driven, r, i)
               /\ SameSlot("digIn", Update("digIn", c, r, i, pins), sensed, i)
  BY <1>1, <1>2, SlotUpdated DEF Sensed
<1> DEFINE u == DigIn(c, r, i, pins[i])
<1>4. sensed.var[x] = u.var[x] /\ sensed.din[i] = u.din[i] /\ sensed.dinLatch[i] = u.dinLatch[i]
  BY <1>3 DEF SameSlot, Update, Memory
<1>5. /\ r.var[x] = driven.var[x] /\ r.din[i] = driven.din[i] /\ r.dinLatch[i] = driven.dinLatch[i]
      /\ Shape(c, r)
  BY <1>3 DEF SameSlot, Memory, InKind
<1>6. driven.din = s.din /\ driven.dinLatch = s.dinLatch
  BY MemoryPasses DEF Fields
<1>7. t.dinLatch = sensed.dinLatch /\ Decided(c, s, pins, rx).din = sensed.din
  BY MemoryPasses DEF Fields
<1>8. t.din[i] = [sensed.din[i] EXCEPT !.age = Older(@, CycleMs, MaxAge)]
  <2>1. Shape(c, Decided(c, s, pins, rx))
    BY StagesKeep DEF InKind
  <2>2. t.din[i] = [Decided(c, s, pins, rx).din[i] EXCEPT !.age = Older(@, CycleMs, MaxAge)]
    BY <2>1, StepStages DEF Tick, Shape, Fields
  <2> QED BY <1>7, <2>2
<1> HIDE DEF x, driven, sensed, t, u
<1>9. driven.var[x] = s.var[x] /\ t.var[x] = sensed.var[x]
  BY <1>1, VariablesPass DEF driven, sensed, t
<1>10. /\ t.var[x] = u.var[x] /\ t.dinLatch[i] = u.dinLatch[i]
       /\ t.din[i] = [u.din[i] EXCEPT !.age = Older(@, CycleMs, MaxAge)]
  BY <1>4, <1>7, <1>8, <1>9
<1> QED BY <1>5, <1>6, <1>9, <1>10 DEF x, t, u

\* the latch of a CAN input after a frame
CanLatch(slot, l, data) ==
  LatchCheck(l, slot.mode, FALSE, Compare(slot.operator, DecodeFloat(slot, data), slot.operand))

\* A CAN input is brought up to date by a frame of its id and then cleared if it
\* has timed out.
LEMMA CycleCanIn ==
  ASSUME NEW c, Runs(c), NEW s, NEW pins, NEW rx, Shape(c, s), NEW i \in DOMAIN c.canInputs,
         NEW t, t = Step(c, s, pins, rx)
  PROVE  LET slot  == c.canInputs[i]
             heard == i \in Heard(c, rx)
             value == DecodeFloat(slot, rx[slot.id])
             latch == CanLatch(slot, s.cinLatch[i], rx[slot.id])
             age   == IF heard THEN 0 ELSE s.cinAge[i]
             out   == slot.enabled /\ slot.timeoutEnabled /\ age > slot.timeout
         IN  /\ t.var[<<"canVal", i>>] =
                  IF out THEN 0 ELSE IF heard THEN value ELSE s.var[<<"canVal", i>>]
             /\ t.var[<<"canIn", i>>] =
                  IF out THEN 0 ELSE IF heard THEN Value(latch.out) ELSE s.var[<<"canIn", i>>]
             /\ t.cinLatch[i] = IF heard THEN latch ELSE s.cinLatch[i]
             /\ t.cinAge[i] = IF slot.timeoutEnabled THEN Older(age, CycleMs, MaxAge) ELSE 0
<1> DEFINE slot  == c.canInputs[i]
           heard == i \in Heard(c, rx)
           value == DecodeFloat(slot, rx[slot.id])
           latch == CanLatch(slot, s.cinLatch[i], rx[slot.id])
           age   == IF heard THEN 0 ELSE s.cinAge[i]
           out   == slot.enabled /\ slot.timeoutEnabled /\ age > slot.timeout
           r     == Receive(c, s, rx)
           sensed == Sensed(c, s, pins, rx)
           waited == Waited(c, s, pins, rx)
           decided == Decided(c, s, pins, rx)
           v     == <<"canVal", i>>
           x     == <<"canIn", i>>
<1>1. v \in VarMap(c) /\ x \in VarMap(c) /\ v[1] = "canVal" /\ x[1] = "canIn" /\ v[2] = i /\ x[2] = i
  BY DEF VarMap, Slots
<1>2. /\ r.var[v] = IF heard THEN value ELSE s.var[v]
      /\ r.var[x] = IF heard THEN Value(latch.out) ELSE s.var[x]
      /\ r.cinLatch[i] = IF heard THEN latch ELSE s.cinLatch[i]
      /\ r.cinAge[i] = age
  <2> HIDE DEF v, x
  <2>1. r.cinAge[i] = age
    BY DEF Receive, Shape, Fields
  <2>2. r.cinLatch[i] = IF heard THEN latch ELSE s.cinLatch[i]
    BY DEF Receive, Shape, Fields, CanLatch
  <2>3. r.var[v] = IF heard THEN value ELSE s.var[v]
    BY <1>1 DEF Receive, Shape, Fields
  <2>4. r.var[x] = IF heard THEN Value(latch.out) ELSE s.var[x]
    BY <1>1 DEF Receive, Shape, Fields, CanLatch
  <2> QED BY <2>1, <2>2, <2>3, <2>4
<1>3. Shape(c, sensed) /\ Shape(c, decided)
  BY StagesKeep DEF InKind
<1>4. /\ sensed.cinAge = r.cinAge /\ decided.cinAge = r.cinAge
      /\ t.cinLatch = r.cinLatch
  BY MemoryPasses DEF Fields
<1> HIDE DEF sensed, waited, decided, r
<1>5. t.cinAge[i] = IF slot.timeoutEnabled THEN Older(decided.cinAge[i], CycleMs, MaxAge) ELSE 0
  BY <1>3, StepStages DEF Tick, Shape, Fields, decided
<1>6. /\ waited.var[v] = IF i \in TimedOut(c, sensed) THEN 0 ELSE sensed.var[v]
      /\ waited.var[x] = IF i \in TimedOut(c, sensed) THEN 0 ELSE sensed.var[x]
  BY <1>1, <1>3 DEF Waited, waited, sensed, CanTimeouts, Shape, Fields
<1>7. i \in TimedOut(c, sensed) <=> out
  BY <1>2, <1>4 DEF TimedOut
<1> HIDE DEF v, x, heard, value, latch, age, out
<1>8. /\ sensed.var[v] = r.var[v] /\ sensed.var[x] = r.var[x]
      /\ t.var[v] = waited.var[v] /\ t.var[x] = waited.var[x]
  BY <1>1, VariablesPass DEF sensed, r, waited
<1>9. /\ t.var[v] = IF out THEN 0 ELSE IF heard THEN value ELSE s.var[v]
      /\ t.var[x] = IF out THEN 0 ELSE IF heard THEN Value(latch.out) ELSE s.var[x]
  BY <1>2, <1>6, <1>7, <1>8
<1>10. /\ t.cinLatch[i] = IF heard THEN latch ELSE s.cinLatch[i]
       /\ t.cinAge[i] = IF slot.timeoutEnabled THEN Older(age, CycleMs, MaxAge) ELSE 0
  BY <1>2, <1>4, <1>5
<1> QED BY <1>9, <1>10 DEF v, x, heard, value, latch, age, out

\* The frames that are due are sent, and the others wait on.
LEMMA CycleFrames ==
  ASSUME NEW c, Runs(c), NEW s, NEW pins, NEW rx, Shape(c, s),
         NEW t, t = Step(c, s, pins, rx)
  PROVE  /\ DOMAIN t.tx = {id \in FrameIds(c) : s.wait[id] = 0}
         /\ \A id \in FrameIds(c) :
              LET w == IF s.wait[id] = 0 THEN FrameInterval(c, id) ELSE s.wait[id]
              IN  t.wait[id] = IF w > CycleMs THEN w - CycleMs ELSE 0
<1> DEFINE waited == Waited(c, s, pins, rx)
           sent == Sent(c, s, pins, rx)
           decided == Decided(c, s, pins, rx)
<1>1. Shape(c, waited) /\ Shape(c, decided)
  BY StagesKeep DEF InKind
<1>2. waited.wait = s.wait /\ decided.wait = sent.wait /\ t.tx = sent.tx
  BY MemoryPasses DEF Fields
<1> HIDE DEF waited, decided
<1>3. DOMAIN sent.tx = {id \in FrameIds(c) : waited.wait[id] = 0}
  BY <1>1 DEF Sent, waited, CanOutputs, Shape, Fields
<1>4. \A id \in FrameIds(c) :
        sent.wait[id] = IF waited.wait[id] = 0 THEN FrameInterval(c, id) ELSE waited.wait[id]
  BY <1>1 DEF Sent, waited, CanOutputs, Shape, Fields
<1>5. \A id \in FrameIds(c) :
        t.wait[id] = IF decided.wait[id] > CycleMs THEN decided.wait[id] - CycleMs ELSE 0
  BY <1>1, StepStages DEF Tick, Shape, Fields, decided
<1> HIDE DEF sent
<1> QED BY <1>2, <1>3, <1>4, <1>5

-----------------------------------------------------------------------------
(* What a block reads in a cycle: of the categories before its own and of  *)
(* the slots before it, what this cycle made of them, of the others what   *)
(* the last one did.  CAN inputs and outputs, which run at other times,    *)
(* are left aside.                                                         *)

Logic == {"virtIn", "flasher", "counter", "condition"}

\* the categories that a cycle updates after this one
Later(kind) ==
  CASE kind = "virtIn"  -> {"flasher", "counter", "condition"}
    [] kind = "flasher" -> {"counter", "condition"}
    [] kind = "counter" -> {"condition"}
    [] OTHER            -> {}

\* what slot i of a category reads of x in the cycle from s to t
Reading(kind, i, s, t, x) ==
  IF x[1] \in Later(kind) \/ (x[1] = kind /\ x[2] >= i) THEN s.var[x] ELSE t.var[x]

Stage(kind, c, s, pins, rx) ==
  CASE kind = "virtIn"    -> Sent(c, s, pins, rx)
    [] kind = "flasher"   -> Combined(c, s, pins, rx)
    [] kind = "counter"   -> Flashed(c, s, pins, rx)
    [] kind = "condition" -> CountedUp(c, s, pins, rx)

\* The state from which a category starts: what is its own or comes later is as the
\* last cycle left it, all else as this one will; and what it makes of its own stays.
LEMMA StageVariables ==
  ASSUME NEW c, Runs(c), NEW s, NEW pins, NEW rx, Shape(c, s), NEW t, t = Step(c, s, pins, rx),
         NEW kind \in Logic, NEW q, q = Stage(kind, c, s, pins, rx),
         NEW u, u = InSlotOrder(kind, c, q, pins)
  PROVE  /\ Shape(c, q) /\ kind \in Kinds
         /\ \A x \in VarMap(c) :
              /\ x[1] \in Later(kind) => q.var[x] = s.var[x]
              /\ x[1] = kind => q.var[x] = s.var[x] /\ t.var[x] = u.var[x]
              /\ x[1] \notin Later(kind) /\ x[1] # kind => q.var[x] = t.var[x]
         /\ \A f \in Memory(kind) : q[f] = s[f] /\ Decided(c, s, pins, rx)[f] = u[f]
<1> DEFINE Goal(k, v, w) ==
             /\ Shape(c, v) /\ k \in Kinds
             /\ \A x \in VarMap(c) :
                  /\ x[1] \in Later(k) => v.var[x] = s.var[x]
                  /\ x[1] = k => v.var[x] = s.var[x] /\ t.var[x] = w.var[x]
                  /\ x[1] \notin Later(k) /\ x[1] # k => v.var[x] = t.var[x]
             /\ \A f \in Memory(k) : v[f] = s[f] /\ Decided(c, s, pins, rx)[f] = w[f]
<1>1. Goal("virtIn", Sent(c, s, pins, rx), Combined(c, s, pins, rx))
  <2>1. Shape(c, Sent(c, s, pins, rx)) /\ "virtIn" \in Kinds
    BY StagesKeep DEF Kinds
  <2>2. \A x \in VarMap(c) :
          /\ x[1] \in {"virtIn", "flasher", "counter", "condition"} =>
               Sent(c, s, pins, rx).var[x] = s.var[x]
          /\ x[1] = "virtIn" => t.var[x] = Combined(c, s, pins, rx).var[x]
          /\ x[1] \notin {"virtIn", "flasher", "counter", "condition"} =>
               Sent(c, s, pins, rx).var[x] = t.var[x]
    BY VariablesPass
  <2>3. \A f \in {"viLatch"} : /\ Sent(c, s, pins, rx)[f] = s[f]
                               /\ Decided(c, s, pins, rx)[f] = Combined(c, s, pins, rx)[f]
    BY MemoryPasses DEF Fields
  <2>4. Later("virtIn") = {"flasher", "counter", "condition"} /\ Memory("virtIn") = {"viLatch"}
    BY DEF Later, Memory
  <2> QED BY <2>1, <2>2, <2>3, <2>4
<1>2. Goal("flasher", Combined(c, s, pins, rx), Flashed(c, s, pins, rx))
  <2>1. Shape(c, Combined(c, s, pins, rx)) /\ "flasher" \in Kinds
    BY StagesKeep DEF Kinds, InKind
  <2>2. \A x \in VarMap(c) :
          /\ x[1] \in {"flasher", "counter", "condition"} =>
               Combined(c, s, pins, rx).var[x] = s.var[x]
          /\ x[1] = "flasher" => t.var[x] = Flashed(c, s, pins, rx).var[x]
          /\ x[1] \notin {"flasher", "counter", "condition"} =>
               Combined(c, s, pins, rx).var[x] = t.var[x]
    BY VariablesPass
  <2>3. \A f \in {"flash"} : /\ Combined(c, s, pins, rx)[f] = s[f]
                             /\ Decided(c, s, pins, rx)[f] = Flashed(c, s, pins, rx)[f]
    BY MemoryPasses DEF Fields
  <2>4. Later("flasher") = {"counter", "condition"} /\ Memory("flasher") = {"flash"}
    BY DEF Later, Memory
  <2> QED BY <2>1, <2>2, <2>3, <2>4
<1>3. Goal("counter", Flashed(c, s, pins, rx), CountedUp(c, s, pins, rx))
  <2>1. Shape(c, Flashed(c, s, pins, rx)) /\ "counter" \in Kinds
    BY StagesKeep DEF Kinds, InKind
  <2>2. \A x \in VarMap(c) :
          /\ x[1] \in {"counter", "condition"} => Flashed(c, s, pins, rx).var[x] = s.var[x]
          /\ x[1] = "counter" => t.var[x] = CountedUp(c, s, pins, rx).var[x]
          /\ x[1] \notin {"counter", "condition"} => Flashed(c, s, pins, rx).var[x] = t.var[x]
    BY VariablesPass
  <2>3. \A f \in {"count"} : /\ Flashed(c, s, pins, rx)[f] = s[f]
                             /\ Decided(c, s, pins, rx)[f] = CountedUp(c, s, pins, rx)[f]
    BY MemoryPasses DEF Fields
  <2>4. Later("counter") = {"condition"} /\ Memory("counter") = {"count"}
    BY DEF Later, Memory
  <2> QED BY <2>1, <2>2, <2>3, <2>4
<1>4. Goal("condition", CountedUp(c, s, pins, rx), Decided(c, s, pins, rx))
  <2>1. Shape(c, CountedUp(c, s, pins, rx)) /\ "condition" \in Kinds
    BY StagesKeep DEF Kinds, InKind
  <2>2. \A x \in VarMap(c) :
          /\ x[1] = "condition" => /\ CountedUp(c, s, pins, rx).var[x] = s.var[x]
                                   /\ t.var[x] = Decided(c, s, pins, rx).var[x]
          /\ x[1] # "condition" => CountedUp(c, s, pins, rx).var[x] = t.var[x]
    BY VariablesPass
  <2>3. Later("condition") = {} /\ Memory("condition") = {}
    BY DEF Later, Memory
  <2> QED BY <2>1, <2>2, <2>3
<1>5. CASE kind = "virtIn"
  BY <1>1, <1>5 DEF Stage, Combined
<1>6. CASE kind = "flasher"
  BY <1>2, <1>6 DEF Stage, Flashed
<1>7. CASE kind = "counter"
  BY <1>3, <1>7 DEF Stage, CountedUp
<1>8. CASE kind = "condition"
  BY <1>4, <1>8 DEF Stage, Decided
<1> QED BY <1>5, <1>6, <1>7, <1>8 DEF Logic

\* A variable of a category belongs to one of its slots.
LEMMA OwnSlots ==
  ASSUME NEW c, NEW kind \in Kinds, NEW x \in VarMap(c), x[1] = kind
  PROVE  x[2] \in DOMAIN SlotsOf(kind, c) /\ x = <<kind, x[2]>>
BY DEF Kinds, SlotsOf, VarMap, Slots, AlwaysFalse, AlwaysTrue

\* Each slot of a category is updated from a state that has what it reads.
LEMMA CycleSlot ==
  ASSUME NEW c, Runs(c), NEW s, NEW pins, NEW rx, Shape(c, s), NEW t, t = Step(c, s, pins, rx),
         NEW kind \in Logic, NEW i \in DOMAIN SlotsOf(kind, c)
  PROVE  \E r : /\ Shape(c, r)
                /\ \A x \in VarMap(c) : r.var[x] = Reading(kind, i, s, t, x)
                /\ r.var[<<kind, i>>] = s.var[<<kind, i>>]
                /\ \A f \in Memory(kind) : r[f][i] = s[f][i]
                /\ t.var[<<kind, i>>] = Update(kind, c, r, i, pins).var[<<kind, i>>]
                /\ \A f \in Memory(kind) :
                     Decided(c, s, pins, rx)[f][i] = Update(kind, c, r, i, pins)[f][i]
<1> DEFINE q == Stage(kind, c, s, pins, rx)
           u == InSlotOrder(kind, c, q, pins)
<1>1. /\ Shape(c, q) /\ kind \in Kinds
      /\ \A x \in VarMap(c) :
           /\ x[1] \in Later(kind) => q.var[x] = s.var[x]
           /\ x[1] = kind => q.var[x] = s.var[x] /\ t.var[x] = u.var[x]
           /\ x[1] \notin Later(kind) /\ x[1] # kind => q.var[x] = t.var[x]
      /\ \A f \in Memory(kind) : q[f] = s[f] /\ Decided(c, s, pins, rx)[f] = u[f]
  BY StageVariables
<1> HIDE DEF q
<1>2. PICK r : /\ Before(kind, c, q, u, i, r)
               /\ InKind(kind, c, q, r) /\ SameSlot(kind, q, r, i)
               /\ SameSlot(kind, Update(kind, c, r, i, pins), u, i)
  BY <1>1, SlotUpdated
<1> HIDE DEF u
<1>3. <<kind, i>> \in VarMap(c) /\ <<kind, i>>[1] = kind
  BY <1>1, OwnVariables
<1>4. kind \notin Later(kind)
  BY DEF Later, Logic
<1>5. ASSUME NEW x \in VarMap(c) PROVE r.var[x] = Reading(kind, i, s, t, x)
  <2>1. CASE x[1] # kind
    <3>1. r.var[x] = q.var[x]
      BY <1>2, <2>1 DEF InKind
    <3> QED BY <1>1, <2>1, <3>1 DEF Reading
  <2>2. CASE x[1] = kind
    <3>1. x[2] \in DOMAIN SlotsOf(kind, c) /\ x = <<kind, x[2]>>
      BY <1>1, <2>2, OwnSlots
    <3>2. x[2] \in Int /\ i \in Int
      BY <1>1, <3>1, SlotsAreNumbered
    <3>3. CASE x[2] < i
      <4>1. SameSlot(kind, r, u, x[2])
        BY <1>2, <3>1, <3>3 DEF Before
      <4>2. r.var[x] = u.var[x]
        BY <3>1, <4>1 DEF SameSlot
      <4>3. ~(x[2] >= i)
        BY <3>2, <3>3
      <4> QED BY <1>1, <1>4, <2>2, <4>2, <4>3 DEF Reading
    <3>4. CASE ~(x[2] < i)
      <4>1. SameSlot(kind, q, r, x[2])
        BY <1>2, <3>1, <3>4 DEF Before
      <4>2. r.var[x] = q.var[x]
        BY <3>1, <4>1 DEF SameSlot
      <4>3. x[2] >= i
        BY <3>2, <3>4
      <4> QED BY <1>1, <2>2, <4>2, <4>3 DEF Reading
    <3> QED BY <3>3, <3>4
  <2> QED BY <2>1, <2>2
<1>6. Shape(c, r)
  BY <1>2 DEF InKind
<1>7. r.var[<<kind, i>>] = s.var[<<kind, i>>] /\ \A f \in Memory(kind) : r[f][i] = s[f][i]
  BY <1>1, <1>2, <1>3 DEF SameSlot
<1>8. /\ t.var[<<kind, i>>] = Update(kind, c, r, i, pins).var[<<kind, i>>]
      /\ \A f \in Memory(kind) : Decided(c, s, pins, rx)[f][i] = Update(kind, c, r, i, pins)[f][i]
  BY <1>1, <1>2, <1>3 DEF SameSlot
<1> QED BY <1>5, <1>6, <1>7, <1>8

\* A configuration reads only variables that it has.
LEMMA ReferencesExist ==
  ASSUME NEW c, Runs(c)
  PROVE  /\ \A i \in DOMAIN c.outputs : c.outputs[i].enabled => c.outputs[i].input \in VarMap(c)
         /\ \A i \in DOMAIN c.virtualInputs :
              c.virtualInputs[i].enabled =>
                {c.virtualInputs[i].var0, c.virtualInputs[i].var1, c.virtualInputs[i].var2} \subseteq VarMap(c)
         /\ \A i \in DOMAIN c.flashers : c.flashers[i].enabled => c.flashers[i].input \in VarMap(c)
         /\ \A i \in DOMAIN c.counters :
              c.counters[i].enabled =>
                {c.counters[i].incInput, c.counters[i].decInput, c.counters[i].resetInput} \subseteq VarMap(c)
         /\ \A i \in DOMAIN c.conditions :
              c.conditions[i].enabled => c.conditions[i].input \in VarMap(c)
<1>1. References(c) \subseteq VarMap(c)
  BY DEF Runs, Accepted
<1>2. ASSUME NEW i \in DOMAIN c.virtualInputs, c.virtualInputs[i].enabled
      PROVE  {c.virtualInputs[i].var0, c.virtualInputs[i].var1, c.virtualInputs[i].var2} \subseteq References(c)
  <2>1. c.virtualInputs[i] \in {w \in Range(c.virtualInputs) : w.enabled}
    BY <1>2 DEF Range
  <2> QED BY <2>1 DEF References
<1>3. ASSUME NEW i \in DOMAIN c.counters, c.counters[i].enabled
      PROVE  {c.counters[i].incInput, c.counters[i].decInput, c.counters[i].resetInput} \subseteq References(c)
  <2>1. c.counters[i] \in {w \in Range(c.counters) : w.enabled}
    BY <1>3 DEF Range
  <2> QED BY <2>1 DEF References
<1>4. /\ \A i \in DOMAIN c.outputs : c.outputs[i].enabled => c.outputs[i].input \in References(c)
      /\ \A i \in DOMAIN c.flashers : c.flashers[i].enabled => c.flashers[i].input \in References(c)
      /\ \A i \in DOMAIN c.conditions : c.conditions[i].enabled => c.conditions[i].input \in References(c)
  BY DEF References
<1> QED BY <1>1, <1>2, <1>3, <1>4

\* the latch of a virtual input, and the updates of a counter and a flasher, from the
\* numbers that they read
VirtLatch(slot, l, x0, x1, x2) ==
  LatchCheck(l, slot.mode, FALSE,
             VirtualLevel(slot, Level(x0), Level(x1), Level(x2), slot.var2 = AlwaysFalse))
CountOn(slot, k, n, x0, x1, x2) == CounterUpdate(slot, k, n, Level(x0), Level(x1), Level(x2))
FlashOn(slot, f, v, x) == FlasherUpdate(slot, f, v, Level(x))

\* What a cycle makes of an enabled virtual input.
LEMMA CycleVirtIn ==
  ASSUME NEW c, Runs(c), NEW s, NEW pins, NEW rx, Shape(c, s), NEW t, t = Step(c, s, pins, rx),
         NEW i \in DOMAIN c.virtualInputs, NEW slot, slot = c.virtualInputs[i], slot.enabled
  PROVE  LET Read(x) == Reading("virtIn", i, s, t, x)
             latch   == VirtLatch(slot, s.viLatch[i], Read(slot.var0), Read(slot.var1), Read(slot.var2))
         IN  t.viLatch[i] = latch /\ t.var[<<"virtIn", i>>] = Value(latch.out)
<1> DEFINE v == <<"virtIn", i>>
           Combine3(x0, x1, x2) == VirtLatch(slot, s.viLatch[i], x0, x1, x2)
<1>1. "virtIn" \in Logic /\ i \in DOMAIN SlotsOf("virtIn", c) /\ Memory("virtIn") = {"viLatch"}
  BY DEF Logic, SlotsOf, Memory
<1>2. PICK r : /\ Shape(c, r)
               /\ \A x \in VarMap(c) : r.var[x] = Reading("virtIn", i, s, t, x)
               /\ r.viLatch[i] = s.viLatch[i]
               /\ t.var[v] = VirtIn(c, r, i).var[v]
               /\ Decided(c, s, pins, rx).viLatch[i] = VirtIn(c, r, i).viLatch[i]
  <2>1. PICK r : /\ Shape(c, r)
                 /\ \A x \in VarMap(c) : r.var[x] = Reading("virtIn", i, s, t, x)
                 /\ \A f \in {"viLatch"} : r[f][i] = s[f][i]
                 /\ t.var[v] = Update("virtIn", c, r, i, pins).var[v]
                 /\ \A f \in {"viLatch"} :
                      Decided(c, s, pins, rx)[f][i] = Update("virtIn", c, r, i, pins)[f][i]
    BY <1>1, CycleSlot
  <2> QED BY <2>1 DEF Update
<1>3. v \in VarMap(c) /\ i \in DOMAIN c.virtualInputs
  BY DEF VarMap, Slots
<1>4. /\ VirtIn(c, r, i).viLatch[i] = Combine3(r.var[slot.var0], r.var[slot.var1], r.var[slot.var2])
      /\ VirtIn(c, r, i).var[v] = Value(Combine3(r.var[slot.var0], r.var[slot.var1], r.var[slot.var2]).out)
  BY <1>2, <1>3 DEF VirtIn, Shape, Fields, VirtLatch
<1>5. t.viLatch = Decided(c, s, pins, rx).viLatch
  BY MemoryPasses DEF Fields
<1>6. {slot.var0, slot.var1, slot.var2} \subseteq VarMap(c)
  BY ReferencesExist
<1> HIDE DEF Combine3, v
<1>7. Combine3(r.var[slot.var0], r.var[slot.var1], r.var[slot.var2])
        = Combine3(Reading("virtIn", i, s, t, slot.var0), Reading("virtIn", i, s, t, slot.var1),
                   Reading("virtIn", i, s, t, slot.var2))
  BY <1>2, <1>6
<1> QED BY <1>2, <1>4, <1>5, <1>7 DEF Combine3, v

\* the memory of a counter after the time of a cycle
CountAged(slot, k) ==
  IF slot.holdToReset THEN [k EXCEPT !.incAge = Older(k.incAge, CycleMs, MaxAge),
                                     !.decAge = Older(k.decAge, CycleMs, MaxAge)]
  ELSE k

\* What a cycle makes of an enabled counter.
LEMMA CycleCounts ==
  ASSUME NEW c, Runs(c), NEW s, NEW pins, NEW rx, Shape(c, s), NEW t, t = Step(c, s, pins, rx),
         NEW i \in DOMAIN c.counters, NEW slot, slot = c.counters[i], slot.enabled
  PROVE  LET Read(x) == Reading("counter", i, s, t, x)
             u == CountOn(slot, s.count[i], s.var[<<"counter", i>>],
                          Read(slot.incInput), Read(slot.decInput), Read(slot.resetInput))
         IN  t.var[<<"counter", i>>] = u.n /\ t.count[i] = CountAged(slot, u.k)
<1> DEFINE v == <<"counter", i>>
           Count3(x0, x1, x2) == CountOn(slot, s.count[i], s.var[v], x0, x1, x2)
           decided == Decided(c, s, pins, rx)
<1>1. "counter" \in Logic /\ i \in DOMAIN SlotsOf("counter", c) /\ Memory("counter") = {"count"}
  BY DEF Logic, SlotsOf, Memory
<1>2. PICK r : /\ Shape(c, r)
               /\ \A x \in VarMap(c) : r.var[x] = Reading("counter", i, s, t, x)
               /\ r.var[v] = s.var[v] /\ r.count[i] = s.count[i]
               /\ t.var[v] = Counter(c, r, i).var[v]
               /\ decided.count[i] = Counter(c, r, i).count[i]
  <2>1. PICK r : /\ Shape(c, r)
                 /\ \A x \in VarMap(c) : r.var[x] = Reading("counter", i, s, t, x)
                 /\ r.var[v] = s.var[v]
                 /\ \A f \in {"count"} : r[f][i] = s[f][i]
                 /\ t.var[v] = Update("counter", c, r, i, pins).var[v]
                 /\ \A f \in {"count"} : decided[f][i] = Update("counter", c, r, i, pins)[f][i]
    BY <1>1, CycleSlot
  <2> QED BY <2>1 DEF Update
<1>3. v \in VarMap(c)
  BY DEF VarMap, Slots
<1>4. /\ Counter(c, r, i).count[i] = Count3(r.var[slot.incInput], r.var[slot.decInput], r.var[slot.resetInput]).k
      /\ Counter(c, r, i).var[v] = Count3(r.var[slot.incInput], r.var[slot.decInput], r.var[slot.resetInput]).n
  BY <1>2, <1>3 DEF Counter, Shape, Fields, CountOn
<1>5. Shape(c, decided)
  BY StagesKeep DEF InKind
<1>6. t.count[i] = CountAged(slot, decided.count[i])
  <2> HIDE DEF decided
  <2>1. t = Tick(c, decided)
    BY StepStages DEF decided
  <2>2. i \in DOMAIN decided.count /\ "count" \in DOMAIN decided
    BY <1>5 DEF Shape, Fields
  <2>3. Tick(c, decided).count =
          [j \in DOMAIN decided.count |->
             IF c.counters[j].holdToReset
             THEN [decided.count[j] EXCEPT !.incAge = Older(decided.count[j].incAge, CycleMs, MaxAge),
                                           !.decAge = Older(decided.count[j].decAge, CycleMs, MaxAge)]
             ELSE decided.count[j]]
    BY <2>2 DEF Tick
  <2> QED BY <2>1, <2>2, <2>3 DEF CountAged
<1>7. {slot.incInput, slot.decInput, slot.resetInput} \subseteq VarMap(c)
  BY ReferencesExist
<1> HIDE DEF Count3, v, decided
<1>8. Count3(r.var[slot.incInput], r.var[slot.decInput], r.var[slot.resetInput])
        = Count3(Reading("counter", i, s, t, slot.incInput), Reading("counter", i, s, t, slot.decInput),
                 Reading("counter", i, s, t, slot.resetInput))
  BY <1>2, <1>7
<1> QED BY <1>2, <1>4, <1>6, <1>8 DEF Count3, v

\* What a cycle makes of an enabled flasher.
LEMMA CycleFlasher ==
  ASSUME NEW c, Runs(c), NEW s, NEW pins, NEW rx, Shape(c, s), NEW t, t = Step(c, s, pins, rx),
         NEW i \in DOMAIN c.flashers, NEW slot, slot = c.flashers[i], slot.enabled
  PROVE  LET u == FlashOn(slot, s.flash[i], s.var[<<"flasher", i>>],
                          Reading("flasher", i, s, t, slot.input))
         IN  /\ t.var[<<"flasher", i>>] = u.v
             /\ t.flash[i] = [on |-> Older(u.f.on, CycleMs, MaxAge), off |-> Older(u.f.off, CycleMs, MaxAge)]
<1> DEFINE v == <<"flasher", i>>
           Flash1(x) == FlashOn(slot, s.flash[i], s.var[v], x)
           decided == Decided(c, s, pins, rx)
<1>1. "flasher" \in Logic /\ i \in DOMAIN SlotsOf("flasher", c) /\ Memory("flasher") = {"flash"}
  BY DEF Logic, SlotsOf, Memory
<1>2. PICK r : /\ Shape(c, r)
               /\ \A x \in VarMap(c) : r.var[x] = Reading("flasher", i, s, t, x)
               /\ r.var[v] = s.var[v] /\ r.flash[i] = s.flash[i]
               /\ t.var[v] = Flasher(c, r, i).var[v]
               /\ decided.flash[i] = Flasher(c, r, i).flash[i]
  <2>1. PICK r : /\ Shape(c, r)
                 /\ \A x \in VarMap(c) : r.var[x] = Reading("flasher", i, s, t, x)
                 /\ r.var[v] = s.var[v]
                 /\ \A f \in {"flash"} : r[f][i] = s[f][i]
                 /\ t.var[v] = Update("flasher", c, r, i, pins).var[v]
                 /\ \A f \in {"flash"} : decided[f][i] = Update("flasher", c, r, i, pins)[f][i]
    BY <1>1, CycleSlot
  <2> QED BY <2>1 DEF Update
<1>3. v \in VarMap(c)
  BY DEF VarMap, Slots
<1>4. /\ Flasher(c, r, i).flash[i] = Flash1(r.var[slot.input]).f
      /\ Flasher(c, r, i).var[v] = Flash1(r.var[slot.input]).v
  BY <1>2, <1>3 DEF Flasher, Shape, Fields, FlashOn
<1>5. Shape(c, decided)
  BY StagesKeep DEF InKind
<1>6. t.flash[i] = [on |-> Older(decided.flash[i].on, CycleMs, MaxAge),
                    off |-> Older(decided.flash[i].off, CycleMs, MaxAge)]
  <2> HIDE DEF decided
  <2>1. t = Tick(c, decided)
    BY StepStages DEF decided
  <2>2. i \in DOMAIN decided.flash /\ "flash" \in DOMAIN decided
    BY <1>5 DEF Shape, Fields
  <2>3. Tick(c, decided).flash = [j \in DOMAIN decided.flash |->
                                    [on |-> Older(decided.flash[j].on, CycleMs, MaxAge),
                                     off |-> Older(decided.flash[j].off, CycleMs, MaxAge)]]
    BY <2>2 DEF Tick
  <2> QED BY <2>1, <2>2, <2>3
<1>7. slot.input \in VarMap(c)
  BY ReferencesExist
<1> HIDE DEF Flash1, v, decided
<1>8. Flash1(r.var[slot.input]) = Flash1(Reading("flasher", i, s, t, slot.input))
  BY <1>2, <1>7
<1> QED BY <1>2, <1>4, <1>6, <1>8 DEF Flash1, v

\* What a cycle makes of an enabled condition.
LEMMA CycleCondition ==
  ASSUME NEW c, Runs(c), NEW s, NEW pins, NEW rx, Shape(c, s), NEW t, t = Step(c, s, pins, rx),
         NEW i \in DOMAIN c.conditions, NEW slot, slot = c.conditions[i], slot.enabled
  PROVE  t.var[<<"condition", i>>] =
           ConditionValue(slot.operator, Reading("condition", i, s, t, slot.input), slot.arg)
<1> DEFINE v == <<"condition", i>>
<1>1. "condition" \in Logic /\ i \in DOMAIN SlotsOf("condition", c)
  BY DEF Logic, SlotsOf
<1>2. PICK r : /\ Shape(c, r)
               /\ \A x \in VarMap(c) : r.var[x] = Reading("condition", i, s, t, x)
               /\ t.var[v] = Update("condition", c, r, i, pins).var[v]
  BY <1>1, CycleSlot
<1>3. v \in VarMap(c) /\ slot.input \in VarMap(c)
  BY ReferencesExist DEF VarMap, Slots
<1>4. Condition(c, r, i).var[v] = ConditionValue(slot.operator, r.var[slot.input], slot.arg)
  BY <1>2, <1>3 DEF Condition, Shape, Fields
<1> QED BY <1>2, <1>3, <1>4 DEF Update

\* What a cycle makes of an enabled output that reads neither a CAN input nor an output.
LEMMA CycleLag ==
  ASSUME NEW c, Runs(c), NEW s, NEW pins, NEW rx, Shape(c, s), NEW t, t = Step(c, s, pins, rx),
         NEW i \in DOMAIN c.outputs, NEW from, from = c.outputs[i].input, c.outputs[i].enabled,
         from[1] \notin {"canIn", "canVal", "output"}
  PROVE  t.var[<<"output", i>>] = Value(Level(s.var[from]))
<1> DEFINE x == <<"output", i>>
<1>1. from \in VarMap(c) /\ x \in VarMap(c)
  BY ReferencesExist DEF VarMap, Slots
<1>2. PICK r : /\ InKind("output", c, Receive(c, s, rx), r)
               /\ t.var[x] = Profet(c, r, i).var[x]
  BY CycleOutput
<1>3. Profet(c, r, i).var[x] = Value(Level(r.var[from]))
  BY <1>1, <1>2 DEF Profet, InKind, Shape, Fields, Value
<1>4. r.var[from] = s.var[from]
  <2>1. r.var[from] = Receive(c, s, rx).var[from]
    BY <1>1, <1>2 DEF InKind
  <2>2. Receive(c, s, rx).var[from] = s.var[from]
    BY <1>1, ReceiveKeeps
  <2> QED BY <2>1, <2>2
<1> QED BY <1>2, <1>3, <1>4

\* What a cycle makes of an output that does not read an output.
LEMMA CycleDrives ==
  ASSUME NEW c, Runs(c), NEW s, NEW pins, NEW rx, Shape(c, s), NEW t, t = Step(c, s, pins, rx),
         NEW i \in DOMAIN c.outputs, NEW from, from = c.outputs[i].input,
         c.outputs[i].enabled => from[1] # "output"
  PROVE  t.var[<<"output", i>>] = IF c.outputs[i].enabled THEN Value(Level(Receive(c, s, rx).var[from])) ELSE 0
<1> DEFINE x == <<"output", i>>
<1>1. x \in VarMap(c) /\ (c.outputs[i].enabled => from \in VarMap(c))
  BY ReferencesExist DEF VarMap, Slots
<1>2. PICK r : /\ InKind("output", c, Receive(c, s, rx), r)
               /\ t.var[x] = Profet(c, r, i).var[x]
  BY CycleOutput
<1>3. Profet(c, r, i).var[x] = Value(c.outputs[i].enabled /\ Level(r.var[from]))
  BY <1>1, <1>2 DEF Profet, InKind, Shape, Fields
<1>4. c.outputs[i].enabled => r.var[from] = Receive(c, s, rx).var[from]
  BY <1>1, <1>2 DEF InKind
<1> QED BY <1>2, <1>3, <1>4 DEF Value

\* What a CAN output samples: of the logic what the last cycle made of it, of all else
\* what this one did.
LEMMA CycleSamples ==
  ASSUME NEW c, Runs(c), NEW s, NEW pins, NEW rx, Shape(c, s), NEW t, t = Step(c, s, pins, rx),
         NEW i \in DOMAIN c.canOutputs, NEW from, from = c.canOutputs[i].input, c.canOutputs[i].enabled
  PROVE  t.sample[i] = IF from[1] \in Logic THEN s.var[from] ELSE t.var[from]
<1> DEFINE waited == Waited(c, s, pins, rx)
           sent == Sent(c, s, pins, rx)
<1>1. Shape(c, waited)
  BY StagesKeep
<1>2. t.sample = sent.sample
  BY MemoryPasses DEF Fields
<1>3. sent.sample[i] = waited.var[from]
  <2> HIDE DEF waited
  <2>1. sent = CanOutputs(c, waited)
    BY DEF Sent, waited
  <2>2. DOMAIN waited = Fields /\ i \in DOMAIN waited.sample
    BY <1>1 DEF Shape
  <2> HIDE DEF sent
  <2> QED BY <2>1, <2>2 DEF CanOutputs, Fields
<1>4. from \in VarMap(c)
  BY DEF Runs, Accepted, References
<1> HIDE DEF waited, sent
<1>5. from[1] \in Logic => waited.var[from] = s.var[from]
  BY <1>4, VariablesPass DEF Logic, waited
<1>6. from[1] \notin Logic => waited.var[from] = t.var[from]
  BY <1>4, VariablesPass DEF Logic, waited
<1> QED BY <1>2, <1>3, <1>5, <1>6

=============================================================================
