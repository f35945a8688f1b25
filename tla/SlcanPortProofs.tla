--------------------------- MODULE SlcanPortProofs ---------------------------
(***************************************************************************)
(* Theorems about SlcanPort, for every value of its constants: however     *)
(* many frames, whatever the capacities, and wherever reads cut the bytes. *)
(***************************************************************************)
EXTENDS SlcanPortFifo, FiniteSetTheorems, FunctionTheorems, SequenceTheorems, TLAPS

-----------------------------------------------------------------------------
(* Streams of lines.                                                       *)

Byte == [frame : Nat, part : 0..2]

(* What may come before byte i.                                            *)
Ordered(b, i) ==
    /\ b[i].part = 0 =>
          b[i] = CR /\ i > 1 /\ (b[i - 1].part = 2 \/ b[i - 1] = Part(0, 1))
    /\ b[i].part = 1 => (i > 1 => b[i - 1] = CR)
    /\ b[i].part = 2 => i > 1 /\ b[i - 1] = Part(b[i].frame, 1)

(* A beginning, cut anywhere, of whole lines whose frames are those after  *)
(* lo in their order, each of them once.                                   *)
Stream(b, lo) ==
    /\ b \in Seq(Byte)
    /\ \A i \in 1..Len(b) : Ordered(b, i)
    /\ \A i \in 1..Len(b) : b[i].part = 2 =>
          /\ b[i].frame > lo
          /\ \A m \in (lo + 1)..(b[i].frame - 1) :
                \E j \in 1..(i - 1) : b[j] = Part(m, 2)
    /\ \A i, j \in 1..Len(b) :
          i < j /\ b[i].part = 2 /\ b[j].part = 2 => b[i].frame < b[j].frame

(* No line is cut.                                                         *)
WholeLines(b) == b # <<>> => b[Len(b)] = CR

Count(b) == Cardinality(FrameEnds(b))

Run(lo, n) == [k \in 1..n |-> lo + k]

(* The fields of a byte.                                                   *)
LEMMA PartFields ==
    ASSUME NEW n \in Nat, NEW p \in 0..2
    PROVE  Part(n, p) \in Byte /\ Part(n, p).frame = n /\ Part(n, p).part = p
BY DEF Part, Byte

(* A byte is told from others by its two fields.                           *)
LEMMA ByteIsPart ==
    ASSUME NEW x \in Byte
    PROVE  x.frame \in Nat /\ x.part \in 0..2 /\ x = Part(x.frame, x.part)
BY DEF Part, Byte

(* The terminator is part 0 of frame 0.                                    *)
LEMMA CRFields == CR \in Byte /\ CR.frame = 0 /\ CR.part = 0
BY PartFields DEF CR

(* In a stream a frame ends wherever a terminator follows its second part. *)
LEMMA StreamEnds ==
    ASSUME NEW lo \in Nat, NEW b, Stream(b, lo)
    PROVE  /\ FrameEnds(b) = {i \in 2..Len(b) : b[i] = CR /\ b[i - 1].part = 2}
           /\ FrameEnds(b) \in SUBSET Nat
           /\ IsFiniteSet(FrameEnds(b))
           /\ Count(b) \in Nat
<1>1. b \in Seq(Byte) /\ Len(b) \in Nat /\ DOMAIN b = 1..Len(b)
  BY LenProperties DEF Stream
<1>2. ASSUME NEW i \in 2..Len(b), b[i] = CR, b[i - 1].part = 2
      PROVE  EndsFrame(b, i)
  <2>1. Ordered(b, i - 1) /\ b[i - 1] \in Byte
    BY <1>1, <1>2 DEF Stream
  <2>2. i - 1 > 1 /\ b[i - 2] = Part(b[i - 1].frame, 1)
    BY <2>1, <1>2 DEF Ordered
  <2>3. b[i - 2].frame = b[i - 1].frame /\ b[i - 2].part = 1
    BY <2>1, <2>2, ByteIsPart, PartFields
  <2>4. i > 3 => b[i - 3] = CR
    <3> SUFFICES ASSUME i > 3
                 PROVE  b[i - 3] = CR
      OBVIOUS
    <3>1. Ordered(b, i - 2) /\ i - 2 > 1 /\ (i - 2) - 1 = i - 3
      BY <1>1, <1>2 DEF Stream
    <3> QED
      BY <3>1, <2>3 DEF Ordered
  <2>5. Parses(<<b[i - 2], b[i - 1]>>)
    BY <2>3, <1>2 DEF Parses
  <2> QED
    BY <1>2, <2>2, <2>4, <2>5 DEF EndsFrame
<1>3. ASSUME NEW i \in 1..Len(b), EndsFrame(b, i)
      PROVE  i \in 2..Len(b) /\ b[i] = CR /\ b[i - 1].part = 2
  BY <1>1, <1>3 DEF EndsFrame, Parses
<1>4. FrameEnds(b) = {i \in 2..Len(b) : b[i] = CR /\ b[i - 1].part = 2}
  BY <1>1, <1>2, <1>3 DEF FrameEnds
<1>5. FrameEnds(b) \in SUBSET (1..Len(b))
  BY <1>1 DEF FrameEnds
<1>6. IsFiniteSet(1..Len(b))
  BY <1>1, FS_Interval
<1> QED
  BY <1>1, <1>4, <1>5, <1>6, FS_Subset, FS_CardinalityType DEF Count

(* Numbers that rise with the places in ends, and leave none out, are      *)
(* counted by the places: a finite set in place of an induction.           *)
LEMMA Enumerated ==
    ASSUME NEW ends \in SUBSET Nat, IsFiniteSet(ends), NEW lo \in Nat,
           NEW num \in [ends -> Nat],
           \A e \in ends : num[e] > lo,
           \A d, e \in ends : d < e => num[d] < num[e],
           \A e \in ends : \A m \in (lo + 1)..num[e] :
              \E d \in ends : d <= e /\ num[d] = m
    PROVE  /\ \A e \in ends : Cardinality(UpTo(e, ends)) = num[e] - lo
           /\ \A e \in ends : num[e] <= lo + Cardinality(ends)
           /\ \A k \in 1..Cardinality(ends) : \E e \in ends : num[e] = lo + k
<1>0. \A c, d \in ends : num[c] = num[d] => c = d
  <2> TAKE c, d \in ends
  <2>1. c < d \/ d < c \/ c = d
    OBVIOUS
  <2> QED
    BY <2>1
<1>1. \A e \in ends : Cardinality(UpTo(e, ends)) = num[e] - lo
  <2> SUFFICES ASSUME NEW e \in ends
               PROVE  Cardinality(UpTo(e, ends)) = num[e] - lo
    OBVIOUS
  <2> DEFINE U == UpTo(e, ends)
             f == [d \in U |-> num[d]]
  <2>1. U \in SUBSET ends /\ IsFiniteSet(U) /\ \A d \in U : d <= e
    BY FS_Subset DEF UpTo
  <2>2. f \in [U -> (lo + 1)..num[e]]
    <3>1. \A d \in U : num[d] \in Nat /\ num[d] > lo /\ num[d] <= num[e]
      <4> TAKE d \in U
      <4>1. d \in ends /\ d <= e /\ num[d] \in Nat /\ num[e] \in Nat
        BY <2>1
      <4>2. d = e \/ d < e
        BY <4>1
      <4> QED
        BY <4>1, <4>2
    <3> QED
      BY <3>1
  <2>3. \A c, d \in U : f[c] = f[d] => c = d
    BY <1>0, <2>1
  <2>4. \A m \in (lo + 1)..num[e] : \E d \in U : f[d] = m
    BY DEF UpTo
  <2>5. ExistsBijection(U, (lo + 1)..num[e])
    BY <2>2, <2>3, <2>4, Fun_IsBij DEF ExistsBijection
  <2>6. Cardinality((lo + 1)..num[e]) = Cardinality(U)
    BY <2>1, <2>5, FS_Bijection
  <2> QED
    BY <2>6, FS_Interval
<1>2. Cardinality(ends) \in Nat
  BY FS_CardinalityType
<1>3. \A e \in ends : num[e] <= lo + Cardinality(ends)
  <2> SUFFICES ASSUME NEW e \in ends
               PROVE  num[e] <= lo + Cardinality(ends)
    OBVIOUS
  <2>1. UpTo(e, ends) \in SUBSET ends
    BY DEF UpTo
  <2>2. Cardinality(UpTo(e, ends)) <= Cardinality(ends)
    BY <2>1, FS_Subset
  <2> QED
    BY <1>1, <1>2, <2>2
<1>4. \A k \in 1..Cardinality(ends) : \E e \in ends : num[e] = lo + k
  <2> DEFINE F == {num[e] : e \in ends}
             I == (lo + 1)..(lo + Cardinality(ends))
  <2>1. num \in Bijection(ends, F)
    <3>1. num \in [ends -> F]
      OBVIOUS
    <3>2. \A t \in F : \E e \in ends : num[e] = t
      OBVIOUS
    <3> QED
      BY <1>0, <3>1, <3>2, Fun_IsBij
  <2>2. IsFiniteSet(F) /\ Cardinality(F) = Cardinality(ends)
    BY <2>1, FS_Bijection DEF ExistsBijection
  <2>3. F \in SUBSET I
    <3> SUFFICES ASSUME NEW e \in ends
                 PROVE  num[e] \in I
      OBVIOUS
    <3>1. num[e] \in Nat /\ num[e] > lo /\ num[e] <= lo + Cardinality(ends)
      BY <1>3
    <3> QED
      BY <1>2, <3>1
  <2>4. IsFiniteSet(I) /\ Cardinality(I) = Cardinality(ends)
    <3> DEFINE a == lo + 1
               b == lo + Cardinality(ends)
    <3>1. a \in Int /\ b \in Int /\ (IF a > b THEN 0 ELSE b - a + 1) = Cardinality(ends)
      BY <1>2
    <3>2. IsFiniteSet(a..b) /\ Cardinality(a..b) = IF a > b THEN 0 ELSE b - a + 1
      <4> HIDE DEF a, b
      <4> QED
        BY <3>1, FS_Interval
    <3> QED
      BY <3>1, <3>2
  <2>5. F = I
    BY <2>2, <2>3, <2>4, FS_Subset
  <2>6. ASSUME NEW k \in 1..Cardinality(ends)
        PROVE  lo + k \in F
    BY <1>2, <2>5
  <2> QED
    BY <2>6
<1> QED
  BY <1>1, <1>3, <1>4

(* What a stream parses to is the frames after lo, as many as end in it.   *)
LEMMA PendingIsRun ==
    ASSUME NEW lo \in Nat, NEW b, Stream(b, lo)
    PROVE  /\ Pending(b) = Run(lo, Count(b))
           /\ \A k \in 1..Count(b) : \E e \in FrameEnds(b) : b[e - 1] = Part(lo + k, 2)
           /\ \A e \in FrameEnds(b) : b[e - 1].frame \in (lo + 1)..(lo + Count(b))
<1> DEFINE E == FrameEnds(b)
           num == [e \in E |-> b[e - 1].frame]
<1>1. /\ E = {i \in 2..Len(b) : b[i] = CR /\ b[i - 1].part = 2}
      /\ E \in SUBSET Nat /\ IsFiniteSet(E)
  BY StreamEnds
<1>2. b \in Seq(Byte) /\ Len(b) \in Nat /\ \A i \in 1..Len(b) : b[i] \in Byte
  BY LenProperties, ElementOfSeq DEF Stream
<1>3. ASSUME NEW e \in E
      PROVE  /\ e - 1 \in 1..(Len(b) - 1) /\ b[e - 1].part = 2
             /\ num[e] = b[e - 1].frame /\ num[e] \in Nat /\ num[e] > lo
             /\ b[e - 1] = Part(num[e], 2)
  <2>1. e - 1 \in 1..Len(b) /\ e - 1 \in 1..(Len(b) - 1) /\ b[e - 1].part = 2
    BY <1>1, <1>2
  <2>2. b[e - 1].frame > lo
    BY <2>1 DEF Stream
  <2> QED
    BY <2>1, <2>2, <1>2, ByteIsPart
<1>4. num \in [E -> Nat]
  BY <1>3
<1>5. \A d, e \in E : d < e => num[d] < num[e]
  <2> SUFFICES ASSUME NEW d \in E, NEW e \in E, d < e
               PROVE  num[d] < num[e]
    OBVIOUS
  <2>1. d - 1 \in 1..Len(b) /\ e - 1 \in 1..Len(b) /\ d - 1 < e - 1
    BY <1>1, <1>2
  <2> QED
    BY <2>1, <1>3 DEF Stream
<1>6. ASSUME NEW e \in E, NEW m \in (lo + 1)..num[e]
      PROVE  \E d \in E : d <= e /\ num[d] = m
  <2>1. CASE m = num[e]
    BY <2>1, <1>1
  <2>2. CASE m # num[e]
    <3>1. e - 1 \in 1..Len(b) /\ m \in (lo + 1)..(b[e - 1].frame - 1)
      BY <2>2, <1>2, <1>3
    <3>2. PICK j \in 1..((e - 1) - 1) : b[j] = Part(m, 2)
      BY <3>1, <1>3 DEF Stream
    <3>3. j \in 1..Len(b) /\ j + 1 \in 2..Len(b) /\ (j + 1) - 1 = j /\ j + 1 <= e
      <4>1. e \in 2..Len(b)
        BY <1>1
      <4> QED
        BY <4>1, <1>2
    <3>4. b[j].part = 2 /\ b[j].frame = m
      BY <3>2, PartFields
    <3>5. Ordered(b, j + 1) /\ b[j + 1].part \in 0..2
      BY <3>3, <1>2, ByteIsPart DEF Stream
    <3>6. b[j + 1].part # 1
      BY <3>3, <3>4, <3>5, CRFields DEF Ordered
    <3>7. b[j + 1].part # 2
      BY <3>3, <3>4, <3>5, <1>2, ByteIsPart, PartFields DEF Ordered
    <3>8. b[j + 1] = CR
      BY <3>5, <3>6, <3>7 DEF Ordered
    <3> QED
      BY <3>3, <3>4, <3>8, <1>1
  <2> QED
    BY <2>1, <2>2
<1>7. /\ \A e \in E : Cardinality(UpTo(e, E)) = num[e] - lo
      /\ \A e \in E : num[e] <= lo + Count(b)
      /\ \A k \in 1..Count(b) : \E e \in E : num[e] = lo + k
  <2>1. \A e \in E : num[e] > lo
    BY <1>3
  <2>2. \A e \in E : \A m \in (lo + 1)..num[e] : \E d \in E : d <= e /\ num[d] = m
    BY <1>6
  <2>3. E \in SUBSET Nat /\ IsFiniteSet(E) /\ Count(b) = Cardinality(E)
    BY <1>1 DEF Count
  <2> HIDE DEF num, E
  <2> QED
    BY <2>1, <2>2, <2>3, <1>4, <1>5, Enumerated
<1>8. Count(b) \in Nat
  BY StreamEnds
<1>9. ASSUME NEW k \in 1..Count(b)
      PROVE  b[(CHOOSE i \in E : Cardinality(UpTo(i, E)) = k) - 1].frame = lo + k
  <2> DEFINE c == CHOOSE i \in E : Cardinality(UpTo(i, E)) = k
  <2>1. PICK e \in E : num[e] = lo + k
    BY <1>7
  <2>2. Cardinality(UpTo(e, E)) = k
    BY <2>1, <1>7, <1>8
  <2>3. c \in E /\ Cardinality(UpTo(c, E)) = k
    BY <2>2
  <2>4. num[c] - lo = k /\ num[c] \in Nat /\ num[c] = b[c - 1].frame
    BY <2>3, <1>3, <1>7
  <2> QED
    BY <2>4, <1>8
<1>10. Pending(b) = Run(lo, Count(b))
  BY <1>9 DEF Pending, Run, Count
<1>11. ASSUME NEW k \in 1..Count(b)
        PROVE  \E e \in E : b[e - 1] = Part(lo + k, 2)
  BY <1>3, <1>7
<1> QED
  BY <1>3, <1>7, <1>8, <1>10, <1>11

(* Facts on single bytes of a stream.                                      *)
LEMMA StreamBytes ==
    ASSUME NEW lo \in Nat, NEW b, Stream(b, lo)
    PROVE  /\ b \in Seq(Byte) /\ Len(b) \in Nat /\ DOMAIN b = 1..Len(b)
           /\ \A i \in 1..Len(b) :
                 /\ Ordered(b, i)
                 /\ b[i] \in Byte /\ b[i].frame \in Nat /\ b[i].part \in 0..2
                 /\ b[i] = Part(b[i].frame, b[i].part)
BY LenProperties, ElementOfSeq, ByteIsPart DEF Stream

(* After the second part of a frame comes its terminator.                  *)
LEMMA AfterSecondPart ==
    ASSUME NEW lo \in Nat, NEW b, Stream(b, lo),
           NEW i \in 1..Len(b), i < Len(b), b[i].part = 2
    PROVE  b[i + 1] = CR /\ i + 1 \in FrameEnds(b)
<1>1. i + 1 \in 2..Len(b) /\ i + 1 \in 1..Len(b) /\ (i + 1) - 1 = i
  BY StreamBytes
<1>2. Ordered(b, i + 1) /\ b[i + 1] \in Byte /\ b[i + 1].part \in 0..2 /\ b[i] \in Byte
      /\ b[i + 1].frame \in Nat
  BY <1>1, StreamBytes
<1>3. b[i + 1].part # 1
  BY <1>1, <1>2, CRFields DEF Ordered
<1>4. b[i + 1].part # 2
  BY <1>1, <1>2, PartFields DEF Ordered
<1>5. b[i + 1] = CR
  BY <1>2, <1>3, <1>4 DEF Ordered
<1> QED
  BY <1>1, <1>5, StreamEnds

(* Cutting a stream at any byte leaves a stream.                           *)
LEMMA PrefixOfStream ==
    ASSUME NEW lo \in Nat, NEW b, Stream(b, lo),
           NEW c \in Seq(Byte), Len(c) <= Len(b),
           \A i \in 1..Len(c) : c[i] = b[i]
    PROVE  Stream(c, lo) /\ Count(c) \in Nat /\ Count(b) \in Nat /\ Count(c) <= Count(b)
<1>1. Len(c) \in Nat /\ Len(b) \in Nat
  BY StreamBytes, LenProperties
<1>2. \A i \in 1..Len(c) : i \in 1..Len(b) /\ c[i] = b[i] /\ (i > 1 => c[i - 1] = b[i - 1])
  BY <1>1
<1>3. \A i \in 1..Len(c) : Ordered(c, i)
  BY <1>2 DEF Stream, Ordered
<1>4. ASSUME NEW i \in 1..Len(c), c[i].part = 2
      PROVE  /\ c[i].frame > lo
             /\ \A m \in (lo + 1)..(c[i].frame - 1) : \E j \in 1..(i - 1) : c[j] = Part(m, 2)
  <2>1. /\ b[i].frame > lo
        /\ \A m \in (lo + 1)..(b[i].frame - 1) : \E j \in 1..(i - 1) : b[j] = Part(m, 2)
    BY <1>2, <1>4 DEF Stream
  <2>2. \A j \in 1..(i - 1) : c[j] = b[j]
    BY <1>1
  <2> QED
    BY <2>1, <2>2, <1>2
<1>5. \A i, j \in 1..Len(c) :
         i < j /\ c[i].part = 2 /\ c[j].part = 2 => c[i].frame < c[j].frame
  BY <1>2 DEF Stream
<1>6. Stream(c, lo)
  BY <1>3, <1>4, <1>5 DEF Stream
<1>7. FrameEnds(c) \in SUBSET FrameEnds(b)
  <2> SUFFICES ASSUME NEW e \in FrameEnds(c)
               PROVE  e \in FrameEnds(b)
    OBVIOUS
  <2>1. e \in 2..Len(c) /\ c[e] = CR /\ c[e - 1].part = 2
    BY <1>6, StreamEnds
  <2>2. e \in 2..Len(b) /\ b[e] = CR /\ b[e - 1].part = 2
    BY <2>1, <1>1, <1>2
  <2> QED
    BY <2>2, StreamEnds
<1> QED
  BY <1>6, <1>7, StreamEnds, FS_Subset DEF Count

(* Without its first line, a stream begins one frame later, or at the same *)
(* frame if that line was none.                                            *)
LEMMA FirstLine ==
    ASSUME NEW lo \in Nat, NEW b, Stream(b, lo), NEW m \in 1..Len(b),
           b[m] = CR, \A i \in 1..(m - 1) : b[i] # CR
    PROVE  m = 2 \/ (m = 3 /\ b[1] = Part(b[2].frame, 1) /\ b[2].part = 2)
<1>1. \A i \in 1..Len(b) : Ordered(b, i) /\ b[i] \in Byte /\ b[i].part \in 0..2
  BY StreamBytes
<1>2. Len(b) \in Nat /\ 1 \in 1..Len(b)
  BY StreamBytes
<1>3. m # 1
  BY <1>1, <1>2, CRFields DEF Ordered
<1>4. b[1].part = 1
  BY <1>1, <1>2 DEF Ordered
<1>5. m > 2 => b[2].part = 2 /\ b[1] = Part(b[2].frame, 1)
  <2> SUFFICES ASSUME m > 2
               PROVE  b[2].part = 2 /\ b[1] = Part(b[2].frame, 1)
    OBVIOUS
  <2>1. 2 \in 1..Len(b) /\ b[2] # CR /\ b[1] # CR
    BY <1>2, <1>4, CRFields
  <2> QED
    BY <2>1, <1>1 DEF Ordered
<1>6. ~(m > 3)
  <2> SUFFICES ASSUME m > 3
               PROVE  FALSE
    OBVIOUS
  <2>1. 3 \in 1..Len(b) /\ b[3] # CR /\ b[2].part = 2 /\ b[2] \in Byte
    BY <1>1, <1>2, <1>5
  <2>2. b[2] # CR
    BY <2>1, CRFields
  <2>3. b[3].part = 2
    BY <2>1, <2>2, <1>1 DEF Ordered
  <2>4. b[2] = Part(b[3].frame, 1) /\ b[3] \in Byte
    BY <2>1, <2>3, <1>1 DEF Ordered
  <2> QED
    BY <2>1, <2>4, ByteIsPart, PartFields
<1> QED
  BY <1>3, <1>5, <1>6

(* Taking a whole line (w bytes) off the front of a stream: what is left is*)
(* a stream, that begins one frame later if the line was a frame's.        *)
LEMMA DropLine ==
    ASSUME NEW lo \in Nat, NEW b, Stream(b, lo), NEW w \in {2, 3}, w <= Len(b),
           b[w] = CR, w = 3 => b[2].part = 2,
           NEW c \in Seq(Byte), Len(c) = Len(b) - w,
           \A i \in 1..Len(c) : c[i] = b[i + w]
    PROVE  /\ Stream(c, lo + w - 2)
           /\ Count(c) \in Nat /\ Count(b) \in Nat /\ Count(b) = Count(c) + w - 2
           /\ w = 3 => b[2].frame = lo + 1
<1>1. Len(c) \in Nat /\ Len(b) \in Nat /\ 1 \in 1..Len(b) /\ 2 \in 1..Len(b) /\ w \in 1..Len(b)
  BY StreamBytes, LenProperties
<1>2. \A i \in 1..Len(c) : /\ i + w \in 1..Len(b) /\ c[i] = b[i + w]
                           /\ i > 1 => c[i - 1] = b[(i + w) - 1]
                           /\ (i + w) - 1 \in 1..Len(b)
  <2> TAKE i \in 1..Len(c)
  <2>1. i + w \in 1..Len(b) /\ (i + w) - 1 \in 1..Len(b)
    BY <1>1
  <2>2. i > 1 => i - 1 \in 1..Len(c) /\ (i - 1) + w = (i + w) - 1
    BY <1>1
  <2> QED
    BY <2>1, <2>2
<1>3. \A i \in 1..Len(b) : /\ Ordered(b, i) /\ b[i] \in Byte /\ b[i].part \in 0..2
                           /\ b[i].frame \in Nat
  BY StreamBytes
<1>4. b[1].part # 2
  BY <1>1, <1>3 DEF Ordered
<1>5. w = 2 => b[2].part = 0
  BY CRFields
<1>6. w = 3 => b[2].frame = lo + 1
  <2> SUFFICES ASSUME w = 3
               PROVE  b[2].frame = lo + 1
    OBVIOUS
  <2>1. b[2].frame > lo /\ b[2].frame \in Nat
    BY <1>1, <1>3 DEF Stream
  <2>2. SUFFICES ASSUME b[2].frame # lo + 1
                 PROVE  FALSE
    OBVIOUS
  <2>3. lo + 1 \in (lo + 1)..(b[2].frame - 1)
    BY <2>1, <2>2
  <2>4. PICK j \in 1..(2 - 1) : b[j] = Part(lo + 1, 2)
    BY <2>3, <1>1 DEF Stream
  <2>5. b[1].part = 2
    BY <2>4, PartFields
  <2> QED
    BY <2>5, <1>4
<1>7. ASSUME NEW i \in 1..Len(c)
      PROVE  Ordered(c, i)
  <2>1. Ordered(b, i + w)
    BY <1>2, <1>3
  <2>2. CASE i > 1
    BY SMTT(30), <2>1, <2>2, <1>2 DEF Ordered
  <2>3. CASE ~(i > 1)
    <3>1. i = 1 /\ (i + w) - 1 = w /\ b[w] = CR
      BY <2>3
    <3>2. b[i + w].part # 0
      <4>1. b[w].part = 0 /\ b[w] # Part(0, 1)
        BY CRFields, PartFields
      <4> QED
        BY <2>1, <3>1, <4>1 DEF Ordered
    <3>3. b[i + w].part # 2
      <4>1. b[i + w].frame \in Nat
        BY <1>2, <1>3
      <4> QED
        BY <2>1, <3>1, <4>1, CRFields, PartFields DEF Ordered
    <3> QED
      BY <3>1, <3>2, <3>3, <1>2, <2>3 DEF Ordered
  <2> QED
    BY <2>2, <2>3
<1> DEFINE lo2 == lo + w - 2
<1>8. ASSUME NEW i \in 1..Len(c), c[i].part = 2
      PROVE  /\ c[i].frame > lo2
             /\ \A m \in (lo2 + 1)..(c[i].frame - 1) : \E j \in 1..(i - 1) : c[j] = Part(m, 2)
  <2>1. i + w \in 1..Len(b) /\ c[i] = b[i + w] /\ c[i].frame \in Nat
    BY <1>2, <1>3
  <2>2. /\ b[i + w].frame > lo
        /\ \A m \in (lo + 1)..(b[i + w].frame - 1) : \E j \in 1..((i + w) - 1) : b[j] = Part(m, 2)
    BY <2>1, <1>8 DEF Stream
  <2>3. w = 3 => b[2].frame < b[i + w].frame
    <3>1. 2 < i + w
      BY <1>1
    <3> QED
      BY <3>1, <2>1, <1>8, <1>1 DEF Stream
  <2>4. c[i].frame > lo2
    BY <2>1, <2>2, <2>3, <1>6
  <2>5. ASSUME NEW m \in (lo2 + 1)..(c[i].frame - 1)
        PROVE  \E j \in 1..(i - 1) : c[j] = Part(m, 2)
    <3>1. m \in (lo + 1)..(b[i + w].frame - 1) /\ m \in Nat /\ m > lo2
      BY <2>1, <2>4
    <3>2. PICK j \in 1..((i + w) - 1) : b[j] = Part(m, 2)
      BY <3>1, <2>2
    <3>3. b[j].part = 2 /\ b[j].frame = m
      BY <3>1, <3>2, PartFields
    <3>4. j # 1 /\ j # w
      BY <3>3, <1>4, CRFields
    <3>5. j # 2
      <4>1. CASE w = 2
        BY <4>1, <3>3, <1>5
      <4>2. CASE w = 3
        BY <4>2, <3>1, <3>3, <1>6
      <4> QED
        BY <4>1, <4>2
    <3>6. j > w
      BY <3>4, <3>5
    <3>7. j - w \in 1..(i - 1) /\ j - w \in 1..Len(c) /\ (j - w) + w = j
      BY <3>6, <1>1
    <3>8. c[j - w] = b[j]
      BY <3>7
    <3> QED
      BY <3>2, <3>7, <3>8
  <2> QED
    BY <2>4, <2>5
<1>9. \A i, j \in 1..Len(c) :
         i < j /\ c[i].part = 2 /\ c[j].part = 2 => c[i].frame < c[j].frame
  <2> SUFFICES ASSUME NEW i \in 1..Len(c), NEW j \in 1..Len(c),
                      i < j, c[i].part = 2, c[j].part = 2
               PROVE  c[i].frame < c[j].frame
    OBVIOUS
  <2>1. i + w < j + w
    BY <1>1
  <2>2. /\ i + w \in 1..Len(b) /\ c[i] = b[i + w]
        /\ j + w \in 1..Len(b) /\ c[j] = b[j + w]
    BY <1>2
  <2>3. \A k, l \in 1..Len(b) :
           k < l /\ b[k].part = 2 /\ b[l].part = 2 => b[k].frame < b[l].frame
    BY DEF Stream
  <2>4. b[i + w].frame < b[j + w].frame
    BY <2>1, <2>2, <2>3, Zenon
  <2> QED
    BY <2>2, <2>4
<1>10. lo2 \in Nat /\ lo2 = lo + w - 2
  OBVIOUS
<1>11. Stream(c, lo2)
  BY <1>7, <1>8, <1>9 DEF Stream
<1> HIDE DEF lo2
<1>12. /\ Count(b) \in Nat /\ Count(c) \in Nat
       /\ FrameEnds(c) = {i \in 2..Len(c) : c[i] = CR /\ c[i - 1].part = 2}
  BY <1>10, <1>11, StreamEnds
<1>13. \A e \in FrameEnds(c) : e + w \in FrameEnds(b) /\ b[(e + w) - 1] = c[e - 1]
  <2> SUFFICES ASSUME NEW e \in FrameEnds(c)
               PROVE  e + w \in FrameEnds(b) /\ b[(e + w) - 1] = c[e - 1]
    OBVIOUS
  <2>1. e \in 2..Len(c) /\ c[e] = CR /\ c[e - 1].part = 2
    BY <1>12
  <2>2. e \in 1..Len(c) /\ e - 1 \in 1..Len(c) /\ (e - 1) + w = (e + w) - 1
        /\ e + w \in 2..Len(b)
    BY <2>1, <1>1
  <2>3. b[(e + w) - 1] = c[e - 1] /\ b[e + w] = c[e]
    BY <2>2, <1>2
  <2>4. e + w \in 2..Len(b) /\ b[e + w] = CR /\ b[(e + w) - 1].part = 2
    BY <2>1, <2>2, <2>3
  <2> QED
    BY <2>3, <2>4, StreamEnds
<1>14. \A e \in FrameEnds(b) :
          \/ e - w \in FrameEnds(c) /\ c[(e - w) - 1] = b[e - 1]
          \/ w = 3 /\ e = 3
  <2> SUFFICES ASSUME NEW e \in FrameEnds(b), ~(w = 3 /\ e = 3)
               PROVE  e - w \in FrameEnds(c) /\ c[(e - w) - 1] = b[e - 1]
    OBVIOUS
  <2>1. e \in 2..Len(b) /\ b[e] = CR /\ b[e - 1].part = 2
    BY StreamEnds
  <2>2. e # 2
    BY <2>1, <1>4
  <2>3. w = 2 => e # 3
    BY <2>1, <1>5
  <2>4. e # w + 1
    BY <2>1, CRFields
  <2>5. e > w + 1
    BY <2>1, <2>2, <2>3, <2>4
  <2>6. e - w \in 2..Len(c) /\ (e - w) - 1 \in 1..Len(c) /\ e - w \in 1..Len(c)
        /\ ((e - w) - 1) + w = e - 1 /\ (e - w) + w = e
    BY <2>1, <2>5, <1>1
  <2>7. c[e - w] = b[e] /\ c[(e - w) - 1] = b[e - 1]
    BY <2>6
  <2> QED
    BY <2>1, <2>6, <2>7, <1>12
<1>15. w = 3 => 3 \in FrameEnds(b)
  <2>1. w = 3 => 3 \in 2..Len(b) /\ b[3] = CR /\ b[3 - 1].part = 2
    BY <1>1
  <2> QED
    BY <2>1, StreamEnds
<1>16. /\ \A k \in 1..Count(b) : \E e \in FrameEnds(b) : b[e - 1] = Part(lo + k, 2)
       /\ \A e \in FrameEnds(b) : b[e - 1].frame \in (lo + 1)..(lo + Count(b))
  BY PendingIsRun
<1>17. /\ \A k \in 1..Count(c) : \E e \in FrameEnds(c) : c[e - 1] = Part(lo2 + k, 2)
       /\ \A e \in FrameEnds(c) : c[e - 1].frame \in (lo2 + 1)..(lo2 + Count(c))
  BY <1>10, <1>11, PendingIsRun
<1>18. Count(b) >= Count(c) + w - 2
  <2>1. CASE Count(c) = 0
    <3>1. w = 3 => Count(b) >= 1
      BY <1>15, <1>16, <1>12
    <3> QED
      BY <2>1, <3>1, <1>12
  <2>2. CASE Count(c) # 0
    <3>1. Count(c) \in 1..Count(c) /\ lo2 + Count(c) \in Nat
      BY <2>2, <1>12, <1>10
    <3>2. PICK e \in FrameEnds(c) : c[e - 1] = Part(lo2 + Count(c), 2)
      BY <3>1, <1>17
    <3>3. b[(e + w) - 1].frame = lo2 + Count(c)
      BY <3>1, <3>2, <1>13, PartFields
    <3>4. lo2 + Count(c) <= lo + Count(b)
      BY <3>3, <1>13, <1>16
    <3> QED
      BY <3>4, <1>10, <1>12
  <2> QED
    BY <2>1, <2>2
<1>19. Count(b) <= Count(c) + w - 2
  <2>1. CASE Count(b) <= w - 2
    BY <2>1, <1>12
  <2>2. CASE Count(b) > w - 2
    <3>1. Count(b) \in 1..Count(b) /\ lo + Count(b) \in Nat
      BY <2>2, <1>12
    <3>2. PICK e \in FrameEnds(b) : b[e - 1] = Part(lo + Count(b), 2)
      BY <3>1, <1>16
    <3>3. b[e - 1].frame = lo + Count(b)
      BY <3>1, <3>2, PartFields
    <3>4. ~(w = 3 /\ e = 3)
      BY <3>3, <2>2, <1>6, <1>12
    <3>5. e - w \in FrameEnds(c) /\ c[(e - w) - 1].frame = lo + Count(b)
      BY <3>3, <3>4, <1>14
    <3>6. lo + Count(b) <= lo2 + Count(c)
      BY <3>5, <1>17
    <3> QED
      BY <3>6, <1>10, <1>12
  <2> QED
    BY <2>1, <2>2, <1>12
<1> QED
  BY <1>6, <1>10, <1>11, <1>12, <1>18, <1>19

Rest(b, w, c) ==
    /\ c \in Seq(Byte) /\ Len(c) = Len(b) - w
    /\ \A i \in 1..Len(c) : c[i] = b[i + w]

(* The same, with the rest of the stream given by its bytes.               *)
LEMMA DropRest ==
    ASSUME NEW lo \in Nat, NEW b, Stream(b, lo), NEW w \in {2, 3}, w <= Len(b),
           b[w] = CR, w = 3 => b[2].part = 2,
           NEW c, Rest(b, w, c)
    PROVE  /\ Stream(c, lo + w - 2)
           /\ Count(c) \in Nat /\ Count(b) \in Nat /\ Count(b) = Count(c) + w - 2
           /\ w = 3 => b[2].frame = lo + 1
<1>1. /\ c \in Seq(Byte) /\ Len(c) = Len(b) - w
      /\ \A i \in 1..Len(c) : c[i] = b[i + w]
  BY DEF Rest
<1> QED
  BY <1>1, DropLine

(* After whole lines, one more frame is the next one.                      *)
LEMMA AppendFrame ==
    ASSUME NEW lo \in Nat, NEW b, Stream(b, lo), WholeLines(b),
           NEW n, n = lo + Count(b) + 1
    PROVE  LET c == b \o FrameLine(n)
           IN  Stream(c, lo) /\ WholeLines(c) /\ Count(c) = Count(b) + 1
<1> DEFINE c == b \o FrameLine(n)
           L == Len(b)
<1>1. L \in Nat /\ b \in Seq(Byte) /\ Count(b) \in Nat /\ n \in Nat
  BY StreamBytes, StreamEnds
<1>2. \A i \in 1..L : Ordered(b, i) /\ b[i] \in Byte /\ b[i].frame \in Nat
  BY StreamBytes
<1>3. /\ Part(n, 1) \in Byte /\ Part(n, 1).frame = n /\ Part(n, 1).part = 1
      /\ Part(n, 2) \in Byte /\ Part(n, 2).frame = n /\ Part(n, 2).part = 2
      /\ CR \in Byte /\ CR.part = 0 /\ CR.frame = 0
  BY <1>1, PartFields, CRFields
<1>4. /\ c \in Seq(Byte) /\ Len(c) = L + 3
      /\ \A i \in 1..L : c[i] = b[i]
      /\ c[L + 1] = Part(n, 1) /\ c[L + 2] = Part(n, 2) /\ c[L + 3] = CR
  BY <1>1, <1>3 DEF FrameLine
<1>5. L > 0 => b[L] = CR
  BY <1>1 DEF WholeLines
<1> HIDE DEF c
<1>6. \A i \in 1..(L + 3) : i \in 1..L \/ i = L + 1 \/ i = L + 2 \/ i = L + 3
  BY <1>1
<1>7. ASSUME NEW i \in 1..Len(c)
      PROVE  Ordered(c, i)
  <2>1. CASE i \in 1..L
    <3>0. i > 1 => i - 1 \in 1..L
      BY <2>1, <1>1
    <3>1. c[i] = b[i] /\ (i > 1 => c[i - 1] = b[i - 1])
      BY <2>1, <3>0, <1>4
    <3> QED
      BY <3>1, <2>1, <1>2 DEF Ordered
  <2>2. CASE i = L + 1
    <3>1. i - 1 = L /\ (i > 1 => L > 0 /\ L \in 1..L)
      BY <2>2, <1>1
    <3>2. i > 1 => c[i - 1] = CR
      BY <3>1, <1>4, <1>5
    <3> QED
      BY <3>2, <2>2, <1>3, <1>4 DEF Ordered
  <2>3. CASE i = L + 2
    <3>1. i > 1 /\ c[i - 1] = Part(n, 1)
      BY <2>3, <1>1, <1>4
    <3> QED
      BY <3>1, <2>3, <1>3, <1>4 DEF Ordered
  <2>4. CASE i = L + 3
    <3>1. i > 1 /\ c[i - 1] = Part(n, 2)
      BY <2>4, <1>1, <1>4
    <3> QED
      BY <3>1, <2>4, <1>3, <1>4 DEF Ordered
  <2> QED
    BY <2>1, <2>2, <2>3, <2>4, <1>4, <1>6
<1>8. /\ \A k \in 1..Count(b) : \E e \in FrameEnds(b) : b[e - 1] = Part(lo + k, 2)
      /\ \A e \in FrameEnds(b) : b[e - 1].frame \in (lo + 1)..(lo + Count(b))
  BY PendingIsRun
<1>9. ASSUME NEW i \in 1..L, b[i].part = 2
      PROVE  b[i].frame < n
  <2>1. i < L
    BY <1>1, <1>5, <1>9, <1>3
  <2>2. i + 1 \in FrameEnds(b) /\ (i + 1) - 1 = i
    BY <2>1, <1>9, AfterSecondPart
  <2>3. b[i].frame \in (lo + 1)..(lo + Count(b))
    BY <2>2, <1>8
  <2> QED
    BY <2>3, <1>1
<1>10. ASSUME NEW i \in 1..Len(c), c[i].part = 2
       PROVE  /\ c[i].frame > lo
              /\ \A m \in (lo + 1)..(c[i].frame - 1) : \E j \in 1..(i - 1) : c[j] = Part(m, 2)
  <2>1. CASE i \in 1..L
    <3>1. c[i] = b[i] /\ \A j \in 1..(i - 1) : c[j] = b[j]
      BY <2>1, <1>1, <1>4
    <3> QED
      BY SMTT(30), <3>1, <2>1, <1>10 DEF Stream
  <2>2. CASE i = L + 2
    <3>1. c[i].frame = n /\ n > lo
      BY <2>2, <1>1, <1>3, <1>4
    <3>2. ASSUME NEW m \in (lo + 1)..(n - 1)
          PROVE  \E j \in 1..(i - 1) : c[j] = Part(m, 2)
      <4>1. m - lo \in 1..Count(b) /\ lo + (m - lo) = m
        BY <1>1
      <4>2. PICK e \in FrameEnds(b) : b[e - 1] = Part(m, 2)
        BY <4>1, <1>8
      <4>3. e \in 2..L
        BY StreamEnds
      <4>4. e - 1 \in 1..L /\ e - 1 \in 1..(i - 1)
        BY <4>3, <2>2, <1>1
      <4> QED
        BY <4>2, <4>4, <1>4
    <3> QED
      BY <3>1, <3>2
  <2>3. i # L + 1 /\ i # L + 3
    BY <1>3, <1>4, <1>10
  <2> QED
    BY <2>1, <2>2, <2>3, <1>4, <1>6
<1>11. \A i, j \in 1..Len(c) :
          i < j /\ c[i].part = 2 /\ c[j].part = 2 => c[i].frame < c[j].frame
  <2> SUFFICES ASSUME NEW i \in 1..Len(c), NEW j \in 1..Len(c),
                      i < j, c[i].part = 2, c[j].part = 2
               PROVE  c[i].frame < c[j].frame
    OBVIOUS
  <2>1. (i \in 1..L \/ i = L + 2) /\ (j \in 1..L \/ j = L + 2)
    BY <1>3, <1>4, <1>6
  <2>2. i \in 1..L
    BY <2>1, <1>1
  <2>3. CASE j \in 1..L
    BY <2>2, <2>3, <1>4 DEF Stream
  <2>4. CASE j = L + 2
    BY <2>2, <2>4, <1>3, <1>4, <1>9
  <2> QED
    BY <2>1, <2>3, <2>4
<1>12. Stream(c, lo)
  BY <1>4, <1>7, <1>10, <1>11 DEF Stream
<1>13. WholeLines(c)
  BY <1>4 DEF WholeLines
<1>14. Count(c) \in Nat /\ \A e \in FrameEnds(c) : c[e - 1].frame \in (lo + 1)..(lo + Count(c))
  BY <1>12, StreamEnds, PendingIsRun
<1>15. Count(c) >= Count(b) + 1
  <2>1. L + 3 \in 2..Len(c) /\ c[L + 3] = CR /\ c[(L + 3) - 1].part = 2
        /\ c[(L + 3) - 1].frame = n
    BY <1>1, <1>3, <1>4
  <2>2. L + 3 \in FrameEnds(c)
    BY <2>1, <1>12, StreamEnds
  <2>3. n \in (lo + 1)..(lo + Count(c))
    BY <2>1, <2>2, <1>14
  <2> QED
    BY <2>3, <1>1, <1>14
<1>16. Count(c) <= Count(b) + 1
  <2>1. SUFFICES ASSUME Count(c) > Count(b) + 1
                 PROVE  FALSE
    BY <1>1, <1>14
  <2>2. Count(c) \in 1..Count(c) /\ lo + Count(c) \in Nat
    BY <2>1, <1>1, <1>14
  <2>3. PICK e \in FrameEnds(c) : c[e - 1] = Part(lo + Count(c), 2)
    BY <2>2, <1>12, PendingIsRun
  <2>4. e \in 2..(L + 3) /\ c[e - 1].part = 2 /\ c[e - 1].frame = lo + Count(c)
    BY SMTT(30), <2>2, <2>3, <1>4, <1>12, StreamEnds, PartFields
  <2>5. e - 1 \in 1..L \/ e - 1 = L + 1 \/ e - 1 = L + 2
    BY <2>4, <1>1
  <2>6. CASE e - 1 \in 1..L
    <3>1. b[e - 1].part = 2 /\ b[e - 1].frame = lo + Count(c)
      BY <2>4, <2>6, <1>4
    <3>2. lo + Count(c) < n
      BY <3>1, <2>6, <1>9
    <3> QED
      BY <3>2, <2>1, <1>1, <1>14
  <2>7. CASE e - 1 = L + 1
    BY <2>4, <2>7, <1>3, <1>4
  <2>8. CASE e - 1 = L + 2
    BY <2>1, <2>4, <2>8, <1>1, <1>3, <1>4, <1>14
  <2> QED
    BY <2>5, <2>6, <2>7, <2>8
<1> QED
  BY <1>1, <1>12, <1>13, <1>14, <1>15, <1>16 DEF c

(* A line that is no frame changes nothing.                                *)
LEMMA AppendJunk ==
    ASSUME NEW lo \in Nat, NEW b, Stream(b, lo), WholeLines(b)
    PROVE  LET c == b \o JunkLine
           IN  Stream(c, lo) /\ WholeLines(c) /\ Count(c) = Count(b)
<1> DEFINE c == b \o JunkLine
           L == Len(b)
<1>1. L \in Nat /\ b \in Seq(Byte)
  BY StreamBytes
<1>2. \A i \in 1..L : Ordered(b, i) /\ b[i] \in Byte
  BY StreamBytes
<1>3. /\ Part(0, 1) \in Byte /\ Part(0, 1).part = 1
      /\ CR \in Byte /\ CR.part = 0
  BY PartFields, CRFields
<1>4. /\ c \in Seq(Byte) /\ Len(c) = L + 2
      /\ \A i \in 1..L : c[i] = b[i]
      /\ c[L + 1] = Part(0, 1) /\ c[L + 2] = CR
  BY <1>1, <1>3 DEF JunkLine
<1>5. L > 0 => b[L] = CR
  BY <1>1 DEF WholeLines
<1> HIDE DEF c
<1>6. \A i \in 1..(L + 2) : i \in 1..L \/ i = L + 1 \/ i = L + 2
  BY <1>1
<1>7. ASSUME NEW i \in 1..Len(c)
      PROVE  Ordered(c, i)
  <2>1. CASE i \in 1..L
    <3>0. i > 1 => i - 1 \in 1..L
      BY <2>1, <1>1
    <3>1. c[i] = b[i] /\ (i > 1 => c[i - 1] = b[i - 1])
      BY <2>1, <3>0, <1>4
    <3> QED
      BY <3>1, <2>1, <1>2 DEF Ordered
  <2>2. CASE i = L + 1
    <3>1. i - 1 = L /\ (i > 1 => L > 0 /\ L \in 1..L)
      BY <2>2, <1>1
    <3>2. i > 1 => c[i - 1] = CR
      BY <3>1, <1>4, <1>5
    <3> QED
      BY <3>2, <2>2, <1>3, <1>4 DEF Ordered
  <2>3. CASE i = L + 2
    <3>1. i > 1 /\ c[i - 1] = Part(0, 1)
      BY <2>3, <1>1, <1>4
    <3> QED
      BY <3>1, <2>3, <1>3, <1>4 DEF Ordered
  <2> QED
    BY <2>1, <2>2, <2>3, <1>4, <1>6
<1>8. \A i \in 1..Len(c) : c[i].part = 2 => i \in 1..L /\ c[i] = b[i]
  BY <1>3, <1>4, <1>6
<1>9. ASSUME NEW i \in 1..Len(c), c[i].part = 2
      PROVE  /\ c[i].frame > lo
             /\ \A m \in (lo + 1)..(c[i].frame - 1) : \E j \in 1..(i - 1) : c[j] = Part(m, 2)
  <2>1. i \in 1..L /\ c[i] = b[i] /\ \A j \in 1..(i - 1) : c[j] = b[j]
    BY <1>1, <1>4, <1>8, <1>9
  <2> QED
    BY <2>1, <1>9 DEF Stream
<1>10. \A i, j \in 1..Len(c) :
          i < j /\ c[i].part = 2 /\ c[j].part = 2 => c[i].frame < c[j].frame
  BY <1>8 DEF Stream
<1>11. Stream(c, lo)
  BY <1>4, <1>7, <1>9, <1>10 DEF Stream
<1>12. WholeLines(c)
  BY <1>4 DEF WholeLines
<1>13. FrameEnds(c) = FrameEnds(b)
  <2>1. ASSUME NEW e \in FrameEnds(c)
        PROVE  e \in FrameEnds(b)
    <3>1. e \in 2..(L + 2) /\ c[e] = CR /\ c[e - 1].part = 2
      BY <1>4, <1>11, StreamEnds
    <3>2. e - 1 \in 1..Len(c) /\ e \in 1..Len(c)
      BY <3>1, <1>1, <1>4
    <3>3. e - 1 \in 1..L /\ b[e - 1].part = 2
      BY <3>1, <3>2, <1>8
    <3>4. e # L + 1
      BY <3>1, <1>3, <1>4
    <3>5. e \in 2..L /\ b[e] = CR
      BY <3>1, <3>3, <3>4, <1>1, <1>4
    <3> QED
      BY <3>3, <3>5, StreamEnds
  <2>2. ASSUME NEW e \in FrameEnds(b)
        PROVE  e \in FrameEnds(c)
    <3>1. e \in 2..L /\ b[e] = CR /\ b[e - 1].part = 2
      BY StreamEnds
    <3>2. e \in 2..Len(c) /\ c[e] = CR /\ c[e - 1].part = 2
      BY SMTT(30), <3>1, <1>1, <1>4
    <3> QED
      BY <3>2, <1>11, StreamEnds
  <2> QED
    BY <2>1, <2>2
<1> QED
  BY <1>11, <1>12, <1>13 DEF Count, c

-----------------------------------------------------------------------------
(* The inductive invariant.                                                *)

Types ==
    /\ wire \in Seq(Byte) /\ Len(wire) <= WireCap
    /\ tmp \in Seq(Byte) /\ Len(tmp) <= ChunkCap
    /\ line \in Seq(Byte)
    /\ sent \in 0..MaxFrames /\ junk \in 0..MaxJunk
    /\ alive \in BOOLEAN /\ done \in BOOLEAN
    /\ reader \in {"top", "read", "scan", "push", "stopped"}
    /\ frames \in Seq(Nat) /\ Len(frames) <= ChanCap
    /\ host \in {"idle", "recv", "flush", "drain", "closing", "closed"}
    /\ held \in Nat /\ taken \in Nat /\ got \in Nat /\ buffered \in Nat
    /\ recvs \in 0..MaxRecvs

(* What the reader has not scanned, the last frame out of it, and the last *)
(* frame that can still reach the caller.                                  *)
Bytes == line \o tmp \o wire

Lo == taken + Len(frames) + (IF reader = "push" THEN 1 ELSE 0)

Top == IF reader = "stopped" THEN taken + Len(frames) ELSE Lo + Count(Bytes)

(* The channel holds the frames after the last one taken, the reader the   *)
(* one after these, and the bytes those that follow, up to the last one    *)
(* sent unless the port is gone.                                           *)
Fifo ==
    /\ \A i \in 1..Len(frames) : frames[i] = taken + i
    /\ \A i \in 1..Len(line) : line[i].part # 0
    /\ reader \in {"top", "read"} => tmp = <<>>
    /\ reader = "push" => held = Lo /\ line = <<>>
    /\ held <= sent
    /\ reader = "stopped" => done
    /\ reader # "stopped" => Stream(Bytes, Lo)
    /\ Top <= sent
    /\ alive /\ reader # "stopped" => WholeLines(Bytes) /\ Top = sent

(* What the last Flush was to discard is not behind the last frame taken,  *)
(* or still in the channel.                                                *)
Fresh ==
    /\ got <= taken
    /\ got # 0 => got > buffered
    /\ buffered <= taken + Len(frames)
    /\ host # "flush" => buffered <= taken

PortInv == Types /\ Fifo /\ Fresh

(* A step adds the next frame at the end, or takes one at the front, or    *)
(* cuts the end once the port is gone, or changes nothing that is promised.*)
Open == alive /\ ~done

Effect ==
    \/ /\ sent' = sent + 1 /\ taken' = taken /\ Open' = Open
       /\ \/ Top = sent /\ Top' = sent + 1
          \/ ~Open /\ Top' = Top
    \/ /\ sent' = sent /\ taken' = taken + 1 /\ Open' = Open
       /\ taken < Top /\ Top' = Top
    \/ /\ sent' = sent /\ taken' = taken /\ Open' = FALSE
       /\ Top' <= Top
    \/ sent' = sent /\ taken' = taken /\ Open' = Open /\ Top' = Top

(* The places of two sequences in their concatenation.                     *)
LEMMA ConcatAt ==
    ASSUME NEW S, NEW s \in Seq(S), NEW t \in Seq(S)
    PROVE  /\ s \o t \in Seq(S) /\ Len(s \o t) = Len(s) + Len(t)
           /\ Len(s) \in Nat /\ Len(t) \in Nat
           /\ \A i \in 1..Len(s) : (s \o t)[i] = s[i]
           /\ \A i \in 1..Len(t) : (s \o t)[Len(s) + i] = t[i]
<1>1. Len(s) \in Nat /\ Len(t) \in Nat
  BY LenProperties
<1>2. /\ s \o t \in Seq(S) /\ Len(s \o t) = Len(s) + Len(t)
      /\ \A i \in 1..(Len(s) + Len(t)) :
            (s \o t)[i] = IF i <= Len(s) THEN s[i] ELSE t[i - Len(s)]
  BY ConcatProperties
<1>3. \A i \in 1..Len(s) : (s \o t)[i] = s[i]
  BY <1>1, <1>2
<1>4. ASSUME NEW i \in 1..Len(t)
      PROVE  (s \o t)[Len(s) + i] = t[i]
  <2>1. Len(s) + i \in 1..(Len(s) + Len(t)) /\ ~(Len(s) + i <= Len(s)) /\ (Len(s) + i) - Len(s) = i
    BY <1>1
  <2> QED
    BY <2>1, <1>2
<1> QED
  BY <1>1, <1>2, <1>3, <1>4

(* Where the bytes of the line, the chunk and the wire stand in the stream.*)
LEMMA BytesOf ==
    ASSUME Types
    PROVE  /\ Bytes \in Seq(Byte)
           /\ Len(line) \in Nat /\ Len(tmp) \in Nat /\ Len(wire) \in Nat /\ Len(frames) \in Nat
           /\ Len(Bytes) = Len(line) + Len(tmp) + Len(wire)
           /\ Lo \in Nat
           /\ \A i \in 1..Len(line) : Bytes[i] = line[i]
           /\ \A i \in 1..Len(tmp) : Bytes[Len(line) + i] = tmp[i]
           /\ \A i \in 1..Len(wire) : Bytes[Len(line) + Len(tmp) + i] = wire[i]
<1>1. line \in Seq(Byte) /\ tmp \in Seq(Byte) /\ wire \in Seq(Byte) /\ frames \in Seq(Nat)
      /\ taken \in Nat
  BY DEF Types
<1>2. line \o tmp \in Seq(Byte) /\ Len(line \o tmp) = Len(line) + Len(tmp)
      /\ (\A i \in 1..Len(line) : (line \o tmp)[i] = line[i])
      /\ (\A i \in 1..Len(tmp) : (line \o tmp)[Len(line) + i] = tmp[i])
  BY <1>1, ConcatAt
<1> DEFINE p == line \o tmp
<1> HIDE DEF p
<1>3. p \in Seq(Byte) /\ Len(p) = Len(line) + Len(tmp) /\ Len(p) \in Nat
      /\ Len(line) \in Nat /\ Len(tmp) \in Nat /\ Len(wire) \in Nat
      /\ (\A i \in 1..Len(line) : p[i] = line[i])
      /\ (\A i \in 1..Len(tmp) : p[Len(line) + i] = tmp[i])
  BY <1>1, <1>2, LenProperties DEF p
<1>p. p \in Seq(Byte) /\ wire \in Seq(Byte)
  BY <1>1, <1>3
<1>4. p \o wire \in Seq(Byte) /\ Len(p \o wire) = Len(p) + Len(wire)
      /\ (\A i \in 1..Len(p) : (p \o wire)[i] = p[i])
      /\ (\A i \in 1..Len(wire) : (p \o wire)[Len(p) + i] = wire[i])
  BY <1>p, ConcatAt
<1>5. Bytes = p \o wire
  BY DEF Bytes, p
<1>6. Lo \in Nat /\ Len(frames) \in Nat
  BY <1>1, LenProperties DEF Lo
<1> QED
  BY SMTT(30), <1>3, <1>4, <1>5, <1>6

(* The newest frame on its way to the caller, counted from either end.     *)
LEMMA TopOf ==
    ASSUME Types, Fifo
    PROVE  /\ Top \in Nat /\ taken + Len(frames) <= Top
           /\ reader # "stopped" => Count(Bytes) \in Nat /\ Lo <= Top /\ Top = Lo + Count(Bytes)
<1>1. taken \in Nat /\ Len(frames) \in Nat /\ Lo \in Nat /\ taken + Len(frames) <= Lo
  BY BytesOf DEF Types, Lo
<1>2. CASE reader = "stopped"
  BY <1>1, <1>2 DEF Top
<1>3. CASE reader # "stopped"
  <2>1. Stream(Bytes, Lo)
    BY <1>3 DEF Fifo
  <2>2. Count(Bytes) \in Nat
    BY <2>1, <1>1, StreamEnds
  <2>3. Top = Lo + Count(Bytes)
    BY <1>3 DEF Top
  <2> QED
    BY <1>1, <1>3, <2>2, <2>3
<1> QED
  BY <1>2, <1>3

(* The invariant holds initially.                                          *)
LEMMA PortInit == Init => PortInv
<1> SUFFICES ASSUME Init
             PROVE  PortInv
  OBVIOUS
<1>1. Types
  <2>1. /\ wire \in Seq(Byte) /\ Len(wire) = 0 /\ tmp \in Seq(Byte) /\ Len(tmp) = 0
        /\ line \in Seq(Byte) /\ frames \in Seq(Nat) /\ Len(frames) = 0
    BY DEF Init
  <2>2. /\ sent \in 0..MaxFrames /\ junk \in 0..MaxJunk /\ recvs \in 0..MaxRecvs
        /\ 0 <= WireCap /\ 0 <= ChunkCap /\ 0 <= ChanCap
        /\ held \in Nat /\ taken \in Nat /\ got \in Nat /\ buffered \in Nat
    BY PortAssumption DEF Init
  <2>3. alive \in BOOLEAN /\ done \in BOOLEAN
    BY DEF Init
  <2> QED
    BY <2>1, <2>2, <2>3 DEF Init, Types
<1>2. Bytes = <<>> /\ Len(Bytes) = 0 /\ Lo = 0
  BY DEF Init, Bytes, Lo
<1>3. Stream(Bytes, 0) /\ FrameEnds(Bytes) = {}
  <2>1. Bytes \in Seq(Byte) /\ DOMAIN Bytes = {}
    BY <1>2
  <2> QED
    BY <1>2, <2>1 DEF Stream, FrameEnds
<1>4. Count(Bytes) = 0
  BY <1>3, FS_EmptySet DEF Count
<1>5. Fifo
  BY <1>2, <1>3, <1>4 DEF Init, Fifo, Top, WholeLines
<1>6. Fresh
  BY DEF Init, Fresh
<1> QED
  BY <1>1, <1>5, <1>6 DEF PortInv

(* A step that keeps the bytes and the frame they begin after.             *)
LEMMA SameBytes ==
    ASSUME Types, Fifo, Bytes' = Bytes, Lo' = Lo,
           reader # "stopped", reader' # "stopped",
           sent' = sent, alive' = alive
    PROVE  /\ Top' = Top /\ Top' <= sent' /\ Stream(Bytes', Lo')
           /\ alive' => WholeLines(Bytes') /\ Top' = sent'
<1>1. Top' = Top
  BY DEF Top
<1>2. Stream(Bytes', Lo')
  BY DEF Fifo
<1>3. Top' <= sent'
  BY <1>1 DEF Fifo
<1>4. alive' => WholeLines(Bytes') /\ Top' = sent'
  BY <1>1 DEF Fifo
<1> QED
  BY <1>1, <1>2, <1>3, <1>4

(* The device writes.                                                      *)
LEMMA WriteBytes ==
    ASSUME Types, NEW x \in Seq(Byte), Write(x)
    PROVE  Bytes' = Bytes \o x /\ wire' \in Seq(Byte) /\ Len(wire') <= WireCap
<1>1. line \in Seq(Byte) /\ tmp \in Seq(Byte) /\ wire \in Seq(Byte)
  BY DEF Types
<1>2. line \o tmp \in Seq(Byte) /\ wire \o x \in Seq(Byte) /\ Len(wire \o x) = Len(wire) + Len(x)
  BY <1>1, ConcatAt
<1>3. ((line \o tmp) \o wire) \o x = (line \o tmp) \o (wire \o x)
  <2> DEFINE p == line \o tmp
  <2>1. p \in Seq(Byte)
    BY <1>2
  <2> HIDE DEF p
  <2>2. (p \o wire) \o x = p \o (wire \o x)
    <3>1. \A s, t, u \in Seq(Byte) : (s \o t) \o u = s \o (t \o u)
      BY ConcatAssociative
    <3>2. p \in Seq(Byte) /\ wire \in Seq(Byte) /\ x \in Seq(Byte)
      BY <1>1, <2>1
    <3> QED
      BY <3>1, <3>2, Zenon
  <2> QED
    BY <2>2 DEF p
<1>4. line' = line /\ tmp' = tmp /\ wire' = wire \o x /\ Len(wire) + Len(x) <= WireCap
  BY DEF Write, readerVars
<1> QED
  BY <1>2, <1>3, <1>4 DEF Bytes

(* The lines the device writes are bytes.                                  *)
LEMMA LineTypes ==
    ASSUME NEW n \in Nat
    PROVE  FrameLine(n) \in Seq(Byte) /\ JunkLine \in Seq(Byte)
<1>1. Part(n, 1) \in Byte /\ Part(n, 2) \in Byte /\ Part(0, 1) \in Byte /\ CR \in Byte
  BY PartFields, CRFields
<1> QED
  BY <1>1 DEF FrameLine, JunkLine

(* The device writes a frame: the stream grows by one frame, a put.        *)
LEMMA DeviceFrameStep ==
    ASSUME PortInv, DeviceFrame
    PROVE  PortInv' /\ Effect
<1> USE DEF PortInv
<1>1. /\ sent < MaxFrames /\ sent' = sent + 1 /\ Write(FrameLine(sent + 1)) /\ junk' = junk
      /\ alive /\ alive' = alive /\ reader' = reader /\ tmp' = tmp /\ line' = line
      /\ held' = held /\ frames' = frames /\ done' = done /\ host' = host /\ taken' = taken
      /\ got' = got /\ buffered' = buffered /\ recvs' = recvs
  BY DEF DeviceFrame, Write, readerVars, hostVars
<1>2. sent \in Nat /\ sent + 1 \in Nat /\ sent + 1 \in 0..MaxFrames
  BY <1>1, PortAssumption DEF Types
<1>3. Bytes' = Bytes \o FrameLine(sent + 1) /\ wire' \in Seq(Byte) /\ Len(wire') <= WireCap
  BY <1>1, <1>2, LineTypes, WriteBytes
<1>4. Types'
  BY <1>1, <1>2, <1>3 DEF Types
<1>5. Lo' = Lo /\ Lo \in Nat /\ Len(frames) \in Nat
  BY <1>1, BytesOf DEF Lo
<1>6. CASE reader = "stopped"
  <2>1. Top' = Top /\ done
    BY <1>1, <1>6 DEF Top, Fifo
  <2>2. held' <= sent' /\ Top' <= sent'
    <3>1. held <= sent /\ Top <= sent /\ held \in Nat /\ Top \in Nat
      BY TopOf DEF Fifo, Types
    <3> QED
      BY <3>1, <2>1, <1>1, <1>2
  <2>3. Fifo'
    BY <1>1, <1>5, <1>6, <2>1, <2>2 DEF Fifo
  <2> QED
    BY <1>1, <1>4, <2>1, <2>3 DEF Fresh, Effect, Open
<1>7. CASE reader # "stopped"
  <2>1. Stream(Bytes, Lo) /\ WholeLines(Bytes) /\ Top = sent /\ Top = Lo + Count(Bytes)
        /\ Count(Bytes) \in Nat
    BY <1>1, <1>7, TopOf DEF Fifo
  <2>2. /\ Stream(Bytes', Lo') /\ WholeLines(Bytes') /\ Count(Bytes') = Count(Bytes) + 1
    <3>1. sent + 1 = Lo + Count(Bytes) + 1
      BY <2>1
    <3>2. LET c == Bytes \o FrameLine(sent + 1)
          IN  Stream(c, Lo) /\ WholeLines(c) /\ Count(c) = Count(Bytes) + 1
      BY <2>1, <3>1, <1>5, AppendFrame
    <3> QED
      BY <3>2, <1>3, <1>5
  <2>3. Top' = sent + 1
    BY <2>1, <2>2, <1>1, <1>5, <1>7 DEF Top
  <2>4. Fifo'
    BY <1>1, <1>2, <1>5, <1>7, <2>2, <2>3 DEF Fifo, Types
  <2> QED
    BY <1>1, <1>4, <2>1, <2>3, <2>4 DEF Fresh, Effect, Open
<1> QED
  BY <1>6, <1>7

(* The device writes another line: the stream grows by no frame.           *)
LEMMA DeviceJunkStep ==
    ASSUME PortInv, DeviceJunk
    PROVE  PortInv' /\ Effect
<1> USE DEF PortInv
<1>1. /\ junk < MaxJunk /\ junk' = junk + 1 /\ Write(JunkLine) /\ sent' = sent
      /\ alive /\ alive' = alive /\ reader' = reader /\ tmp' = tmp /\ line' = line
      /\ held' = held /\ frames' = frames /\ done' = done /\ host' = host /\ taken' = taken
      /\ got' = got /\ buffered' = buffered /\ recvs' = recvs
  BY DEF DeviceJunk, Write, readerVars, hostVars
<1>2. junk' \in 0..MaxJunk
  BY <1>1, PortAssumption DEF Types
<1>3. Bytes' = Bytes \o JunkLine /\ wire' \in Seq(Byte) /\ Len(wire') <= WireCap
  <2>1. JunkLine \in Seq(Byte)
    BY LineTypes
  <2> QED
    BY <1>1, <2>1, WriteBytes
<1>4. Types'
  BY <1>1, <1>2, <1>3 DEF Types
<1>5. Lo' = Lo /\ Lo \in Nat /\ Len(frames) \in Nat
  BY <1>1, BytesOf DEF Lo
<1>6. CASE reader = "stopped"
  <2>1. Top' = Top /\ done
    BY <1>1, <1>6 DEF Top, Fifo
  <2>2. Fifo'
    BY <1>1, <1>5, <1>6, <2>1 DEF Fifo
  <2> QED
    BY <1>1, <1>4, <2>1, <2>2 DEF Fresh, Effect, Open
<1>7. CASE reader # "stopped"
  <2>1. Stream(Bytes, Lo) /\ WholeLines(Bytes) /\ Top = sent /\ Top = Lo + Count(Bytes)
        /\ Count(Bytes) \in Nat
    BY <1>1, <1>7, TopOf DEF Fifo
  <2>2. /\ Stream(Bytes', Lo') /\ WholeLines(Bytes') /\ Count(Bytes') = Count(Bytes)
    BY <2>1, <1>3, <1>5, AppendJunk
  <2>3. Top' = Top
    BY <2>1, <2>2, <1>1, <1>5, <1>7 DEF Top
  <2>4. Fifo'
    BY <1>1, <1>5, <1>7, <2>1, <2>2, <2>3 DEF Fifo
  <2> QED
    BY <1>1, <1>4, <2>1, <2>3, <2>4 DEF Fresh, Effect, Open
<1> QED
  BY <1>6, <1>7

(* The bytes on the wire are lost.                                         *)
LEMMA WireLost ==
    ASSUME PortInv, wire' = <<>>, alive' = FALSE,
           UNCHANGED <<sent, junk, readerVars, frames, taken, got, buffered, recvs, done>>,
           host' = host \/ (host = "closing" /\ host' = "closed")
    PROVE  PortInv' /\ Effect
<1> USE DEF PortInv
<1>1. /\ sent' = sent /\ junk' = junk
      /\ reader' = reader /\ tmp' = tmp /\ line' = line
      /\ held' = held /\ frames' = frames /\ done' = done /\ taken' = taken
      /\ got' = got /\ buffered' = buffered /\ recvs' = recvs
  BY DEF readerVars
<1>2. wire' \in Seq(Byte) /\ Len(wire') = 0 /\ 0 <= WireCap
  BY PortAssumption
<1>3. host' \in {"idle", "recv", "flush", "drain", "closing", "closed"} /\ (host' = "flush" <=> host = "flush")
  BY DEF Types
<1>4. Types'
  BY <1>1, <1>2, <1>3 DEF Types
<1>5. Lo' = Lo /\ Lo \in Nat /\ Len(frames) \in Nat
  BY <1>1, BytesOf DEF Lo
<1>6. CASE reader = "stopped"
  <2>1. Top' = Top /\ done
    BY <1>1, <1>6 DEF Top, Fifo
  <2>2. Fifo'
    BY <1>1, <1>5, <1>6, <2>1 DEF Fifo
  <2> QED
    BY <1>1, <1>3, <1>4, <2>1, <2>2 DEF Fresh, Effect, Open
<1>7. CASE reader # "stopped"
  <2>1. Stream(Bytes, Lo) /\ Top <= sent /\ Top = Lo + Count(Bytes)
    BY <1>7, TopOf DEF Fifo
  <2>2. /\ Bytes' \in Seq(Byte) /\ Len(Bytes') <= Len(Bytes)
        /\ \A i \in 1..Len(Bytes') : Bytes'[i] = Bytes[i]
    <3>1. line \in Seq(Byte) /\ tmp \in Seq(Byte) /\ wire \in Seq(Byte)
      BY DEF Types
    <3>2. line \o tmp \in Seq(Byte)
      BY <3>1, ConcatAt
    <3>3. Bytes' = line \o tmp
      <4>1. (line \o tmp) \o <<>> = line \o tmp
        BY <3>2, ConcatEmptySeq
      <4> QED
        BY <4>1, <1>1 DEF Bytes
    <3>4. /\ Len(Bytes) = Len(line \o tmp) + Len(wire) /\ Len(wire) \in Nat /\ Len(line \o tmp) \in Nat
          /\ \A i \in 1..Len(line \o tmp) : Bytes[i] = (line \o tmp)[i]
      BY <3>1, <3>2, ConcatAt DEF Bytes
    <3> QED
      BY <3>2, <3>3, <3>4
  <2>3. Stream(Bytes', Lo) /\ Count(Bytes') \in Nat /\ Count(Bytes) \in Nat
        /\ Count(Bytes') <= Count(Bytes)
    BY <2>1, <2>2, <1>5, PrefixOfStream
  <2>4. Top' <= Top /\ Top' <= sent
    <3>1. Top' = Lo + Count(Bytes')
      BY <1>1, <1>5, <1>7 DEF Top
    <3>2. sent \in Nat
      BY DEF Types
    <3> QED
      BY <3>1, <3>2, <2>1, <2>3, <1>5
  <2>5. Fifo'
    BY <1>1, <1>5, <1>7, <2>3, <2>4 DEF Fifo
  <2> QED
    BY <1>1, <1>3, <1>4, <2>4, <2>5 DEF Fresh, Effect, Open
<1> QED
  BY <1>6, <1>7

(* The reader has seen that done is closed.                                *)
LEMMA ReaderStopsStep ==
    ASSUME PortInv, done, reader # "stopped", reader' = "stopped",
           UNCHANGED <<deviceVars, alive, tmp, line, held, frames, hostVars>>
    PROVE  PortInv' /\ Effect
<1> USE DEF PortInv
<1>1. /\ sent' = sent /\ junk' = junk /\ wire' = wire /\ alive' = alive
      /\ tmp' = tmp /\ line' = line
      /\ held' = held /\ frames' = frames /\ done' = done /\ taken' = taken /\ host' = host
      /\ got' = got /\ buffered' = buffered /\ recvs' = recvs
  BY DEF deviceVars, hostVars
<1>2. Types'
  BY <1>1 DEF Types
<1>3. Top' = taken + Len(frames) /\ Top' <= Top /\ Top \in Nat /\ Len(frames) \in Nat
  BY <1>1, TopOf, BytesOf DEF Top
<1>4. Top' <= sent'
  BY <1>1, <1>3 DEF Fifo, Types
<1>5. Fifo'
  BY <1>1, <1>4 DEF Fifo
<1> QED
  BY <1>1, <1>2, <1>3, <1>5 DEF Fresh, Effect, Open

(* The reader moves on with the same bytes.                                *)
LEMMA ReaderMovesStep ==
    ASSUME PortInv, reader \notin {"stopped", "push"}, reader' \in {"top", "read", "scan"},
           UNCHANGED <<sent, junk, alive, frames, held, hostVars>>,
           Bytes' = Bytes, line' \in Seq(Byte), tmp' \in Seq(Byte), wire' \in Seq(Byte),
           Len(tmp') <= ChunkCap, Len(wire') <= WireCap,
           \A i \in 1..Len(line') : line'[i].part # 0,
           reader' \in {"top", "read"} => tmp' = <<>>
    PROVE  PortInv' /\ Effect
<1> USE DEF PortInv
<1>1. /\ sent' = sent /\ junk' = junk /\ alive' = alive
      /\ held' = held /\ frames' = frames /\ done' = done /\ taken' = taken /\ host' = host
      /\ got' = got /\ buffered' = buffered /\ recvs' = recvs
  BY DEF hostVars
<1>2. Types'
  BY <1>1 DEF Types
<1>3. Lo' = Lo
  BY <1>1 DEF Lo
<1>4. /\ Top' = Top /\ Top' <= sent' /\ Stream(Bytes', Lo')
      /\ alive' => WholeLines(Bytes') /\ Top' = sent'
  BY <1>1, <1>3, SameBytes
<1>5. Fifo'
  BY <1>1, <1>4 DEF Fifo
<1> QED
  BY <1>1, <1>2, <1>4, <1>5 DEF Fresh, Effect, Open

(* A sequence is its head and its tail, and any two parts it is cut into.  *)
LEMMA CutAnywhere ==
    \A p, q \in Seq(Byte) : \A n \in 0..Len(q) : \E l, r \in Seq(Byte) :
       /\ l = SubSeq(q, 1, n) /\ r = SubSeq(q, n + 1, Len(q))
       /\ Len(l) = n /\ Len(r) = Len(q) - n
       /\ (p \o l) \o r = p \o q
<1> TAKE p, q \in Seq(Byte)
<1> TAKE n \in 0..Len(q)
<1> DEFINE l == SubSeq(q, 1, n)
           r == SubSeq(q, n + 1, Len(q))
<1>1. /\ l \in Seq(Byte) /\ r \in Seq(Byte) /\ Len(l) = n /\ Len(r) = Len(q) - n
      /\ \A i \in 1..n : l[i] = q[i]
      /\ \A i \in 1..(Len(q) - n) : r[i] = q[n + i]
  OBVIOUS
<1>2. l \o r = q
  <2>1. Len(q) \in Nat /\ 1 \in 1..(Len(q) + 1) /\ n \in 0..Len(q) /\ Len(q) \in n..Len(q)
        /\ 1 - 1 = 0
    OBVIOUS
  <2>2. l \o r = SubSeq(q, 1, Len(q))
    BY <2>1, ConcatAdjacentSubSeq
  <2>3. SubSeq(q, 1, Len(q)) = q
    OBVIOUS
  <2> QED
    BY <2>2, <2>3
<1> HIDE DEF l, r
<1>3. p \in Seq(Byte) /\ l \in Seq(Byte) /\ r \in Seq(Byte)
  BY <1>1
<1>4. (p \o l) \o r = p \o (l \o r)
  <2>1. \A s, t, u \in Seq(Byte) : (s \o t) \o u = s \o (t \o u)
    BY ConcatAssociative, SMTT(30)
  <2> QED
    BY <1>3, <2>1, Zenon
<1>5. (p \o l) \o r = p \o q
  BY <1>2, <1>4, Zenon
<1>6. l = SubSeq(q, 1, n) /\ r = SubSeq(q, n + 1, Len(q))
  BY Zenon DEF l, r
<1>7. Len(l) = n /\ Len(r) = Len(q) - n
  BY <1>1
<1> QED
  BY <1>3, <1>5, <1>6, <1>7, Zenon

(* Moving the first byte of q to the end of p leaves their concatenation as*)
(* it is.                                                                  *)
LEMMA MoveByte ==
    ASSUME NEW S, NEW p \in Seq(S), NEW q \in Seq(S), q # <<>>
    PROVE  Append(p, Head(q)) \o Tail(q) = p \o q
OBVIOUS

(* The reader's own steps.  None of them puts or takes a frame but the drop*)
(* of an unfinished line, which is a cut after unplugging or Close.        *)
LEMMA ReaderTopStep == ASSUME PortInv, ReaderTop PROVE PortInv' /\ Effect
<1>1. /\ reader = "top" /\ reader' = (IF done THEN "stopped" ELSE "read")
      /\ UNCHANGED <<deviceVars, alive, tmp, line, held, frames, hostVars>>
  BY DEF ReaderTop
<1>2. CASE done
  BY <1>1, <1>2, ReaderStopsStep
<1>3. CASE ~done
  <2>1. /\ reader' = "read" /\ tmp' = tmp /\ line' = line /\ wire' = wire /\ held' = held
        /\ UNCHANGED <<sent, junk, alive, frames, held, hostVars>>
    BY <1>1, <1>3 DEF deviceVars
  <2>2. /\ line \in Seq(Byte) /\ tmp \in Seq(Byte) /\ wire \in Seq(Byte)
        /\ Len(tmp) <= ChunkCap /\ Len(wire) <= WireCap /\ tmp = <<>>
        /\ \A i \in 1..Len(line) : line[i].part # 0
    BY <1>1 DEF PortInv, Types, Fifo
  <2>3. Bytes' = Bytes
    BY <2>1 DEF Bytes
  <2> QED
    BY <1>1, <2>1, <2>2, <2>3, ReaderMovesStep
<1> QED
  BY <1>2, <1>3

(* A failed read: retried, or the reader stops and its unfinished line is gone.*)
LEMMA ReaderErrorStep == ASSUME PortInv, ReaderError PROVE PortInv' /\ Effect
<1>1. /\ reader = "read" /\ reader' = (IF done THEN "stopped" ELSE "top")
      /\ UNCHANGED <<deviceVars, alive, tmp, line, held, frames, hostVars>>
  BY DEF ReaderError
<1>2. CASE done
  BY <1>1, <1>2, ReaderStopsStep
<1>3. CASE ~done
  <2>1. /\ reader' = "top" /\ tmp' = tmp /\ line' = line /\ wire' = wire /\ held' = held
        /\ UNCHANGED <<sent, junk, alive, frames, held, hostVars>>
    BY <1>1, <1>3 DEF deviceVars
  <2>2. /\ line \in Seq(Byte) /\ tmp \in Seq(Byte) /\ wire \in Seq(Byte)
        /\ Len(tmp) <= ChunkCap /\ Len(wire) <= WireCap /\ tmp = <<>>
        /\ \A i \in 1..Len(line) : line[i].part # 0
    BY <1>1 DEF PortInv, Types, Fifo
  <2>3. Bytes' = Bytes
    BY <2>1 DEF Bytes
  <2> QED
    BY <1>1, <2>1, <2>2, <2>3, ReaderMovesStep
<1> QED
  BY <1>2, <1>3

(* The chunk is used up.                                                   *)
LEMMA ReaderChunkDoneStep == ASSUME PortInv, ReaderChunkDone PROVE PortInv' /\ Effect
<1>1. /\ reader = "scan" /\ reader' = "top" /\ tmp' = tmp /\ line' = line /\ wire' = wire
      /\ tmp = <<>> /\ UNCHANGED <<sent, junk, alive, frames, held, hostVars>>
  BY DEF ReaderChunkDone, deviceVars
<1>2. /\ line \in Seq(Byte) /\ tmp \in Seq(Byte) /\ wire \in Seq(Byte)
      /\ Len(tmp) <= ChunkCap /\ Len(wire) <= WireCap
      /\ \A i \in 1..Len(line) : line[i].part # 0
  BY DEF PortInv, Types, Fifo
<1>3. Bytes' = Bytes
  BY <1>1 DEF Bytes
<1> QED
  BY <1>1, <1>2, <1>3, ReaderMovesStep

(* Bytes go from the wire to the chunk.                                    *)
LEMMA ReaderReadStep == ASSUME PortInv, ReaderRead PROVE PortInv' /\ Effect
<1>1. PICK n \in 0..ChunkCap :
         /\ n <= Len(wire)
         /\ tmp' = SubSeq(wire, 1, n)
         /\ wire' = SubSeq(wire, n + 1, Len(wire))
  BY DEF ReaderRead
<1>2. /\ reader = "read" /\ reader' = "scan" /\ line' = line
      /\ UNCHANGED <<sent, junk, alive, frames, held, hostVars>>
  BY DEF ReaderRead
<1>3. /\ line \in Seq(Byte) /\ wire \in Seq(Byte) /\ Len(wire) \in Nat
      /\ Len(wire) <= WireCap /\ tmp = <<>>
      /\ \A i \in 1..Len(line) : line[i].part # 0
  BY <1>2, BytesOf DEF PortInv, Types, Fifo
<1>4. n \in 0..Len(wire)
  BY <1>1, <1>3
<1>5. /\ tmp' \in Seq(Byte) /\ wire' \in Seq(Byte)
      /\ Len(tmp') = n /\ Len(wire') = Len(wire) - n
      /\ (line \o tmp') \o wire' = line \o wire
  <2>1. PICK l, r \in Seq(Byte) :
           /\ l = SubSeq(wire, 1, n) /\ r = SubSeq(wire, n + 1, Len(wire))
           /\ Len(l) = n /\ Len(r) = Len(wire) - n
           /\ (line \o l) \o r = line \o wire
    <3>1. line \in Seq(Byte) /\ wire \in Seq(Byte) /\ n \in 0..Len(wire)
      BY <1>3, <1>4
    <3> QED
      BY CutAnywhere, <3>1, Zenon
  <2>2. tmp' = l /\ wire' = r
    BY <1>1, <2>1
  <2> QED
    BY <2>1, <2>2
<1>6. Len(tmp') <= ChunkCap /\ Len(wire') <= WireCap
  BY <1>1, <1>3, <1>5, PortAssumption
<1>7. Bytes' = Bytes
  <2>1. line \o <<>> = line
    BY <1>3, ConcatEmptySeq
  <2> QED
    BY <1>2, <1>3, <1>5, <2>1 DEF Bytes
<1> QED
  BY <1>2, <1>3, <1>5, <1>6, <1>7, ReaderMovesStep

(* A byte goes from the chunk to the line.                                 *)
LEMMA ReaderByteStep == ASSUME PortInv, ReaderByte PROVE PortInv' /\ Effect
<1>1. /\ reader = "scan" /\ tmp # <<>> /\ Head(tmp) # CR /\ line' = Append(line, Head(tmp))
      /\ tmp' = Tail(tmp) /\ wire' = wire /\ reader' = reader
      /\ UNCHANGED <<sent, junk, alive, frames, held, hostVars>>
  BY DEF ReaderByte, deviceVars
<1>2. /\ line \in Seq(Byte) /\ tmp \in Seq(Byte) /\ wire \in Seq(Byte)
      /\ Len(tmp) <= ChunkCap /\ Len(wire) <= WireCap
      /\ Len(line) \in Nat /\ Len(tmp) \in Nat /\ Len(wire) \in Nat
      /\ \A i \in 1..Len(line) : line[i].part # 0
  BY BytesOf DEF PortInv, Types, Fifo
<1>3. /\ Head(tmp) \in Byte /\ Head(tmp) = tmp[1] /\ tmp' \in Seq(Byte)
      /\ Len(tmp') = Len(tmp) - 1 /\ line' \in Seq(Byte) /\ Len(line') = Len(line) + 1
      /\ \A i \in 1..(Len(line) + 1) : line'[i] = IF i <= Len(line) THEN line[i] ELSE Head(tmp)
      /\ line' \o tmp' \o wire = line \o tmp \o wire
  <2>1. line \in Seq(Byte) /\ tmp \in Seq(Byte) /\ wire \in Seq(Byte) /\ tmp # <<>>
    BY <1>1, <1>2
  <2>2. line' = Append(line, Head(tmp)) /\ tmp' = Tail(tmp)
    BY <1>1
  <2>3. /\ Head(tmp) \in Byte /\ Head(tmp) = tmp[1] /\ tmp' \in Seq(Byte)
        /\ Len(tmp') = Len(tmp) - 1 /\ line' \in Seq(Byte) /\ Len(line') = Len(line) + 1
        /\ \A i \in 1..Len(line) : line'[i] = line[i]
        /\ line'[Len(line) + 1] = Head(tmp)
        /\ line' \o tmp' \o wire = line \o tmp \o wire
    <3> DEFINE h == Head(tmp)
    <3>1. /\ h \in Byte /\ h = tmp[1] /\ tmp' \in Seq(Byte) /\ Len(tmp') = Len(tmp) - 1
          /\ line' = Append(line, h)
      BY <2>1, <2>2, HeadTailProperties
    <3>2. line' \o tmp' = line \o tmp
      BY <2>1, <2>2, MoveByte
    <3> HIDE DEF h
    <3>3. /\ line' \in Seq(Byte) /\ Len(line') = Len(line) + 1
          /\ (\A i \in 1..Len(line) : line'[i] = line[i]) /\ line'[Len(line) + 1] = h
      BY <2>1, <3>1, AppendProperties
    <3>4. line' \o tmp' \o wire = line \o tmp \o wire
      BY <3>2, Zenon
    <3> QED
      BY <3>1, <3>3, <3>4 DEF h
  <2>4. ASSUME NEW i \in 1..(Len(line) + 1)
        PROVE  line'[i] = IF i <= Len(line) THEN line[i] ELSE Head(tmp)
    <3>1. Len(line) \in Nat
      BY <1>2
    <3>2. i \in 1..Len(line) \/ i = Len(line) + 1
      BY <3>1
    <3> QED
      BY <2>3, <3>1, <3>2
  <2> QED
    BY <2>3, <2>4
<1>4. Bytes' = Bytes
  BY <1>1, <1>3 DEF Bytes
<1>5. Head(tmp).part # 0
  <2>1. 1 \in 1..Len(tmp) /\ Len(line) + 1 \in 1..Len(Bytes) /\ Bytes[Len(line) + 1] = Head(tmp)
    <3>1. Len(tmp) > 0
      BY <1>1, <1>2
    <3> QED
      BY <3>1, <1>2, <1>3, BytesOf DEF PortInv
  <2>2. Ordered(Bytes, Len(line) + 1)
    BY <1>1, <2>1 DEF PortInv, Fifo, Stream
  <2> QED
    BY <1>1, <2>1, <2>2 DEF Ordered
<1>6. \A i \in 1..Len(line') : line'[i].part # 0
  BY <1>2, <1>3, <1>5
<1>7. Len(tmp') <= ChunkCap
  BY <1>2, <1>3, PortAssumption
<1> QED
  BY <1>1, <1>2, <1>3, <1>4, <1>6, <1>7, ReaderMovesStep

(* After Close the frame the reader holds is dropped.                      *)
LEMMA ReaderAbandonStep == ASSUME PortInv, ReaderAbandon PROVE PortInv' /\ Effect
BY ReaderStopsStep DEF ReaderAbandon

(* The frame the reader holds goes into the channel.                       *)
LEMMA ReaderPushStep == ASSUME PortInv, ReaderPush PROVE PortInv' /\ Effect
<1> USE DEF PortInv
<1>1. /\ reader = "push" /\ Len(frames) < ChanCap /\ frames' = Append(frames, held)
      /\ reader' = "scan" /\ held' = 0
      /\ sent' = sent /\ junk' = junk /\ alive' = alive /\ wire' = wire
      /\ tmp' = tmp /\ line' = line /\ done' = done /\ taken' = taken /\ host' = host
      /\ got' = got /\ buffered' = buffered /\ recvs' = recvs
  BY DEF ReaderPush, deviceVars, hostVars
<1>2. /\ frames \in Seq(Nat) /\ held \in Nat /\ Len(frames) \in Nat /\ taken \in Nat
      /\ held = Lo /\ Lo = taken + Len(frames) + 1 /\ sent \in Nat
  BY <1>1, BytesOf DEF Types, Fifo, Lo
<1>3. /\ frames' \in Seq(Nat) /\ Len(frames') = Len(frames) + 1
      /\ \A i \in 1..(Len(frames) + 1) : frames'[i] = IF i <= Len(frames) THEN frames[i] ELSE held
  BY <1>1, <1>2
<1>4. Types'
  <2>1. Len(frames') <= ChanCap
    BY <1>1, <1>2, <1>3, PortAssumption
  <2> QED
    BY <1>1, <1>3, <2>1 DEF Types
<1>5. Bytes' = Bytes /\ Lo' = Lo
  BY <1>1, <1>2, <1>3 DEF Bytes, Lo
<1>6. /\ Top' = Top /\ Top' <= sent' /\ Stream(Bytes', Lo')
      /\ alive' => WholeLines(Bytes') /\ Top' = sent'
  BY <1>1, <1>5, SameBytes
<1>7. \A i \in 1..Len(frames') : frames'[i] = taken' + i
  <2>1. \A i \in 1..Len(frames) : frames[i] = taken + i
    BY DEF Fifo
  <2>2. taken' = taken /\ held = taken + (Len(frames) + 1)
    BY <1>1, <1>2
  <2>3. ASSUME NEW i \in 1..(Len(frames) + 1) PROVE frames'[i] = taken + i
    <3>1. CASE i <= Len(frames)
      <4>1. i \in 1..Len(frames) /\ frames'[i] = frames[i]
        BY <1>2, <1>3, <3>1
      <4> QED
        BY <2>1, <4>1
    <3>2. CASE ~(i <= Len(frames))
      <4>1. i = Len(frames) + 1 /\ frames'[i] = held
        BY <1>2, <1>3, <3>2
      <4> QED
        BY <2>2, <4>1
    <3> QED
      BY <3>1, <3>2
  <2> QED
    BY <1>3, <2>2, <2>3
<1>8. Fifo'
  <2>1. held' <= sent'
    BY <1>1, <1>2
  <2>2. \A i \in 1..Len(line') : line'[i].part # 0
    BY <1>1 DEF Fifo
  <2> QED
    BY <1>1, <1>6, <1>7, <2>1, <2>2 DEF Fifo
<1>9. Fresh'
  <2>1. buffered \in Nat
    BY DEF Types
  <2> QED
    BY <1>1, <1>2, <1>3, <2>1 DEF Fresh
<1> QED
  BY <1>1, <1>4, <1>6, <1>8, <1>9 DEF Effect, Open

(* A line is parsed: into a frame the reader holds, or into nothing.       *)
LEMMA ReaderLineStep == ASSUME PortInv, ReaderLine PROVE PortInv' /\ Effect
<1> USE DEF PortInv
<1>1. /\ reader = "scan" /\ tmp # <<>> /\ Head(tmp) = CR /\ line' = <<>> /\ tmp' = Tail(tmp)
      /\ IF Parses(line)
         THEN reader' = "push" /\ held' = line[1].frame
         ELSE reader' = reader /\ held' = held
      /\ sent' = sent /\ junk' = junk /\ alive' = alive /\ wire' = wire /\ frames' = frames
      /\ done' = done /\ taken' = taken /\ host' = host
      /\ got' = got /\ buffered' = buffered /\ recvs' = recvs
  BY DEF ReaderLine, deviceVars, hostVars
<1> DEFINE b == Bytes
           w == Len(line) + 1
<1>2. /\ line \in Seq(Byte) /\ tmp \in Seq(Byte) /\ wire \in Seq(Byte)
      /\ Len(tmp) <= ChunkCap /\ taken \in Nat /\ sent \in Nat /\ held \in Nat
      /\ Len(line) \in Nat /\ Len(tmp) \in Nat /\ Len(wire) \in Nat /\ Len(frames) \in Nat
      /\ \A i \in 1..Len(line) : line[i].part # 0
  BY BytesOf DEF Types, Fifo
<1>3. tmp' \in Seq(Byte) /\ Len(tmp') = Len(tmp) - 1 /\ Len(tmp) > 0 /\ tmp[1] = CR
      /\ \A i \in 1..(Len(tmp) - 1) : tmp'[i] = tmp[i + 1]
  BY <1>1, <1>2
<1>4. /\ b \in Seq(Byte) /\ Len(b) = Len(line) + Len(tmp) + Len(wire)
      /\ \A i \in 1..Len(line) : b[i] = line[i]
      /\ \A i \in 1..Len(tmp) : b[Len(line) + i] = tmp[i]
      /\ \A i \in 1..Len(wire) : b[Len(line) + Len(tmp) + i] = wire[i]
  BY BytesOf
<1>5. Lo \in Nat /\ Lo = taken + Len(frames) /\ Stream(b, Lo) /\ Top = Lo + Count(b)
      /\ Count(b) \in Nat /\ Top <= sent /\ (alive => WholeLines(b) /\ Top = sent)
  BY <1>1, <1>2, TopOf DEF Lo, Fifo
<1>6. Bytes' \in Seq(Byte) /\ Len(Bytes') = Len(b) - w
      /\ \A i \in 1..Len(Bytes') : Bytes'[i] = b[i + w]
  <2>1. Bytes' = tmp' \o wire
    <3>1. <<>> \o tmp' = tmp'
      BY <1>3, ConcatEmptySeq
    <3> QED
      BY <1>1, <3>1 DEF Bytes
  <2>2. /\ Bytes' \in Seq(Byte) /\ Len(Bytes') = (Len(tmp) - 1) + Len(wire)
        /\ \A i \in 1..(Len(tmp) - 1) : Bytes'[i] = tmp'[i]
        /\ \A i \in 1..Len(wire) : Bytes'[(Len(tmp) - 1) + i] = wire[i]
    <3> DEFINE t == tmp'
    <3>1. t \in Seq(Byte) /\ wire \in Seq(Byte)
      BY <1>2, <1>3
    <3> HIDE DEF t
    <3>2. /\ t \o wire \in Seq(Byte) /\ Len(t \o wire) = Len(t) + Len(wire)
          /\ \A i \in 1..Len(t) : (t \o wire)[i] = t[i]
          /\ \A i \in 1..Len(wire) : (t \o wire)[Len(t) + i] = wire[i]
      BY <3>1, ConcatAt
    <3> QED
      BY <1>3, <2>1, <3>2 DEF t
  <2>3. ASSUME NEW i \in 1..Len(Bytes')
        PROVE  Bytes'[i] = b[i + w]
    <3>1. CASE i \in 1..(Len(tmp) - 1)
      <4>1. i + 1 \in 1..Len(tmp) /\ Len(line) + (i + 1) = i + w
        BY <1>2, <3>1
      <4>2. b[i + w] = tmp[i + 1]
        BY <1>4, <4>1
      <4> QED
        BY <1>3, <2>2, <3>1, <4>2
    <3>2. CASE i \notin 1..(Len(tmp) - 1)
      <4> DEFINE j == i - (Len(tmp) - 1)
      <4>1. j \in 1..Len(wire) /\ (Len(tmp) - 1) + j = i /\ Len(line) + Len(tmp) + j = i + w
        BY <1>2, <1>3, <2>2, <3>2
      <4>2. Bytes'[i] = wire[j] /\ b[i + w] = wire[j]
        BY <1>4, <2>2, <4>1
      <4> QED
        BY <4>2
    <3> QED
      BY <3>1, <3>2
  <2> QED
    BY <1>2, <1>4, <2>2, <2>3
<1>7. w \in 1..Len(b) /\ w <= Len(b) /\ b[w] = CR /\ \A i \in 1..(w - 1) : b[i] # CR
  <2>1. 1 \in 1..Len(tmp) /\ w \in 1..Len(b)
    BY <1>2, <1>3, <1>4
  <2>2. b[w] = CR
    BY <1>3, <1>4, <2>1
  <2>3. \A i \in 1..Len(line) : b[i] # CR
    BY <1>2, <1>4, CRFields
  <2> QED
    BY <1>2, <2>1, <2>2, <2>3
<1>8. w = 2 \/ (w = 3 /\ b[1] = Part(b[2].frame, 1) /\ b[2].part = 2)
  BY <1>5, <1>7, FirstLine
<1>9. w \in {2, 3} /\ (w = 3 => b[2].part = 2)
  BY <1>8
<1>w. w \in Nat /\ Len(line) = w - 1
  BY <1>2
<1>10. /\ Stream(Bytes', Lo + w - 2) /\ Count(Bytes') \in Nat
       /\ Count(b) = Count(Bytes') + w - 2
       /\ w = 3 => b[2].frame = Lo + 1
  <2> DEFINE lo == Lo
             c == Bytes'
  <2>1. /\ lo \in Nat /\ Stream(b, lo) /\ w \in {2, 3} /\ w <= Len(b) /\ b[w] = CR
        /\ (w = 3 => b[2].part = 2) /\ Rest(b, w, c)
    BY <1>5, <1>6, <1>7, <1>9 DEF Rest
  <2> HIDE DEF b, w, lo, c
  <2>2. /\ Stream(c, lo + w - 2) /\ Count(c) \in Nat
        /\ Count(b) = Count(c) + w - 2
        /\ w = 3 => b[2].frame = lo + 1
    BY <2>1, DropRest
  <2> QED
    BY <2>2 DEF lo, c
<1>13. Parses(line) <=> w = 3
  <2>1. w = 2 => ~Parses(line)
    BY <1>2 DEF Parses
  <2>2. w = 3 => Parses(line)
    <3> SUFFICES ASSUME w = 3
                 PROVE  Parses(line)
      OBVIOUS
    <3>1. Len(line) = 2
      BY <1>w
    <3>2. line[1] = b[1] /\ line[2] = b[2] /\ b[2].frame \in Nat
      BY <1>4, <1>5, <1>10, <3>1
    <3>3. b[1].frame = b[2].frame /\ b[1].part = 1 /\ b[2].part = 2
      BY <3>2, <1>8, PartFields
    <3> QED
      BY <3>1, <3>2, <3>3 DEF Parses
  <2> QED
    BY <1>9, <2>1, <2>2
<1>14. Lo' = Lo + w - 2 /\ reader' # "stopped" /\ (reader' = "push" <=> w = 3)
       /\ reader' \in {"push", "scan"}
  BY <1>1, <1>5, <1>9, <1>13 DEF Lo
<1>15. w = 3 => held' = Lo + 1
  <2> SUFFICES ASSUME w = 3
               PROVE  held' = Lo + 1
    OBVIOUS
  <2>0. Len(line) = 2
    BY <1>w
  <2>1. held' = line[1].frame /\ Len(line) = 2
    BY <1>1, <1>13, <2>0
  <2>2. line[1].frame = line[2].frame /\ line[2] = b[2]
    BY <2>1, <1>2, <1>4, <1>13 DEF Parses
  <2> QED
    BY <2>1, <2>2, <1>10
<1>16. Top' = Top
  <2>1. Top' = Lo' + Count(Bytes')
    BY <1>14 DEF Top
  <2> QED
    BY <2>1, <1>5, <1>9, <1>10, <1>14
<1>17. alive => WholeLines(Bytes')
  <2> SUFFICES ASSUME alive, Bytes' # <<>>
               PROVE  Bytes'[Len(Bytes')] = CR
    BY DEF WholeLines
  <2>1. Len(Bytes') > 0 /\ Len(Bytes') \in Nat
    BY <1>6
  <2>2. Len(Bytes') \in 1..Len(Bytes') /\ Len(Bytes') + w = Len(b)
    BY <2>1, <1>2, <1>4, <1>6
  <2>3. b[Len(b)] = CR
    BY <1>5, <1>7 DEF WholeLines
  <2> QED
    BY <1>6, <2>2, <2>3
<1>18. Types'
  <2>1. held' \in Nat
    BY SMTT(30), <1>1, <1>2, <1>9, <1>13, <1>15, <1>5
  <2>2. Len(tmp') <= ChunkCap /\ line' \in Seq(Byte)
    BY <1>1, <1>2, <1>3, PortAssumption
  <2> QED
    BY <1>1, <1>3, <1>14, <2>1, <2>2 DEF Types
<1>19. Fifo'
  <2>1. held' <= sent'
    <3>1. CASE w = 3
      BY SMTT(60), <3>1, <1>1, <1>2, <1>5, <1>10, <1>15
    <3>2. CASE w = 2
      BY <3>2, <1>1, <1>13 DEF Fifo
    <3> QED
      BY <1>9, <3>1, <3>2
  <2>2. reader' = "push" => held' = Lo' /\ line' = <<>>
    BY <1>1, <1>5, <1>14, <1>15
  <2>3. Len(line') = 0
    BY <1>1
  <2>4. Stream(Bytes', Lo')
    BY <1>10, <1>14
  <2>5. \A i \in 1..Len(frames') : frames'[i] = taken' + i
    BY <1>1 DEF Fifo
  <2> QED
    BY <1>1, <1>5, <1>14, <1>16, <1>17, <2>1, <2>2, <2>3, <2>4, <2>5 DEF Fifo
<1> QED
  BY <1>1, <1>16, <1>18, <1>19 DEF Fresh, Effect, Open

(* The caller's steps that take no frame.                                  *)
LEMMA HostQuietStep ==
    ASSUME PortInv, UNCHANGED <<deviceVars, alive, readerVars, frames, taken>>,
           host' \in {"idle", "recv", "flush", "drain", "closing", "closed"},
           recvs' \in 0..MaxRecvs, done' \in BOOLEAN, done => done',
           got' \in {0, got}, buffered' \in Nat,
           buffered' = buffered \/ (got' = 0 /\ buffered' <= taken + Len(frames)),
           host' # "flush" => buffered' <= taken
    PROVE  PortInv' /\ Effect
<1> USE DEF PortInv
<1>1. /\ sent' = sent /\ junk' = junk /\ wire' = wire /\ alive' = alive
      /\ reader' = reader /\ tmp' = tmp /\ line' = line
      /\ held' = held /\ frames' = frames /\ taken' = taken
  BY DEF deviceVars, readerVars
<1>2. Types'
  <2>1. got' \in Nat
    BY DEF Types
  <2> QED
    BY <1>1, <2>1 DEF Types
<1>3. Bytes' = Bytes /\ Lo' = Lo
  BY <1>1 DEF Bytes, Lo
<1>4. Top' = Top
  BY <1>1, <1>3 DEF Top
<1>5. Fifo'
  BY <1>1, <1>3, <1>4 DEF Fifo
<1>6. Fresh'
  <2>1. taken \in Nat /\ got \in Nat
    BY DEF Types
  <2> QED
    BY <1>1, <2>1 DEF Fresh
<1>7. Open' = Open \/ Open' = FALSE
  BY <1>1 DEF Open
<1>8. Top' <= Top
  BY <1>4, TopOf
<1> QED
  BY <1>1, <1>2, <1>4, <1>5, <1>6, <1>7, <1>8 DEF Effect

(* The caller's steps that take one.                                       *)
LEMMA TakeStep ==
    ASSUME PortInv, TakeFrame, UNCHANGED <<deviceVars, alive, readerVars, done, buffered, recvs>>,
           \/ host = "recv" /\ got' = taken' /\ host' = "idle"
           \/ host \in {"flush", "drain"} /\ UNCHANGED <<host, got>>
    PROVE  PortInv' /\ Effect
<1> USE DEF PortInv
<1>1. /\ sent' = sent /\ junk' = junk /\ wire' = wire /\ alive' = alive
      /\ reader' = reader /\ tmp' = tmp /\ line' = line
      /\ held' = held /\ done' = done /\ buffered' = buffered /\ recvs' = recvs
      /\ frames # <<>> /\ taken' = Head(frames) /\ frames' = Tail(frames)
  BY DEF deviceVars, readerVars, TakeFrame
<1>2. /\ frames \in Seq(Nat) /\ Len(frames) \in Nat /\ taken \in Nat /\ Len(frames) <= ChanCap
      /\ \A i \in 1..Len(frames) : frames[i] = taken + i
  BY BytesOf DEF Types, Fifo
<1>3. /\ frames' \in Seq(Nat) /\ Len(frames') = Len(frames) - 1 /\ Len(frames) > 0
      /\ Head(frames) = frames[1]
      /\ \A i \in 1..(Len(frames) - 1) : frames'[i] = frames[i + 1]
  BY <1>1, <1>2, HeadTailProperties, EmptySeq
<1>4. taken' = taken + 1
  BY <1>1, <1>2, <1>3
<1>5. \A i \in 1..Len(frames') : frames'[i] = taken' + i
  <2> SUFFICES ASSUME NEW i \in 1..Len(frames')
               PROVE  frames'[i] = taken' + i
    OBVIOUS
  <2>1. i \in 1..(Len(frames) - 1) /\ i + 1 \in 1..Len(frames)
    BY <1>2, <1>3
  <2>2. frames'[i] = taken + (i + 1)
    BY <1>2, <1>3, <2>1
  <2> QED
    BY <1>2, <1>4, <2>1, <2>2
<1>6. Types'
  <2>1. Len(frames') <= ChanCap
    <3>1. ChanCap \in Nat
      BY PortAssumption
    <3> QED
      BY <1>2, <1>3, <3>1
  <2>2. host' \in {"idle", "recv", "flush", "drain", "closing", "closed"}
    BY DEF Types
  <2>3. taken' \in Nat
    BY <1>2, <1>4
  <2>4. got' \in Nat
    BY <2>3 DEF Types
  <2>5. /\ wire' \in Seq(Byte) /\ Len(wire') <= WireCap
        /\ tmp' \in Seq(Byte) /\ Len(tmp') <= ChunkCap /\ line' \in Seq(Byte)
    BY <1>1 DEF Types
  <2>6. /\ sent' \in 0..MaxFrames /\ junk' \in 0..MaxJunk
        /\ alive' \in BOOLEAN /\ done' \in BOOLEAN
        /\ reader' \in {"top", "read", "scan", "push", "stopped"}
        /\ held' \in Nat /\ buffered' \in Nat /\ recvs' \in 0..MaxRecvs
    BY <1>1 DEF Types
  <2>7. frames' \in Seq(Nat)
    BY <1>3
  <2> HIDE DEF PortInv
  <2> QED
    BY <2>1, <2>2, <2>3, <2>4, <2>5, <2>6, <2>7 DEF Types
<1>7. Bytes' = Bytes /\ Lo' = Lo
  <2>1. taken' + Len(frames') = taken + Len(frames)
    BY <1>2, <1>3, <1>4
  <2>2. Bytes' = Bytes
    BY <1>1 DEF Bytes
  <2> HIDE DEF PortInv
  <2>3. Lo' = Lo
    BY <1>1, <2>1 DEF Lo
  <2> QED
    BY <2>2, <2>3
<1>8. Top' = Top /\ taken < Top
  <2>1. taken' + Len(frames') = taken + Len(frames)
    BY <1>2, <1>3, <1>4
  <2>2. Top' = Top
    BY <1>1, <1>7, <2>1 DEF Top
  <2>3. taken + Len(frames) <= Top /\ Top \in Nat
    BY TopOf
  <2> QED
    BY <1>2, <1>3, <2>2, <2>3
<1>9. Fifo'
  BY <1>1, <1>5, <1>7, <1>8 DEF Fifo
<1>10. Fresh'
  <2>1. got \in Nat /\ buffered \in Nat
    BY DEF Types
  <2> QED
    BY <1>1, <1>2, <1>3, <1>4, <2>1 DEF Fresh
<1>11. Open' = Open
  BY <1>1 DEF Open
<1> QED
  BY <1>1, <1>4, <1>6, <1>8, <1>9, <1>10, <1>11 DEF Effect

(* The caller's steps that begin or end a call move no frame.              *)
LEMMA StartStep ==
    ASSUME PortInv, StartRecv \/ StartDrain \/ StartFlush
    PROVE  PortInv' /\ Effect
<1>1. /\ host = "idle" /\ recvs < MaxRecvs /\ recvs' = recvs + 1 /\ got' = 0 /\ done' = done
      /\ UNCHANGED <<deviceVars, alive, readerVars, frames, taken>>
      /\ host' \in {"idle", "recv", "flush", "drain", "closing", "closed"}
  BY DEF StartRecv, StartDrain, StartFlush, Start
<1>2. /\ recvs' \in 0..MaxRecvs /\ done' \in BOOLEAN /\ got' \in {0, got}
      /\ frames \in Seq(Nat) /\ Len(frames) \in Nat /\ taken \in Nat /\ buffered \in Nat
  BY <1>1, PortAssumption, BytesOf DEF PortInv, Types
<1>3. /\ buffered' \in Nat
      /\ buffered' = buffered \/ (got' = 0 /\ buffered' <= taken + Len(frames))
      /\ host' # "flush" => buffered' <= taken
  <2>1. CASE StartRecv \/ StartDrain
    <3>1. buffered' = buffered /\ buffered <= taken
      BY <1>1, <2>1 DEF StartRecv, StartDrain, PortInv, Fresh
    <3> QED
      BY <1>2, <3>1
  <2>2. CASE StartFlush
    <3>1. host' = "flush" /\ buffered' = IF frames = <<>> THEN taken ELSE frames[Len(frames)]
      BY <2>2 DEF StartFlush, Start
    <3>2. frames # <<>> => Len(frames) \in 1..Len(frames)
      BY <1>2
    <3>3. buffered' \in Nat /\ buffered' <= taken + Len(frames)
      BY <1>2, <3>1, <3>2 DEF PortInv, Fifo
    <3> QED
      BY <1>1, <3>1, <3>3
  <2> QED
    BY <2>1, <2>2
<1>4. done => done'
  BY <1>1
<1> QED
  BY <1>1, <1>2, <1>3, <1>4, HostQuietStep

(* The calls that end without a frame.                                     *)
LEMMA EndStep ==
    ASSUME PortInv, RecvTimeout \/ FlushEnd \/ DrainEnd \/ Close
    PROVE  PortInv' /\ Effect
<1>1. /\ UNCHANGED <<deviceVars, alive, readerVars, frames, taken>>
      /\ host' \in {"idle", "closing"} /\ recvs' = recvs /\ buffered' = buffered
      /\ got' \in {0, got} /\ (done => done') /\ (done' = done \/ done' = TRUE)
  BY DEF RecvTimeout, FlushEnd, DrainEnd, Close
<1>2. recvs' \in 0..MaxRecvs /\ done' \in BOOLEAN /\ buffered' \in Nat /\ taken \in Nat
  BY <1>1 DEF PortInv, Types
<1>3. buffered' <= taken
  <2>1. CASE host # "flush"
    BY <1>1, <2>1 DEF PortInv, Fresh
  <2>2. CASE host = "flush"
    <3>1. FlushEnd
      BY <2>2 DEF RecvTimeout, FlushEnd, DrainEnd, Close
    <3>2. Len(frames) = 0
      BY <3>1 DEF FlushEnd
    <3> QED
      BY <1>1, <1>2, <3>2 DEF PortInv, Fresh
  <2> QED
    BY <2>1, <2>2
<1>4. host' \in {"idle", "recv", "flush", "drain", "closing", "closed"}
  BY <1>1
<1> QED
  BY <1>1, <1>2, <1>3, <1>4, HostQuietStep

(* A stuttering step.                                                      *)
LEMMA StutterStep == ASSUME PortInv, UNCHANGED vars PROVE PortInv' /\ Effect
<1>1. /\ sent' = sent /\ junk' = junk /\ wire' = wire /\ alive' = alive
      /\ reader' = reader /\ tmp' = tmp /\ line' = line /\ held' = held /\ frames' = frames
      /\ taken' = taken /\ host' = host /\ done' = done /\ got' = got
      /\ buffered' = buffered /\ recvs' = recvs
  BY DEF vars, deviceVars, readerVars, hostVars
<1>2. Bytes' = Bytes /\ Lo' = Lo /\ Open' = Open
  BY <1>1 DEF Bytes, Lo, Open
<1>3. Top' = Top
  BY <1>1, <1>2 DEF Top
<1>4. Types' /\ Fifo' /\ Fresh'
  BY <1>1, <1>2, <1>3 DEF PortInv, Types, Fifo, Fresh
<1> QED
  BY <1>1, <1>2, <1>3, <1>4 DEF PortInv, Effect

(* Every step keeps the invariant and has one of the four effects.         *)
LEMMA PortStep == ASSUME PortInv, [Next]_vars PROVE PortInv' /\ Effect
<1>1. CASE DeviceFrame
  BY <1>1, DeviceFrameStep
<1>2. CASE DeviceJunk
  BY <1>2, DeviceJunkStep
<1>3. CASE Unplug
  <2>1. /\ wire' = <<>> /\ alive' = FALSE
        /\ host' = host \/ (host = "closing" /\ host' = "closed")
        /\ UNCHANGED <<sent, junk, readerVars, frames, taken, got, buffered, recvs, done>>
    BY <1>3 DEF Unplug, hostVars
  <2> QED
    BY <2>1, WireLost
<1>4. CASE Reader
  <2>1. CASE ReaderTop
    BY <2>1, ReaderTopStep
  <2>2. CASE ReaderRead
    BY <2>2, ReaderReadStep
  <2>3. CASE ReaderError
    BY <2>3, ReaderErrorStep
  <2>4. CASE ReaderChunkDone
    BY <2>4, ReaderChunkDoneStep
  <2>5. CASE ReaderByte
    BY <2>5, ReaderByteStep
  <2>6. CASE ReaderLine
    BY <2>6, ReaderLineStep
  <2>7. CASE ReaderPush
    BY <2>7, ReaderPushStep
  <2>8. CASE ReaderAbandon
    BY <2>8, ReaderAbandonStep
  <2> QED
    BY <1>4, <2>1, <2>2, <2>3, <2>4, <2>5, <2>6, <2>7, <2>8 DEF Reader
<1>5. CASE StartRecv \/ StartDrain \/ StartFlush
  BY <1>5, StartStep
<1>6. CASE RecvTimeout \/ FlushEnd \/ DrainEnd \/ Close
  BY <1>6, EndStep
<1>7. CASE RecvFrame
  BY <1>7, TakeStep DEF RecvFrame
<1>8. CASE Discard
  <2>1. /\ TakeFrame /\ host \in {"flush", "drain"}
        /\ UNCHANGED <<deviceVars, alive, readerVars, done, buffered, recvs>>
        /\ UNCHANGED <<host, got>>
    BY <1>8 DEF Discard
  <2> QED
    BY <2>1, TakeStep
<1>9. CASE ClosePort
  <2>1. /\ wire' = <<>> /\ alive' = FALSE
        /\ host' = host \/ (host = "closing" /\ host' = "closed")
        /\ UNCHANGED <<sent, junk, readerVars, frames, taken, got, buffered, recvs, done>>
    BY <1>9 DEF ClosePort
  <2> QED
    BY <2>1, WireLost
<1>10. CASE UNCHANGED vars
  BY <1>10, StutterStep
<1> QED
  BY <1>1, <1>2, <1>3, <1>4, <1>5, <1>6, <1>7, <1>8, <1>9, <1>10
     DEF Next, Device, Host, HostFinish

(* The invariant, always.                                                  *)
LEMMA PortInvariant == Spec => []PortInv
<1>1. Init => PortInv
  BY PortInit
<1>2. PortInv /\ [Next]_vars => PortInv'
  BY PortStep
<1> QED
  BY <1>1, <1>2, PTL DEF Spec

-----------------------------------------------------------------------------
(* The theorems.                                                           *)

(* Runs of frames.                                                         *)
LEMMA RunType ==
    ASSUME NEW lo \in Nat, NEW n \in Nat
    PROVE  /\ Run(lo, n) \in Seq(Nat) /\ Len(Run(lo, n)) = n
           /\ \A i \in 1..n : Run(lo, n)[i] = lo + i
BY DEF Run

(* A sequence of consecutive numbers is a run.                             *)
LEMMA IsRun ==
    ASSUME NEW lo \in Nat, NEW s \in Seq(Nat), \A i \in 1..Len(s) : s[i] = lo + i
    PROVE  s = Run(lo, Len(s))
<1>1. Len(s) \in Nat /\ DOMAIN s = 1..Len(s) /\ s = [i \in 1..Len(s) |-> s[i]]
  OBVIOUS
<1> QED
  BY <1>1 DEF Run

(* Two runs one after the other are a run.                                 *)
LEMMA RunConcat ==
    ASSUME NEW lo \in Nat, NEW m \in Nat, NEW n \in Nat
    PROVE  Run(lo, m) \o Run(lo + m, n) = Run(lo, m + n)
<1> DEFINE a == Run(lo, m)
           b == Run(lo + m, n)
<1>1. /\ a \in Seq(Nat) /\ Len(a) = m /\ b \in Seq(Nat) /\ Len(b) = n
      /\ (\A i \in 1..m : a[i] = lo + i) /\ (\A i \in 1..n : b[i] = lo + m + i)
  <2>1. lo + m \in Nat
    OBVIOUS
  <2>2. a \in Seq(Nat) /\ Len(a) = m /\ \A i \in 1..m : a[i] = lo + i
    BY RunType
  <2>3. b \in Seq(Nat) /\ Len(b) = n /\ \A i \in 1..n : b[i] = lo + m + i
    BY <2>1, RunType
  <2> QED
    BY <2>2, <2>3
<1> HIDE DEF a, b
<1>2. a \in Seq(Nat) /\ b \in Seq(Nat)
  BY <1>1
<1>3. /\ a \o b \in Seq(Nat) /\ Len(a \o b) = Len(a) + Len(b)
      /\ \A i \in 1..Len(a) : (a \o b)[i] = a[i]
      /\ \A i \in 1..Len(b) : (a \o b)[Len(a) + i] = b[i]
  BY <1>2, ConcatAt
<1> DEFINE c == a \o b
<1> HIDE DEF c
<1>4. /\ c \in Seq(Nat) /\ Len(c) = m + n
      /\ \A i \in 1..m : c[i] = lo + i
      /\ \A i \in 1..n : c[m + i] = lo + m + i
  BY <1>1, <1>3 DEF c
<1>5. ASSUME NEW i \in 1..Len(c)
      PROVE  c[i] = lo + i
  <2>1. CASE i <= m
    BY <1>4, <2>1
  <2>2. CASE i > m
    <3>1. i - m \in 1..n /\ m + (i - m) = i /\ lo + m + (i - m) = lo + i
      BY <1>4, <2>2
    <3> QED
      BY <1>4, <3>1
  <2> QED
    BY <2>1, <2>2
<1>6. c = Run(lo, Len(c))
  BY <1>4, <1>5, IsRun
<1> QED
  BY <1>4, <1>6 DEF a, b, c

(* The runs of no and of one number.                                       *)
LEMMA RunEnds ==
    ASSUME NEW lo \in Nat
    PROVE  Run(lo, 0) = <<>> /\ Run(lo, 1) = <<lo + 1>>
<1> DEFINE s == <<lo + 1>>
           e == <<>>
<1>1. s \in Seq(Nat) /\ Len(s) = 1 /\ \A i \in 1..Len(s) : s[i] = lo + i
  OBVIOUS
<1>2. e \in Seq(Nat) /\ Len(e) = 0 /\ \A i \in 1..Len(e) : e[i] = lo + i
  OBVIOUS
<1> HIDE DEF s, e
<1>3. s = Run(lo, 1)
  BY <1>1, IsRun
<1>4. e = Run(lo, 0)
  BY <1>2, IsRun
<1> QED
  BY <1>3, <1>4 DEF s, e

(* What is in flight, in the terms of the invariant.                       *)
Flow ==
    InFlight = Run(taken, Top - taken) /\ Top \in Nat /\ taken \in Nat /\ taken <= Top

(* What is in flight is the run of the frames after the last one taken.    *)
LEMMA InFlightIsRun == ASSUME PortInv PROVE Flow
<1> USE DEF Flow
<1> USE DEF PortInv
<1>1. /\ taken \in Nat /\ frames \in Seq(Nat) /\ Len(frames) \in Nat /\ Top \in Nat /\ held \in Nat
      /\ taken + Len(frames) <= Top
      /\ \A i \in 1..Len(frames) : frames[i] = taken + i
  BY BytesOf, TopOf DEF Types, Fifo
<1>2. frames = Run(taken, Len(frames))
  BY <1>1, IsRun
<1>3. CASE reader = "stopped"
  <2>1. InFlight = frames /\ Top - taken = Len(frames)
    BY <1>1, <1>3 DEF InFlight, Top
  <2> QED
    BY <1>1, <1>2, <2>1
<1>4. CASE reader # "stopped"
  <2> DEFINE h == IF reader = "push" THEN <<held>> ELSE <<>>
             k == IF reader = "push" THEN 1 ELSE 0
             n == Count(Bytes)
  <2>1. Lo \in Nat /\ Stream(Bytes, Lo)
    BY <1>4, BytesOf DEF Fifo
  <2>2. n \in Nat /\ Top = Lo + n /\ Pending(Bytes) = Run(Lo, n)
    BY <2>1, <1>4, TopOf, PendingIsRun
  <2>3. Lo = taken + Len(frames) + k /\ k \in Nat
    BY DEF Lo
  <2>4. h = Run(taken + Len(frames), k)
    <3>1. taken + Len(frames) \in Nat
      BY <1>1
    <3>2. CASE reader = "push"
      <4>1. held = (taken + Len(frames)) + 1
        BY <3>2 DEF Fifo, Lo
      <4> QED
        BY <3>1, <3>2, <4>1, RunEnds
    <3>3. CASE reader # "push"
      BY <3>1, <3>3, RunEnds
    <3> QED
      BY <3>2, <3>3
  <2>5. InFlight = frames \o h \o Pending(Bytes)
    BY <1>4 DEF InFlight, Bytes
  <2> HIDE DEF h, k, n
  <2> DEFINE m == Len(frames)
             t == taken
  <2>a. m \in Nat /\ t \in Nat /\ k \in Nat /\ n \in Nat
    BY <1>1, <2>2, <2>3
  <2>6. frames \o h = Run(t, m + k)
    <3>1. frames = Run(t, m) /\ h = Run(t + m, k)
      BY <1>2, <2>4
    <3> HIDE DEF m, t
    <3>2. Run(t, m) \o Run(t + m, k) = Run(t, m + k)
      BY <2>a, RunConcat
    <3> QED
      BY <3>1, <3>2
  <2>7. Run(t, m + k) \o Run(t + (m + k), n) = Run(t, (m + k) + n)
    <3> HIDE DEF m, t
    <3>1. m + k \in Nat
      BY <2>a
    <3> QED
      BY <2>a, <3>1, RunConcat
  <2>8. taken + (Len(frames) + k) = Lo /\ (Len(frames) + k) + n = Top - taken
    BY <1>1, <2>2, <2>3
  <2>9. Run(t, m + k) \o Run(Lo, n) = Run(t, Top - taken)
    <3> HIDE DEF m, t
    <3> QED
      BY <2>7, <2>8 DEF m, t
  <2>10. InFlight = Run(t, m + k) \o Run(Lo, n)
    BY <2>2, <2>5, <2>6
  <2> QED
    BY <1>1, <2>9, <2>10
<1> QED
  BY <1>1, <1>3, <1>4

(* While the port is open, what the caller took and what is on its way to  *)
(* it are all the frames the device sent, each once and in order, whatever *)
(* the sizes of the chunks, the channel and the wire (readLoop, Recv).     *)
THEOREM PortLosesNothing == Spec => []NothingLost
<1>1. PortInv => NothingLost
  <2> SUFFICES ASSUME PortInv, alive /\ ~done
               PROVE  InFlight = [i \in 1..(sent - taken) |-> taken + i]
    BY DEF NothingLost
  <2>1. Top = sent
    BY DEF PortInv, Fifo
  <2> QED
    BY <2>1, InFlightIsRun DEF Flow, Run
<1> QED
  BY <1>1, PortInvariant, PTL

(* A frame that Recv returns after a Flush is one that was not in the      *)
(* channel when the Flush began.                                           *)
THEOREM PortFlushes == Spec => []FlushDiscardsBuffered
<1>1. PortInv => FlushDiscardsBuffered
  BY DEF PortInv, Fresh, FlushDiscardsBuffered
<1> QED
  BY <1>1, PortInvariant, PTL

(* A sequence is one of the things in it.                                  *)
LEMMA SeqOf ==
    ASSUME NEW S, NEW T, NEW s \in Seq(S), \A i \in 1..Len(s) : s[i] \in T
    PROVE  s \in Seq(T)
<1>1. Len(s) \in Nat /\ s \in [1..Len(s) -> T]
  <2>1. Len(s) \in Nat /\ s = [i \in 1..Len(s) |-> s[i]]
    OBVIOUS
  <2> QED
    BY <2>1
<1> QED
  BY <1>1, SeqDef

(* Types and bounds of the port's state.                                   *)
THEOREM PortTypes == Spec => []TypeOK
<1>1. PortInv => TypeOK
  <2> SUFFICES ASSUME PortInv
               PROVE  TypeOK
    OBVIOUS
  <2> USE DEF PortInv
  <2>1. /\ taken \in Nat /\ Len(frames) \in Nat /\ Top \in Nat /\ sent \in Nat
        /\ taken + Len(frames) <= Top /\ Top <= sent
    BY BytesOf, TopOf DEF Types, Fifo
  <2>2. held \in 0..sent /\ taken \in 0..sent /\ got \in 0..sent /\ buffered \in 0..sent
    BY <2>1 DEF Types, Fifo, Fresh
  <2>3. frames \in Seq(1..sent)
    <3>1. frames \in Seq(Nat) /\ \A i \in 1..Len(frames) : frames[i] = taken + i
      BY DEF Types, Fifo
    <3>2. \A i \in 1..Len(frames) : frames[i] \in 1..sent
      BY <2>1, <3>1
    <3> QED
      BY <3>1, <3>2, SeqOf
  <2>4. line \in Seq([frame : Nat, part : 1..2])
    <3>1. line \in Seq(Byte) /\ \A i \in 1..Len(line) : line[i].part # 0
      BY DEF Types, Fifo
    <3>2. \A i \in 1..Len(line) : line[i] \in [frame : Nat, part : 1..2]
      <4> TAKE i \in 1..Len(line)
      <4>1. line[i] \in Byte /\ line[i].part # 0
        BY <3>1, ElementOfSeq
      <4> QED
        BY <4>1 DEF Byte
    <3> QED
      BY <3>1, <3>2, SeqOf
  <2> QED
    BY <2>2, <2>3, <2>4 DEF TypeOK, Types, Byte
<1> QED
  BY <1>1, PortInvariant, PTL

(* A run is put to at its end, taken from at its head, and cut at its end: *)
(* the three steps of FrameFifo.                                           *)
LEMMA RunAppend ==
    ASSUME NEW lo \in Nat, NEW n \in Nat
    PROVE  Append(Run(lo, n), lo + n + 1) = Run(lo, n + 1)
<1>1. lo + n \in Nat /\ Run(lo + n, 1) = <<lo + n + 1>> /\ Run(lo, n) \in Seq(Nat)
  <2>1. lo + n \in Nat
    OBVIOUS
  <2> QED
    BY <2>1, RunEnds, RunType
<1>2. Run(lo, n) \o Run(lo + n, 1) = Run(lo, n + 1)
  BY RunConcat
<1>3. Append(Run(lo, n), lo + n + 1) = Run(lo, n) \o <<lo + n + 1>>
  BY <1>1
<1> QED
  BY <1>1, <1>2, <1>3

(* Its head is the number after lo, and its tail the run after that.       *)
LEMMA RunTail ==
    ASSUME NEW lo \in Nat, NEW n \in Nat, n > 0
    PROVE  /\ Run(lo, n) # <<>> /\ Head(Run(lo, n)) = lo + 1
           /\ Tail(Run(lo, n)) = Run(lo + 1, n - 1)
<1> DEFINE s == Run(lo, n)
<1>1. s \in Seq(Nat) /\ Len(s) = n /\ \A i \in 1..n : s[i] = lo + i
  BY RunType
<1> HIDE DEF s
<1>2. s # <<>> /\ Head(s) = lo + 1
  BY <1>1
<1> DEFINE t == Tail(s)
<1>3. t \in Seq(Nat) /\ Len(t) = n - 1 /\ \A i \in 1..(n - 1) : t[i] = s[i + 1]
  BY <1>1, <1>2
<1> HIDE DEF t
<1>4. \A i \in 1..Len(t) : t[i] = (lo + 1) + i
  BY <1>1, <1>3
<1>5. t = Run(lo + 1, Len(t))
  BY <1>3, <1>4, IsRun
<1> QED
  BY <1>2, <1>3, <1>5 DEF s, t

(* Its first k numbers are a run.                                          *)
LEMMA RunCut ==
    ASSUME NEW lo \in Nat, NEW n \in Nat, NEW k \in 0..n
    PROVE  SubSeq(Run(lo, n), 1, k) = Run(lo, k) /\ Len(Run(lo, n)) = n
<1> DEFINE s == Run(lo, n)
           t == SubSeq(s, 1, k)
<1>1. s \in Seq(Nat) /\ Len(s) = n /\ \A i \in 1..n : s[i] = lo + i
  BY RunType
<1> HIDE DEF s
<1>2. t \in Seq(Nat) /\ Len(t) = k /\ \A i \in 1..k : t[i] = s[i]
  BY <1>1
<1> HIDE DEF t
<1>3. \A i \in 1..Len(t) : t[i] = lo + i
  BY <1>1, <1>2
<1>4. t = Run(lo, Len(t))
  BY <1>2, <1>3, IsRun
<1> QED
  BY <1>1, <1>2, <1>4 DEF s, t

(* The port implements the FIFO of frames: whatever the reader, the caller *)
(* and the device do is putting a frame in, taking one out, cutting the    *)
(* end once the port is gone, or nothing that its user could tell.         *)
THEOREM PortIsFifo == Spec => IsFifo
<1>1. Init => FF!Init
  <2> SUFFICES ASSUME Init
               PROVE  FF!Init
    OBVIOUS
  <2>1. PortInv
    BY PortInit
  <2>2. Bytes = <<>> /\ Lo = 0
    BY DEF Init, Bytes, Lo
  <2>3. FrameEnds(Bytes) = {}
    BY <2>2 DEF FrameEnds
  <2>4. Top = 0
    BY <2>2, <2>3, FS_EmptySet DEF Top, Count, Init
  <2>5. InFlight = Run(0, 0) /\ taken = 0
    BY <2>1, <2>4, InFlightIsRun DEF Flow, Init
  <2>6. InFlight = <<>>
    BY <2>5, RunEnds
  <2> QED
    BY <2>6 DEF FF!Init, Init
<1>2. ASSUME PortInv, Flow, Flow', Effect
      PROVE  [FF!Next]_FF!vars
  <2> DEFINE q == InFlight
             n == Top - taken
             m == (Top - taken)'
  <2>1. /\ q = Run(taken, n) /\ n \in Nat /\ taken \in Nat /\ Top \in Nat /\ sent \in Nat
        /\ q' = Run(taken', m) /\ m \in Nat /\ taken' \in Nat /\ Top' \in Nat
    <3>1. q = Run(taken, n) /\ taken \in Nat /\ Top \in Nat /\ taken <= Top
      BY <1>2 DEF Flow
    <3>2. q' = Run(taken', m) /\ taken' \in Nat /\ Top' \in Nat /\ taken' <= Top'
      BY <1>2 DEF Flow
    <3>3. sent \in Nat
      BY <1>2 DEF PortInv, Types
    <3>4. n \in Nat
      BY <3>1
    <3>5. \A a, b \in Nat : a <= b => b - a \in Nat
      OBVIOUS
    <3>6. m \in Nat
      BY <3>2, <3>5
    <3> QED
      BY <3>1, <3>2, <3>3, <3>4, <3>6
  <2> HIDE DEF q
  <2>2. CASE /\ sent' = sent + 1 /\ taken' = taken /\ Open' = Open
             /\ \/ Top = sent /\ Top' = sent + 1
                \/ ~Open /\ Top' = Top
    <3>1. CASE Top = sent /\ Top' = sent + 1
      <4>1. m = n + 1 /\ taken + n + 1 = sent'
        BY <2>1, <2>2, <3>1
      <4>2. Append(Run(taken, n), taken + n + 1) = Run(taken, n + 1)
        BY <2>1, RunAppend
      <4>3. q' = Append(q, sent')
        BY <2>1, <2>2, <4>1, <4>2
      <4>4. FF!Put
        BY <2>2, <4>3 DEF FF!Put, q, Open
      <4> QED
        BY <4>4 DEF FF!Next
    <3>2. CASE ~Open /\ Top' = Top
      <4>1. q' = q
        BY <2>1, <2>2, <3>2
      <4>2. FF!Put
        BY <2>2, <3>2, <4>1 DEF FF!Put, q, Open
      <4> QED
        BY <4>2 DEF FF!Next
    <3> QED
      BY <2>2, <3>1, <3>2
  <2>3. CASE sent' = sent /\ taken' = taken + 1 /\ Open' = Open /\ taken < Top /\ Top' = Top
    <3>1. n > 0 /\ m = n - 1
      BY <2>1, <2>3
    <3>2. q # <<>> /\ Head(q) = taken' /\ Tail(q) = Run(taken + 1, n - 1)
      BY <2>1, <2>3, <3>1, RunTail
    <3>3. q' = Tail(q)
      BY <2>1, <2>3, <3>1, <3>2
    <3>4. FF!Take
      BY <2>3, <3>2, <3>3 DEF FF!Take, q, Open
    <3> QED
      BY <3>4 DEF FF!Next
  <2>4. CASE sent' = sent /\ taken' = taken /\ Open' = FALSE /\ Top' <= Top
    <3>1. m \in 0..n
      <4>1. taken \in Nat /\ Top \in Nat /\ Top' \in Nat /\ m \in Nat /\ Top' <= Top
            /\ taken' = taken
        BY <2>1, <2>4
      <4>2. \A a, b, c \in Nat : b <= c /\ b - a \in Nat => b - a \in 0..(c - a)
        OBVIOUS
      <4> QED
        BY <4>1, <4>2
    <3>2. SubSeq(Run(taken, n), 1, m) = Run(taken, m) /\ Len(Run(taken, n)) = n
      BY <2>1, <3>1, RunCut
    <3>3. m \in 0..Len(q) /\ q' = SubSeq(q, 1, m)
      BY <2>1, <2>4, <3>1, <3>2
    <3>4. FF!Cut
      BY <2>4, <3>3 DEF FF!Cut, q, Open
    <3> QED
      BY <3>4 DEF FF!Next
  <2>5. CASE sent' = sent /\ taken' = taken /\ Open' = Open /\ Top' = Top
    <3>1. q' = q
      BY <2>1, <2>5
    <3> QED
      BY <2>5, <3>1 DEF FF!vars, q, Open
  <2> QED
    BY <1>2, <2>2, <2>3, <2>4, <2>5 DEF Effect
<1>3. PortInv /\ [Next]_vars => PortInv' /\ Effect
  BY PortStep
<1>4. Spec => []PortInv
  BY PortInvariant
<1>5. PortInv => Flow
  BY InFlightIsRun
<1>6. Spec => [](PortInv /\ Flow)
  BY <1>4, <1>5, PTL
<1> QED
  BY <1>1, <1>2, <1>3, <1>6, PTL DEF Spec, IsFifo, FF!Spec

=============================================================================
