----------------------------- MODULE AlgorithmProofs -----------------------------
(***************************************************************************)
(* Theorems about what is modelled as operators on values. spinoso-array:  *)
(* its three Arrays do the same, for arrays of any elements and length.    *)
(* spinoso-time: its two Times are exact wherever they answer at all.      *)
(* Ranges have the positions that Ruby says, but for a few whose ends      *)
(* overflow; what is assigned to an Array is read back from it.            *)
(* thread.rb: threads nest, a Mutex is owned within its sections, and      *)
(* threads that abort take with them those around them.                    *)
(***************************************************************************)
EXTENDS ArrayLaws, Threads, SequenceTheorems, TLAPS

CONSTANTS Digits, MicrosInNano, MaxTz

INSTANCE ArrayOps
INSTANCE TimeOps

-----------------------------------------------------------------------------
(* Pieces of arrays.                                                       *)

(* A list of n elements is a sequence.                                     *)
LEMMA Listed ==
    ASSUME NEW S, NEW n \in Nat, NEW f \in [1..n -> S]
    PROVE  f \in Seq(S) /\ Len(f) = n
<1>1. f \in Seq(S)
  OBVIOUS
<1>2. DOMAIN f = 1..n /\ DOMAIN f = 1..Len(f) /\ Len(f) \in Nat
  BY <1>1, LenProperties
<1> QED
  BY <1>1, <1>2

(* A slice of Rust has the elements between its bounds.                    *)
LEMMA Betweens ==
    ASSUME NEW S, NEW s \in Seq(S), NEW i \in Nat, NEW j \in Nat, i <= j, j <= Len(s)
    PROVE  /\ Between(s, i, j) \in Seq(S)
           /\ Len(Between(s, i, j)) = j - i
           /\ \A k \in 1..(j - i) : Between(s, i, j)[k] = s[i + k]
<1>1. Len(s) \in Nat /\ \A k \in (i + 1)..j : s[k] \in S
  BY ElementOfSeq, LenProperties
<1>2. /\ SubSeq(s, i + 1, j) \in Seq(S)
      /\ Len(SubSeq(s, i + 1, j)) = IF i + 1 <= j THEN j - (i + 1) + 1 ELSE 0
      /\ \A k \in 1..(j - (i + 1) + 1) : SubSeq(s, i + 1, j)[k] = s[i + 1 + k - 1]
  BY <1>1, SubSeqProperties
<1>3. /\ (IF i + 1 <= j THEN j - (i + 1) + 1 ELSE 0) = j - i
      /\ j - (i + 1) + 1 = j - i
      /\ \A k \in 1..(j - i) : i + 1 + k - 1 = i + k
  OBVIOUS
<1> QED
  BY <1>2, <1>3 DEF Between

LEMMA UpTos ==
    ASSUME NEW S, NEW s \in Seq(S), NEW i \in Nat, i <= Len(s)
    PROVE  UpTo(s, i) \in Seq(S) /\ Len(UpTo(s, i)) = i /\ \A k \in 1..i : UpTo(s, i)[k] = s[k]
<1>1. ASSUME NEW h \in Nat, h <= i
      PROVE  /\ Between(s, h, i) \in Seq(S) /\ Len(Between(s, h, i)) = i - h
             /\ \A k \in 1..(i - h) : Between(s, h, i)[k] = s[h + k]
  BY <1>1, Betweens
<1>2. 0 \in Nat /\ 0 <= i /\ i - 0 = i
  OBVIOUS
<1> QED
  BY <1>1, <1>2 DEF UpTo

LEMMA Onwards ==
    ASSUME NEW S, NEW s \in Seq(S), NEW j \in Nat, j <= Len(s)
    PROVE  /\ Onward(s, j) \in Seq(S) /\ Len(Onward(s, j)) = Len(s) - j
           /\ \A k \in 1..(Len(s) - j) : Onward(s, j)[k] = s[j + k]
<1>1. Len(s) \in Nat /\ Len(s) <= Len(s)
  BY LenProperties
<1>2. /\ Between(s, j, Len(s)) \in Seq(S) /\ Len(Between(s, j, Len(s))) = Len(s) - j
      /\ \A k \in 1..(Len(s) - j) : Between(s, j, Len(s))[k] = s[j + k]
  BY <1>1, Betweens
<1> QED
  BY <1>2 DEF Onward

(* The parts of s around i..j, with other values between them.             *)
Around(s, i, j, values) == UpTo(s, i) \o values \o Onward(s, j)

LEMMA Arounds ==
    ASSUME NEW S, NEW s \in Seq(S), NEW i \in Nat, NEW j \in Nat, i <= j, j <= Len(s),
           NEW values \in Seq(S)
    PROVE  /\ Around(s, i, j, values) \in Seq(S)
           /\ Len(Around(s, i, j, values)) = Len(s) - (j - i) + Len(values)
           /\ \A k \in 1..(Len(s) - (j - i) + Len(values)) :
                 Around(s, i, j, values)[k] =
                    IF k <= i THEN s[k]
                    ELSE IF k <= i + Len(values) THEN values[k - i]
                    ELSE s[k - Len(values) + (j - i)]
<1> DEFINE p == UpTo(s, i)
           q == Onward(s, j)
           n == Len(values)
<1>1. /\ Len(s) \in Nat /\ n \in Nat /\ i - 0 = i
      /\ 0 \in Nat /\ 0 <= i /\ i <= Len(s) /\ Len(s) <= Len(s)
  BY LenProperties
<1>2. /\ p \in Seq(S) /\ Len(p) = i
      /\ \A k \in 1..i : p[k] = s[k]
  BY <1>1, UpTos
<1>3. /\ q \in Seq(S) /\ Len(q) = Len(s) - j
      /\ \A k \in 1..(Len(s) - j) : q[k] = s[j + k]
  BY <1>1, Onwards
<1> HIDE DEF p, q
<1>4. /\ p \o values \in Seq(S) /\ Len(p \o values) = i + n
      /\ \A k \in 1..(i + n) : (p \o values)[k] = IF k <= i THEN p[k] ELSE values[k - i]
  BY <1>2, ConcatProperties
<1> DEFINE r == p \o values
<1>5. r \in Seq(S) /\ Len(r) = i + n
  BY <1>4
<1>6. \A k \in 1..(i + n) : r[k] = IF k <= i THEN s[k] ELSE values[k - i]
  BY <1>1, <1>2, <1>4
<1> HIDE DEF r
<1>7. /\ r \o q \in Seq(S) /\ Len(r \o q) = Len(r) + Len(q)
      /\ \A k \in 1..(Len(r) + Len(q)) : (r \o q)[k] = IF k <= Len(r) THEN r[k] ELSE q[k - Len(r)]
  <2>1. r \in Seq(S) /\ q \in Seq(S)
    BY <1>3, <1>5
  <2> QED
    BY <2>1, ConcatProperties
<1> DEFINE z == r \o q
<1>8. /\ z \in Seq(S) /\ Len(z) = Len(s) - (j - i) + n
      /\ \A k \in 1..(Len(s) - (j - i) + n) : z[k] = IF k <= i + n THEN r[k] ELSE q[k - (i + n)]
  BY <1>1, <1>3, <1>5, <1>7
<1>9. Around(s, i, j, values) = z
  BY DEF Around, p, q, r
<1> HIDE DEF z
<1>10. ASSUME NEW k \in 1..(Len(s) - (j - i) + n)
       PROVE  z[k] = IF k <= i THEN s[k] ELSE IF k <= i + n THEN values[k - i]
                     ELSE s[k - n + (j - i)]
  <2>1. CASE k <= i + n
    BY <1>1, <1>6, <1>8, <2>1
  <2>2. CASE ~(k <= i + n)
    <3>1. k - (i + n) \in 1..(Len(s) - j) /\ j + (k - (i + n)) = k - n + (j - i)
      BY <1>1, <2>2
    <3>2. z[k] = s[j + (k - (i + n))]
      BY <1>3, <1>8, <2>2, <3>1
    <3> QED
      BY <1>1, <2>2, <3>1, <3>2
  <2> QED
    BY <2>1, <2>2
<1> QED
  BY <1>8, <1>9, <1>10

(* resize_with cuts or fills.                                              *)
LEMMA Resized ==
    ASSUME NEW S, Nil \in S, NEW s \in Seq(S), NEW n \in Nat
    PROVE  /\ ResizeWith(s, n) \in Seq(S)
           /\ Len(ResizeWith(s, n)) = n
           /\ \A k \in 1..n : ResizeWith(s, n)[k] = IF k <= Len(s) THEN s[k] ELSE Nil
           /\ n = Len(s) => ResizeWith(s, n) = s
<1>1. \A k \in 1..n : (IF k <= Len(s) THEN s[k] ELSE Nil) \in S
  BY ElementOfSeq, LenProperties
<1>2. ResizeWith(s, n) \in Seq(S)
  BY <1>1, IsASeq DEF ResizeWith
<1>3. /\ Len(ResizeWith(s, n)) = n
      /\ \A k \in 1..n : ResizeWith(s, n)[k] = IF k <= Len(s) THEN s[k] ELSE Nil
  BY <1>2, LenProperties DEF ResizeWith
<1>4. n = Len(s) => ResizeWith(s, n) = s
  BY <1>2, <1>3, SeqEqual
<1> QED
  BY <1>2, <1>3, <1>4

-----------------------------------------------------------------------------
(* The three Arrays.                                                       *)

(* A sequence is spliced if it is as long, and element for element.        *)
LEMMA IsSpliced ==
    ASSUME NEW S, NEW s, NEW index, NEW d, NEW values,
           NEW t \in Seq(S), Len(t) = SplicedLen(s, index, d, values),
           \A k \in 1..Len(t) : t[k] = SplicedAt(s, index, d, values, k)
    PROVE  t = Spliced(s, index, d, values)
<1> DEFINE e(k) == SplicedAt(s, index, d, values, k)
<1>1. t = [k \in 1..Len(t) |-> t[k]]
  BY LenProperties
<1>2. \A k \in 1..Len(t) : t[k] = e(k)
  OBVIOUS
<1> HIDE DEF e
<1>3. t = [k \in 1..Len(t) |-> e(k)]
  BY <1>1, <1>2
<1> QED
  BY <1>3, Zenon DEF Spliced, e

(* Values put behind the end, or exactly at it.                            *)
LEMMA SplicedBehind ==
    ASSUME NEW S, Nil \in S, NEW s \in Seq(S), NEW index \in Nat, NEW values \in Seq(S),
           index >= Len(s)
    PROVE  ResizeWith(s, index) \o values = Spliced(s, index, 0, values)
<1> DEFINE t == ResizeWith(s, index)
           n == Len(values)
<1>1. Len(s) \in Nat /\ n \in Nat
  BY LenProperties
<1>2. /\ t \in Seq(S) /\ Len(t) = index
      /\ \A k \in 1..index : t[k] = IF k <= Len(s) THEN s[k] ELSE Nil
  BY Resized, ZenonT(60)
<1> HIDE DEF t
<1>3. /\ t \o values \in Seq(S) /\ Len(t \o values) = index + n
      /\ \A k \in 1..(index + n) : (t \o values)[k] = IF k <= index THEN t[k] ELSE values[k - index]
  <2>1. /\ t \o values \in Seq(S) /\ Len(t \o values) = Len(t) + Len(values)
        /\ \A i \in 1..(Len(t) + Len(values)) :
               (t \o values)[i] = IF i <= Len(t) THEN t[i] ELSE values[i - Len(t)]
    BY <1>2, ConcatProperties
  <2> QED
    BY <1>2, <2>1
<1>4. ASSUME NEW k \in 1..(index + n)
      PROVE  (t \o values)[k] = SplicedAt(s, index, 0, values, k)
  <2>1. CASE k <= index
    BY <1>1, <1>2, <1>3, <2>1 DEF SplicedAt
  <2>2. CASE ~(k <= index)
    <3>1. k <= index + n /\ (t \o values)[k] = values[k - index]
      BY <1>3, <2>2
    <3> QED
      BY <2>2, <3>1 DEF SplicedAt
  <2> QED
    BY <2>1, <2>2
<1>5. index + n = SplicedLen(s, index, 0, values)
  BY <1>1 DEF SplicedLen
<1> DEFINE r == t \o values
<1>6. /\ r \in Seq(S) /\ Len(r) = SplicedLen(s, index, 0, values)
      /\ \A k \in 1..Len(r) : r[k] = SplicedAt(s, index, 0, values, k)
  BY <1>3, <1>4, <1>5
<1> HIDE DEF r
<1>7. r = Spliced(s, index, 0, values)
  BY <1>6, IsSpliced
<1> QED
  BY <1>7 DEF r, t

(* Values put between elements.                                            *)
LEMMA SplicedWithin ==
    ASSUME NEW S, NEW s \in Seq(S), NEW index \in Nat, NEW d \in Nat, NEW values \in Seq(S),
           index + d <= Len(s)
    PROVE  Around(s, index, index + d, values) = Spliced(s, index, d, values)
<1> DEFINE n == Len(values)
           len == Len(s) - d
           j == index + d
           t == Around(s, index, j, values)
<1>1. Len(s) \in Nat /\ n \in Nat /\ len \in Nat /\ index <= Len(s)
  BY LenProperties
<1>2. j \in Nat /\ index <= j /\ j <= Len(s) /\ j - index = d /\ Len(s) - (j - index) + n = len + n
  BY <1>1
<1>3. len + n = SplicedLen(s, index, d, values)
  BY <1>1 DEF SplicedLen
<1> HIDE DEF j, len
<1>4. /\ t \in Seq(S) /\ Len(t) = Len(s) - (j - index) + n
      /\ \A k \in 1..(Len(s) - (j - index) + n) :
            t[k] = IF k <= index THEN s[k]
                   ELSE IF k <= index + n THEN values[k - index]
                   ELSE s[k - n + (j - index)]
  BY <1>2, Arounds
<1> HIDE DEF t
<1>5. t \in Seq(S) /\ Len(t) = len + n
  BY <1>2, <1>4
<1>6. ASSUME NEW k \in 1..(len + n)
      PROVE  t[k] = SplicedAt(s, index, d, values, k)
  <2>1. t[k] = IF k <= index THEN s[k]
               ELSE IF k <= index + n THEN values[k - index]
               ELSE s[k - n + d]
    BY <1>2, <1>4
  <2>2. k <= index => k <= Len(s)
    BY <1>1
  <2> QED
    BY <2>1, <2>2 DEF SplicedAt
<1>7. Len(t) = SplicedLen(s, index, d, values)
      /\ \A k \in 1..Len(t) : t[k] = SplicedAt(s, index, d, values, k)
  BY <1>3, <1>5, <1>6
<1>8. t = Spliced(s, index, d, values)
  BY <1>5, <1>7, IsSpliced
<1> QED
  BY <1>8 DEF t, j


LEMMA DrainedType ==
    ASSUME NEW S, NEW s \in Seq(S), NEW index \in Nat, NEW drain \in Nat
    PROVE  /\ Drained(s, index, drain) \in Nat
           /\ index >= Len(s) => Drained(s, index, drain) = 0
           /\ index <= Len(s) => index + Drained(s, index, drain) <= Len(s)
           /\ index + drain <= Len(s) => Drained(s, index, drain) = drain
           /\ index < Len(s) /\ index + drain >= Len(s) =>
                 Drained(s, index, drain) = Len(s) - index
<1>1. Len(s) \in Nat
  BY LenProperties
<1> QED
  BY <1>1 DEF Drained, Minus, Smaller

(* Array on a Vec: splice, and split_off for an insertion.                 *)
THEOREM SetSliceSplices ==
    ASSUME NEW S, Nil \in S, NEW s \in Seq(S), NEW index \in Nat, NEW drain \in Nat,
           NEW values \in Seq(S)
    PROVE  SetSlice(s, index, drain, values)
              = Spliced(s, index, Drained(s, index, drain), values)
<1> DEFINE d == Drained(s, index, drain)
<1>1. Len(s) \in Nat /\ d \in Nat
  BY LenProperties, DrainedType
<1>2. CASE index >= Len(s)
  <2>1. d = 0
    BY <1>2, DrainedType
  <2> QED
    BY <1>2, <2>1, SplicedBehind DEF SetSlice
<1>3. CASE index < Len(s)
  <2>1. index <= Len(s) /\ ~(index >= Len(s))
    BY <1>1, <1>3
  <2>2. index + d <= Len(s)
    BY <2>1, DrainedType
  <2>3. SetSlice(s, index, drain, values) = Around(s, index, index + d, values)
    BY <2>1 DEF SetSlice, Around
  <2> HIDE DEF d
  <2>4. Around(s, index, index + d, values) = Spliced(s, index, d, values)
    BY <1>1, <2>2, SplicedWithin
  <2> QED
    BY <2>3, <2>4 DEF d
<1> QED
  BY <1>1, <1>2, <1>3

(* Array on a TinyVec: it grows first, and then splices.                   *)
THEOREM TinySetSliceSplices ==
    ASSUME NEW S, Nil \in S, NEW s \in Seq(S), NEW index \in Nat, NEW drain \in Nat,
           NEW values \in Seq(S)
    PROVE  TinySetSlice(s, index, drain, values) =
              [drained |-> Drained(s, index, drain),
               array |-> Spliced(s, index, Drained(s, index, drain), values)]
<1> DEFINE grown == IF index > Len(s) THEN ResizeWith(s, index) ELSE s
           d == Drained(s, index, drain)
           r == IF index = Len(grown) THEN grown \o values
                ELSE UpTo(grown, index) \o values \o Onward(grown, index + d)
<1>1. Len(s) \in Nat /\ d \in Nat
  BY LenProperties, DrainedType
<1>2. TinySetSlice(s, index, drain, values) = [drained |-> d, array |-> r]
  BY DEF TinySetSlice, Drained
<1>3. r = Spliced(s, index, d, values)
  <2>1. CASE index >= Len(s)
    <3>1. Len(ResizeWith(s, index)) = index /\ (index = Len(s) => ResizeWith(s, index) = s)
      BY Resized
    <3>2. grown = ResizeWith(s, index) /\ index = Len(grown)
      BY <1>1, <2>1, <3>1
    <3>3. r = ResizeWith(s, index) \o values
      BY <3>2
    <3>4. d = 0
      BY <2>1, DrainedType
    <3> HIDE DEF r, d
    <3> QED
      BY <2>1, <3>3, <3>4, SplicedBehind
  <2>2. CASE index < Len(s)
    <3>1. grown = s /\ index # Len(grown) /\ index <= Len(s)
      BY <1>1, <2>2
    <3>2. r = Around(s, index, index + d, values)
      BY <3>1 DEF Around
    <3>3. index + d <= Len(s)
      BY <3>1, DrainedType
    <3> HIDE DEF r, d
    <3> QED
      BY <1>1, <3>2, <3>3, SplicedWithin
  <2> QED
    BY <1>1, <2>1, <2>2, SMTT(30)
<1> HIDE DEF d, r
<1> QED
  BY <1>2, <1>3 DEF d


-----------------------------------------------------------------------------
(* The Array on a SmallVec.                                                *)

LEMMA Without ==
    ASSUME NEW S, NEW s \in Seq(S), NEW i \in Nat, NEW j \in Nat, i <= j, j <= Len(s)
    PROVE  /\ WithoutRange(s, i, j) \in Seq(S)
           /\ Len(WithoutRange(s, i, j)) = Len(s) - (j - i)
           /\ \A k \in 1..(Len(s) - (j - i)) :
                 WithoutRange(s, i, j)[k] = IF k <= i THEN s[k] ELSE s[k + (j - i)]
<1> DEFINE p == UpTo(s, i)
           q == Onward(s, j)
<1>1. Len(s) \in Nat /\ 0 \in Nat /\ 0 <= i /\ i <= Len(s) /\ Len(s) <= Len(s)
  BY LenProperties
<1>2. p \in Seq(S) /\ Len(p) = i /\ \A k \in 1..i : p[k] = s[k]
  BY <1>1, UpTos
<1>3. q \in Seq(S) /\ Len(q) = Len(s) - j /\ \A k \in 1..(Len(s) - j) : q[k] = s[j + k]
  BY <1>1, Onwards
<1>4. WithoutRange(s, i, j) = p \o q
  BY DEF WithoutRange
<1> HIDE DEF p, q
<1>5. /\ p \o q \in Seq(S) /\ Len(p \o q) = Len(p) + Len(q)
      /\ \A k \in 1..(Len(p) + Len(q)) : (p \o q)[k] = IF k <= Len(p) THEN p[k] ELSE q[k - Len(p)]
  BY <1>2, <1>3, ConcatProperties
<1>6. Len(p) + Len(q) = Len(s) - (j - i)
  BY <1>1, <1>2, <1>3
<1>7. ASSUME NEW k \in 1..(Len(s) - (j - i))
      PROVE  (p \o q)[k] = IF k <= i THEN s[k] ELSE s[k + (j - i)]
  <2>1. (p \o q)[k] = IF k <= i THEN p[k] ELSE q[k - i]
    BY <1>2, <1>5, <1>6
  <2>2. ~(k <= i) => k - i \in 1..(Len(s) - j) /\ j + (k - i) = k + (j - i)
    BY <1>1
  <2>3. ~(k <= i) => q[k - i] = s[k + (j - i)]
    BY <1>3, <2>2
  <2>4. k <= i => p[k] = s[k]
    BY <1>2
  <2> QED
    BY <2>1, <2>3, <2>4
<1> QED
  BY <1>4, <1>5, <1>6, <1>7

(* copy_from_slice replaces elements one by one.                           *)
LEMMA Overwritten ==
    ASSUME NEW S, NEW s \in Seq(S), NEW i \in Nat, NEW values \in Seq(S),
           i + Len(values) <= Len(s)
    PROVE  /\ Overwrite(s, i, values) \in Seq(S)
           /\ Len(Overwrite(s, i, values)) = Len(s)
           /\ \A k \in 1..Len(s) :
                 Overwrite(s, i, values)[k] =
                    IF i < k /\ k <= i + Len(values) THEN values[k - i] ELSE s[k]
<1> DEFINE n == Len(values)
           o == Overwrite(s, i, values)
<1>1. Len(s) \in Nat /\ n \in Nat
  BY LenProperties
<1>2. ASSUME NEW k \in 1..Len(s)
      PROVE  /\ o[k] = IF i < k /\ k <= i + n THEN values[k - i] ELSE s[k]
             /\ o[k] \in S
  <2>1. k \in (i + 1)..(i + n) <=> i < k /\ k <= i + n
    BY <1>1
  <2>2. o[k] = IF i < k /\ k <= i + n THEN values[k - i] ELSE s[k]
    BY <2>1 DEF Overwrite
  <2>3. i < k /\ k <= i + n => values[k - i] \in S
    <3>1. i < k /\ k <= i + n => k - i \in 1..n
      BY <1>1
    <3> QED
      BY <3>1, ElementOfSeq
  <2>4. s[k] \in S
    BY ElementOfSeq
  <2> QED
    BY <2>2, <2>3, <2>4
<1>3. o \in [1..Len(s) -> S]
  <2>1. DOMAIN o = 1..Len(s) /\ o = [k \in DOMAIN o |-> o[k]]
    BY DEF Overwrite
  <2> HIDE DEF o
  <2> QED
    BY <1>2, <2>1
<1> HIDE DEF o
<1>4. o \in Seq(S) /\ Len(o) = Len(s)
  BY <1>1, <1>3, Listed
<1> QED
  BY <1>2, <1>4 DEF o

(* Fewer values than they replace: the rest is drained.                    *)
LEMMA ReplacedByFewer ==
    ASSUME NEW S, NEW s \in Seq(S), NEW index \in Nat, NEW drain \in Nat,
           NEW values \in Seq(S), index + drain <= Len(s), Len(values) <= drain
    PROVE  WithoutRange(Overwrite(s, index, values), index + Len(values), index + drain)
              = Spliced(s, index, drain, values)
<1> DEFINE n == Len(values)
           o == Overwrite(s, index, values)
           i == index + n
           j == index + drain
           t == WithoutRange(o, i, j)
<1>1. /\ Len(s) \in Nat /\ n \in Nat /\ i \in Nat /\ j \in Nat
      /\ i <= j /\ j <= Len(s) /\ index + n <= Len(s)
  BY LenProperties
<1>2. /\ o \in Seq(S) /\ Len(o) = Len(s)
      /\ \A k \in 1..Len(s) : o[k] = IF index < k /\ k <= index + n THEN values[k - index] ELSE s[k]
  BY <1>1, Overwritten
<1> DEFINE len == Len(s) - (j - i)
<1>3. /\ len \in Nat /\ len = Len(s) - drain + n /\ len = SplicedLen(s, index, drain, values)
      /\ j - i = drain - n
  BY <1>1 DEF SplicedLen
<1> HIDE DEF o, i, j
<1>4. o \in Seq(S) /\ i \in Nat /\ j \in Nat /\ i <= j /\ j <= Len(o)
  BY <1>1, <1>2
<1>5. /\ t \in Seq(S) /\ Len(t) = len
      /\ \A k \in 1..len : t[k] = IF k <= i THEN o[k] ELSE o[k + (j - i)]
  <2>1. /\ t \in Seq(S) /\ Len(t) = Len(o) - (j - i)
        /\ \A k \in 1..(Len(o) - (j - i)) : t[k] = IF k <= i THEN o[k] ELSE o[k + (j - i)]
    BY <1>4, Without
  <2>2. Len(o) - (j - i) = len
    BY <1>2
  <2> QED
    BY <2>1, <2>2
<1> HIDE DEF t, len
<1>6. ASSUME NEW k \in 1..len
      PROVE  t[k] = SplicedAt(s, index, drain, values, k)
  <2>1. CASE k <= i
    <3>1. k \in 1..Len(s) /\ t[k] = o[k]
      BY <1>1, <1>3, <1>5, <2>1, SMTT(30)
    <3>2. k <= index + n /\ (k <= index \/ index < k)
      BY <1>1, <2>1 DEF i
    <3> QED
      BY <1>2, <3>1, <3>2 DEF SplicedAt
  <2>2. CASE ~(k <= i)
    <3>1. /\ k + (drain - n) \in 1..Len(s)
          /\ ~(k + (drain - n) <= index + n) /\ ~(k <= index + n) /\ ~(k <= index)
          /\ k + (drain - n) = k - n + drain
      BY <1>1, <1>3, <2>2 DEF i
    <3>2. t[k] = o[k + (drain - n)]
      BY <1>3, <1>5, <2>2
    <3>3. o[k + (drain - n)] = s[k + (drain - n)]
      BY <1>2, <3>1
    <3> QED
      BY <3>1, <3>2, <3>3 DEF SplicedAt
  <2> QED
    BY <2>1, <2>2
<1>7. t = Spliced(s, index, drain, values)
  <2>1. Len(t) = SplicedLen(s, index, drain, values)
        /\ \A k \in 1..Len(t) : t[k] = SplicedAt(s, index, drain, values, k)
    BY <1>3, <1>5, <1>6
  <2> QED
    BY <1>5, <2>1, IsSpliced
<1> QED
  BY <1>7 DEF o, i, j, t


(* More values than they replace: the others are inserted behind them.     *)
LEMMA ReplacedByMore ==
    ASSUME NEW S, NEW s \in Seq(S), NEW index \in Nat, NEW drain \in Nat,
           NEW values \in Seq(S), index + drain <= Len(s), drain <= Len(values)
    PROVE  InsertAt(Overwrite(s, index, UpTo(values, drain)), index + drain,
                    Onward(values, drain))
              = Spliced(s, index, drain, values)
<1> DEFINE n == Len(values)
           some == UpTo(values, drain)
           others == Onward(values, drain)
           o == Overwrite(s, index, some)
           i == index + drain
           t == Around(o, i, i, others)
<1>1. /\ Len(s) \in Nat /\ n \in Nat /\ i \in Nat /\ i <= i /\ i <= Len(s)
      /\ 0 \in Nat /\ 0 <= drain /\ drain <= n /\ n <= n
  BY LenProperties
<1>2. some \in Seq(S) /\ Len(some) = drain /\ \A k \in 1..drain : some[k] = values[k]
  BY <1>1, UpTos
<1>3. others \in Seq(S) /\ Len(others) = n - drain /\ \A k \in 1..(n - drain) : others[k] = values[drain + k]
  BY <1>1, Onwards
<1> HIDE DEF some, others
<1>4. /\ o \in Seq(S) /\ Len(o) = Len(s)
      /\ \A k \in 1..Len(s) : o[k] = IF index < k /\ k <= index + drain THEN values[k - index] ELSE s[k]
  <2>1. index + Len(some) <= Len(s)
    BY <1>2
  <2>2. /\ o \in Seq(S) /\ Len(o) = Len(s)
        /\ \A k \in 1..Len(s) :
              o[k] = IF index < k /\ k <= index + Len(some) THEN some[k - index] ELSE s[k]
    BY <1>2, <2>1, Overwritten
  <2> HIDE DEF o
  <2>3. ASSUME NEW k \in 1..Len(s), index < k, k <= index + drain
        PROVE  some[k - index] = values[k - index]
    <3>1. k - index \in 1..drain
      BY <1>1, <2>3
    <3> QED
      BY <1>2, <3>1
  <2> QED
    BY <1>2, <2>2, <2>3
<1> DEFINE len == Len(s) + (n - drain)
<1>5. len \in Nat /\ len = SplicedLen(s, index, drain, values)
  BY <1>1 DEF SplicedLen
<1>6. InsertAt(o, i, others) = t
  BY DEF InsertAt, Around
<1> HIDE DEF o, i
<1>7. /\ t \in Seq(S) /\ Len(t) = len
      /\ \A k \in 1..len : t[k] = IF k <= i THEN o[k]
                                  ELSE IF k <= i + (n - drain) THEN others[k - i]
                                  ELSE o[k - (n - drain)]
  <2>1. /\ i <= Len(o) /\ i \in Nat /\ i <= i
        /\ o \in Seq(S) /\ others \in Seq(S)
    BY <1>1, <1>3, <1>4
  <2>2. /\ t \in Seq(S) /\ Len(t) = Len(o) - (i - i) + Len(others)
        /\ \A k \in 1..(Len(o) - (i - i) + Len(others)) :
              t[k] = IF k <= i THEN o[k]
                     ELSE IF k <= i + Len(others) THEN others[k - i]
                     ELSE o[k - Len(others) + (i - i)]
    BY <2>1, Arounds
  <2> HIDE DEF t
  <2>3. i - i = 0 /\ Len(o) - (i - i) + Len(others) = len
    BY <1>1, <1>3, <1>4
  <2> QED
    BY <1>1, <1>3, <2>2, <2>3
<1> HIDE DEF t, len
<1>8. ASSUME NEW k \in 1..len
      PROVE  t[k] = SplicedAt(s, index, drain, values, k)
  <2>1. len = Len(s) + (n - drain) /\ i = index + drain
    BY DEF len, i
  <2>2. CASE k <= i
    <3>1. k \in 1..Len(s) /\ t[k] = o[k] /\ k <= index + n
      BY <1>1, <1>5, <1>7, <2>1, <2>2
    <3>2. k <= index + drain /\ (k <= index \/ index < k)
      BY <2>1, <2>2
    <3> QED
      BY <1>4, <3>1, <3>2 DEF SplicedAt
  <2>3. CASE ~(k <= i) /\ k <= i + (n - drain)
    <3>1. /\ k - i \in 1..(n - drain) /\ drain + (k - i) = k - index
          /\ ~(k <= index) /\ k <= index + n
      BY <1>1, <2>1, <2>3
    <3>2. t[k] = others[k - i]
      BY <1>7, <2>3
    <3>3. others[k - i] = values[k - index]
      BY <1>3, <3>1
    <3> QED
      BY <3>1, <3>2, <3>3 DEF SplicedAt
  <2>4. CASE ~(k <= i) /\ ~(k <= i + (n - drain))
    <3>1. /\ k - (n - drain) \in 1..Len(s) /\ ~(k - (n - drain) <= index + drain)
          /\ ~(k <= index) /\ ~(k <= index + n) /\ k - (n - drain) = k - n + drain
      BY <1>1, <1>5, <2>1, <2>4
    <3>2. t[k] = o[k - (n - drain)]
      BY <1>7, <2>4
    <3>3. o[k - (n - drain)] = s[k - (n - drain)]
      BY <1>4, <3>1
    <3> QED
      BY <3>1, <3>2, <3>3 DEF SplicedAt
  <2> QED
    BY <2>2, <2>3, <2>4
<1>9. t = Spliced(s, index, drain, values)
  <2>1. Len(t) = SplicedLen(s, index, drain, values)
        /\ \A k \in 1..Len(t) : t[k] = SplicedAt(s, index, drain, values, k)
    BY <1>5, <1>7, <1>8
  <2> QED
    BY <1>7, <2>1, IsSpliced
<1> QED
  BY <1>6, <1>9 DEF o, i, t, some, others


LEMMA SmallReplaceSplices ==
    ASSUME NEW S, NEW s \in Seq(S), NEW index \in Nat, NEW drain \in Nat,
           NEW values \in Seq(S), index + drain <= Len(s), drain > 0
    PROVE  SmallReplace(s, index, drain, values) = Spliced(s, index, drain, values)
<1> DEFINE n == Len(values)
           r == Spliced(s, index, drain, values)
<1>1. Len(s) \in Nat /\ n \in Nat
  BY LenProperties
<1> HIDE DEF r
<1>2. CASE n = 0
  <2>1. Overwrite(s, index, values) = s
    <3>1. index + n <= Len(s)
      BY <1>1, <1>2
    <3>2. /\ Overwrite(s, index, values) \in Seq(S)
          /\ Len(Overwrite(s, index, values)) = Len(s)
          /\ \A k \in 1..Len(s) : Overwrite(s, index, values)[k] =
                IF index < k /\ k <= index + n THEN values[k - index] ELSE s[k]
      BY <3>1, Overwritten
    <3>3. \A k \in 1..Len(s) : Overwrite(s, index, values)[k] = s[k]
      BY <1>1, <1>2, <3>2
    <3> QED
      BY <3>2, <3>3, SeqEqual
  <2>2. /\ n <= drain /\ index + n = index
        /\ ~(n > 0) /\ ~(n = drain) /\ ~(n > drain)
    BY <1>2
  <2>3. WithoutRange(Overwrite(s, index, values), index + n, index + drain) = r
    BY <2>2, ReplacedByFewer DEF r
  <2>4. WithoutRange(s, index, index + drain) = r
    BY <2>1, <2>2, <2>3
  <2> QED
    BY <1>2, <2>2, <2>4 DEF SmallReplace, r
<1>3. CASE n > 0 /\ n < drain
  <2>1. n <= drain /\ ~(n = 0) /\ n > 0 /\ n < drain /\ ~(n = drain) /\ ~(n > drain)
    BY <1>1, <1>3
  <2>2. WithoutRange(Overwrite(s, index, values), index + n, index + drain) = r
    BY <2>1, ReplacedByFewer DEF r
  <2>3. SmallReplace(s, index, drain, values)
           = WithoutRange(Overwrite(s, index, values), index + n, index + drain)
    BY <2>1 DEF SmallReplace
  <2> QED
    BY <2>2, <2>3 DEF r
<1>4. CASE n > 0 /\ n = drain
  <2>1. /\ ~(n = 0) /\ ~(n < drain) /\ n = drain /\ ~(n > drain) /\ index + n <= Len(s)
        /\ Len(s) = SplicedLen(s, index, drain, values)
    BY <1>1, <1>4 DEF SplicedLen
  <2> DEFINE o == Overwrite(s, index, values)
  <2>2. SmallReplace(s, index, drain, values) = o
    BY <2>1 DEF SmallReplace
  <2>3. /\ o \in Seq(S) /\ Len(o) = Len(s)
        /\ \A k \in 1..Len(s) : o[k] =
              IF index < k /\ k <= index + n THEN values[k - index] ELSE s[k]
    BY <2>1, Overwritten
  <2> HIDE DEF o
  <2>4. ASSUME NEW k \in 1..Len(s)
        PROVE  o[k] = SplicedAt(s, index, drain, values, k)
    <3>1. k - n + drain = k /\ (k <= index => ~(index < k)) /\ (~(k <= index) => index < k)
      BY <1>1, <2>1
    <3>2. CASE k <= index
      BY <2>3, <3>1, <3>2 DEF SplicedAt
    <3>3. CASE ~(k <= index) /\ k <= index + n
      BY <2>3, <3>1, <3>3 DEF SplicedAt
    <3>4. CASE ~(k <= index) /\ ~(k <= index + n)
      BY <2>3, <3>1, <3>4 DEF SplicedAt
    <3> QED
      BY <3>2, <3>3, <3>4
  <2>5. Len(o) = SplicedLen(s, index, drain, values)
        /\ \A k \in 1..Len(o) : o[k] = SplicedAt(s, index, drain, values, k)
    BY <2>1, <2>3, <2>4
  <2>6. o = r
    BY <2>3, <2>5, IsSpliced DEF r
  <2> QED
    BY <2>2, <2>6 DEF r
<1>5. CASE n > drain
  <2>1. drain <= n /\ ~(n = 0) /\ ~(n < drain) /\ ~(n = drain) /\ n > drain
    BY <1>1, <1>5
  <2>2. SmallReplace(s, index, drain, values)
           = InsertAt(Overwrite(s, index, UpTo(values, drain)), index + drain,
                      Onward(values, drain))
    BY <2>1 DEF SmallReplace
  <2> QED
    BY <2>1, <2>2, ReplacedByMore
<1> QED
  BY <1>1, <1>2, <1>3, <1>4, <1>5

(* Array on a SmallVec: it grows first, then appends, cuts off and         *)
(* appends, inserts, or replaces by the number of values.                  *)
THEOREM SmallSetSliceSplices ==
    ASSUME NEW S, Nil \in S, NEW s \in Seq(S), NEW index \in Nat, NEW drain \in Nat,
           NEW values \in Seq(S)
    PROVE  SmallSetSlice(s, index, drain, values) =
              [array |-> Spliced(s, index, Drained(s, index, drain), values),
               drained |-> Drained(s, index, drain)]
<1> DEFINE d == Drained(s, index, drain)
           r == SmallSetSlice(s, index, drain, values)
<1>1. Len(s) \in Nat /\ d \in Nat
  BY LenProperties, DrainedType
<1>2. CASE index >= Len(s)
  <2> DEFINE grown == ResizeWith(s, index)
  <2>1. Len(grown) = index /\ (index = Len(s) => grown = s)
    BY Resized
  <2>2. grown = IF index > Len(s) THEN ResizeWith(s, index) ELSE s
    BY <1>1, <1>2, <2>1
  <2>3. d = 0
    BY <1>2, DrainedType
  <2>4. grown \o values = Spliced(s, index, 0, values)
    BY <1>2, SplicedBehind
  <2> HIDE DEF grown
  <2>5. Len(grown) - index = 0 /\ ~(Len(grown) - index > 0) /\ ~(Len(grown) - index > drain)
    BY <2>1
  <2>6. r = [array |-> grown \o values, drained |-> 0]
    BY <2>2, <2>5 DEF SmallSetSlice
  <2> QED
    BY <2>3, <2>4, <2>6
<1>3. CASE index < Len(s)
  <2> DEFINE tail == Len(s) - index
  <2>1. /\ ~(index > Len(s)) /\ ~(tail = 0) /\ tail > 0 /\ index <= Len(s) /\ tail \in Nat
        /\ s = IF index > Len(s) THEN ResizeWith(s, index) ELSE s
    BY <1>1, <1>3
  <2>2. index + d <= Len(s)
    BY <2>1, DrainedType
  <2>3. d \in Nat /\ Around(s, index, index + d, values) = Spliced(s, index, d, values)
    <3> HIDE DEF d
    <3> QED
      BY <1>1, <2>2, SplicedWithin
  <2>4. CASE tail <= drain
    <3>1. index + drain >= Len(s)
      BY <1>1, <2>4
    <3>2. d = tail
      BY <1>3, <3>1, DrainedType
    <3>3. r = [array |-> UpTo(s, index) \o values, drained |-> tail]
      <4>1. ~(tail > drain)
        BY <2>1, <2>4
      <4> HIDE DEF tail
      <4> QED
        BY <2>1, <2>4, <4>1 DEF SmallSetSlice, tail
    <3>4. Around(s, index, index + d, values) = UpTo(s, index) \o values
      <4>1. index + d = Len(s)
        BY <1>1, <3>2
      <4>2. Onward(s, Len(s)) = <<>>
        BY <1>1, SubSeqEmpty DEF Onward, Between
      <4>3. UpTo(s, index) \in Seq(S)
        BY <2>1, UpTos
      <4>4. UpTo(s, index) \o values \in Seq(S)
        BY <4>3, ConcatProperties
      <4> QED
        BY <4>1, <4>2, <4>4, ConcatEmptySeq DEF Around
    <3> QED
      BY <2>3, <3>2, <3>3, <3>4
  <2>5. CASE tail > drain /\ drain = 0
    <3>1. index + drain <= Len(s) /\ index + 0 = index
      BY <1>1, <2>5
    <3>2. d = 0
      BY <2>5, <3>1, DrainedType
    <3>3. r = [array |-> InsertAt(s, index, values), drained |-> 0]
      <4>1. ~(tail <= drain) /\ ~(drain > 0)
        BY <2>1, <2>5
      <4> QED
        BY <2>1, <2>5, <4>1 DEF SmallSetSlice
    <3>4. Around(s, index, index + d, values) = InsertAt(s, index, values)
      BY <3>1, <3>2 DEF Around, InsertAt
    <3> QED
      BY <2>3, <3>2, <3>3, <3>4
  <2>6. CASE tail > drain /\ drain > 0
    <3>1. index + drain <= Len(s) /\ drain > 0
      BY <1>1, <2>6
    <3>2. d = drain
      BY <3>1, DrainedType
    <3>3. r = [array |-> SmallReplace(s, index, drain, values), drained |-> drain]
      <4>1. ~(tail <= drain) /\ ~(drain = 0)
        BY <2>1, <2>6
      <4> QED
        BY <2>1, <2>6, <4>1 DEF SmallSetSlice
    <3>4. SmallReplace(s, index, drain, values) = Spliced(s, index, drain, values)
      BY <3>1, SmallReplaceSplices
    <3> QED
      BY <3>2, <3>3, <3>4
  <2> QED
    BY <2>1, <2>4, <2>5, <2>6
<1> QED
  BY <1>1, <1>2, <1>3


-----------------------------------------------------------------------------
(* Insertions, assignments and shifts.                                     *)

LEMMA WholeParts ==
    ASSUME NEW S, NEW s \in Seq(S)
    PROVE  /\ UpTo(s, Len(s)) = s /\ UpTo(s, 0) = <<>>
           /\ Onward(s, 0) = s /\ Onward(s, Len(s)) = <<>>
<1>1. Len(s) \in Nat /\ 0 + 1 = 1 /\ 0 < 1 /\ Len(s) < Len(s) + 1
  BY LenProperties
<1>2. SubSeq(s, 1, Len(s)) = s /\ SubSeq(s, 1, 0) = <<>> /\ SubSeq(s, Len(s) + 1, Len(s)) = <<>>
  BY <1>1, SubSeqFull, SubSeqEmpty
<1> QED
  BY <1>1, <1>2 DEF UpTo, Onward, Between

(* Values inserted at an index, by splitting the vector, by inserting a    *)
(* slice, or by chaining iterators, are spliced there.                     *)
THEOREM InsertSlicesSplice ==
    ASSUME NEW S, Nil \in S, NEW s \in Seq(S), NEW index \in Nat, NEW values \in Seq(S)
    PROVE  /\ InsertSlice(s, index, values) = Spliced(s, index, 0, values)
           /\ SmallInsertSlice(s, index, values) = Spliced(s, index, 0, values)
           /\ TinyInsertSlice(s, index, values) = Spliced(s, index, 0, values)
<1> DEFINE grown == IF index > Len(s) THEN ResizeWith(s, index) ELSE s
<1>1. Len(s) \in Nat
  BY LenProperties
<1>2. CASE index >= Len(s)
  <2>1. /\ ResizeWith(s, index) \in Seq(S) /\ Len(ResizeWith(s, index)) = index
        /\ (index = Len(s) => ResizeWith(s, index) = s)
    BY Resized
  <2>2. grown = ResizeWith(s, index)
    BY <1>1, <1>2, <2>1
  <2> HIDE DEF grown
  <2>3. grown \in Seq(S) /\ Len(grown) = index
    BY <2>1, <2>2
  <2>4. grown \o values = Spliced(s, index, 0, values)
    BY <1>2, <2>2, SplicedBehind
  <2>5. InsertSlice(s, index, values) = grown \o values
    BY <1>2, <2>2 DEF InsertSlice
  <2>6. TinyInsertSlice(s, index, values) = grown \o values
    BY <2>3 DEF TinyInsertSlice, grown
  <2>7. SmallInsertSlice(s, index, values) = grown \o values
    <3>1. UpTo(grown, index) = grown /\ Onward(grown, index) = <<>>
      BY <2>3, WholeParts
    <3>2. grown \o values \in Seq(S)
      BY <2>3, ConcatProperties
    <3>3. SmallInsertSlice(s, index, values) = grown \o values \o <<>>
      BY <3>1 DEF SmallInsertSlice, InsertAt, grown
    <3> QED
      BY <3>2, <3>3, ConcatEmptySeq
  <2> QED
    BY <2>4, <2>5, <2>6, <2>7
<1>3. CASE index < Len(s)
  <2>1. /\ ~(index >= Len(s)) /\ ~(index > Len(s)) /\ ~(index = Len(s))
        /\ 0 \in Nat /\ index + 0 = index /\ index + 0 <= Len(s)
    BY <1>1, <1>3
  <2>2. Around(s, index, index + 0, values) = Spliced(s, index, 0, values)
    BY <2>1, SplicedWithin
  <2>3. Around(s, index, index, values) = Spliced(s, index, 0, values)
    BY <2>1, <2>2
  <2> QED
    BY <2>1, <2>3 DEF InsertSlice, SmallInsertSlice, TinyInsertSlice, InsertAt, Around
<1> QED
  BY <1>1, <1>2, <1>3

(* One value assigned to a range is spliced in, whether it is pushed,      *)
(* inserted, stored in place, or the rest of the range is drained.         *)
THEOREM SetWithDrainSplices ==
    ASSUME NEW S, Nil \in S, NEW s \in Seq(S), NEW start \in Nat, NEW drain \in Nat, NEW x \in S
    PROVE  SetWithDrain(s, start, drain, x)
              = Spliced(s, start, Drained(s, start, drain), <<x>>)
<1> DEFINE d == Drained(s, start, drain)
           v == <<x>>
           r == SetWithDrain(s, start, drain, x)
<1>1. Len(s) \in Nat /\ d \in Nat
  BY LenProperties, DrainedType
<1>2. v \in Seq(S) /\ Len(v) = 1 /\ v[1] = x
  OBVIOUS
<1>3. CASE start >= Len(s)
  <2>1. ResizeWith(s, start) \in Seq(S)
    BY Resized
  <2>2. r = ResizeWith(s, start) \o v
    BY <1>3, <2>1, AppendIsConcat DEF SetWithDrain
  <2>3. d = 0
    BY <1>3, DrainedType
  <2> HIDE DEF v
  <2>4. ResizeWith(s, start) \o v = Spliced(s, start, 0, v)
    BY <1>2, <1>3, SplicedBehind
  <2> QED
    BY <2>2, <2>3, <2>4 DEF v
<1>4. CASE start < Len(s)
  <2>1. ~(start >= Len(s)) /\ start <= Len(s)
    BY <1>1, <1>4
  <2>2. start + d <= Len(s)
    BY <2>1, DrainedType
  <2>3. Around(s, start, start + d, v) = Spliced(s, start, d, v)
    <3> HIDE DEF d, v
    <3> QED
      BY <1>1, <1>2, <2>2, SplicedWithin
  <2>4. CASE drain = 0
    <3>1. start + drain <= Len(s) /\ ~(drain = 1)
      BY <2>1, <2>4
    <3>2. d = 0 /\ start + d = start
      BY <2>4, <3>1, DrainedType
    <3>3. r = InsertAt(s, start, v)
      BY <2>1, <2>4, <3>1 DEF SetWithDrain
    <3> QED
      BY <2>3, <3>2, <3>3 DEF InsertAt, Around
  <2>5. CASE drain = 1
    <3>1. start + drain <= Len(s) /\ ~(drain = 0) /\ start + 1 \in 1..Len(s)
      BY <1>1, <1>4, <2>5
    <3>2. d = 1
      BY <2>5, <3>1, DrainedType
    <3> DEFINE t == [s EXCEPT ![start + 1] = x]
    <3>3. r = t
      BY <2>1, <2>5, <3>1 DEF SetWithDrain
    <3>4. /\ t \in Seq(S) /\ Len(t) = Len(s)
          /\ \A k \in 1..Len(s) : t[k] = IF k = start + 1 THEN x ELSE s[k]
      BY <3>1, ExceptSeq
    <3> HIDE DEF t, v
    <3>5. ASSUME NEW k \in 1..Len(s)
          PROVE  t[k] = SplicedAt(s, start, 1, v, k)
      <4>1. CASE k <= start
        <5>1. k # start + 1
          BY <4>1
        <5> QED
          BY <3>4, <4>1, <5>1 DEF SplicedAt
      <4>2. CASE k = start + 1
        <5>1. ~(k <= start) /\ k <= start + Len(v) /\ k - start = 1
          BY <1>2, <4>2
        <5> QED
          BY <1>2, <3>4, <4>2, <5>1 DEF SplicedAt
      <4>3. CASE k > start + 1
        <5>1. ~(k <= start) /\ ~(k <= start + Len(v)) /\ k # start + 1 /\ k - Len(v) + 1 = k
          BY <1>2, <4>3
        <5> QED
          BY <3>4, <5>1 DEF SplicedAt
      <4> QED
        BY <1>1, <4>1, <4>2, <4>3
    <3>6. Len(s) = SplicedLen(s, start, 1, v)
      BY <1>1, <1>2, <2>1 DEF SplicedLen
    <3>7. t \in Seq(S) /\ Len(t) = SplicedLen(s, start, 1, v)
          /\ \A k \in 1..Len(t) : t[k] = SplicedAt(s, start, 1, v, k)
      BY <3>4, <3>5, <3>6
    <3>8. t = Spliced(s, start, 1, v)
      BY <3>7, IsSpliced
    <3> QED
      BY <3>2, <3>3, <3>8 DEF v
  <2>6. CASE drain # 0 /\ drain # 1
    <3>1. start + d = Smaller(start + drain, Len(s))
      BY <1>1, <1>4 DEF Drained, Minus, Smaller
    <3>2. r = UpTo(s, start) \o v \o Onward(s, Smaller(start + drain, Len(s)))
      BY <2>1, <2>6 DEF SetWithDrain
    <3> QED
      BY <2>3, <3>1, <3>2 DEF Around
  <2> QED
    BY <2>4, <2>5, <2>6
<1> QED
  BY <1>1, <1>3, <1>4

(* Shifting from the Vec, which leaves, drains or splits by how many are   *)
(* asked for, and from the SmallVec, which drains as many as there are.    *)
THEOREM ShiftsAgree ==
    ASSUME NEW S, NEW s \in Seq(S), NEW n \in Nat
    PROVE  ShiftN(s, n) = SmallShiftN(s, n)
<1>1. Len(s) \in Nat
  BY LenProperties
<1>2. /\ UpTo(s, Len(s)) = s /\ UpTo(s, 0) = <<>>
      /\ Onward(s, 0) = s /\ Onward(s, Len(s)) = <<>>
  BY WholeParts
<1>3. CASE n = 0 /\ n < Len(s)
  BY <1>2, <1>3 DEF ShiftN, SmallShiftN
<1>4. CASE n = 0 /\ ~(n < Len(s))
  <2>1. Len(s) = 0
    BY <1>1, <1>4
  <2> QED
    BY <1>2, <1>4, <2>1 DEF ShiftN, SmallShiftN
<1>5. CASE n # 0
  BY <1>2, <1>5 DEF ShiftN, SmallShiftN
<1> QED
  BY <1>3, <1>4, <1>5


-----------------------------------------------------------------------------
(* The operators of ArrayOps, and the same under the name that Positions   *)
(* has for them.                                                           *)
LEMMA SamePieces ==
    ASSUME NEW s, NEW i, NEW j, NEW values
    PROVE  /\ Arrays!UpTo(s, i) = UpTo(s, i) /\ Arrays!Onward(s, i) = Onward(s, i)
           /\ Arrays!Between(s, i, j) = Between(s, i, j)
           /\ Arrays!ResizeWith(s, i) = ResizeWith(s, i)
           /\ Arrays!InsertAt(s, i, values) = InsertAt(s, i, values)
           /\ Arrays!WithoutRange(s, i, j) = WithoutRange(s, i, j)
           /\ Arrays!Overwrite(s, i, values) = Overwrite(s, i, values)
           /\ Arrays!Minus(i, j) = Minus(i, j) /\ Arrays!Smaller(i, j) = Smaller(i, j)
BY DEF Arrays!UpTo, Arrays!Onward, Arrays!Between, Arrays!ResizeWith, Arrays!InsertAt,
       Arrays!WithoutRange, Arrays!Overwrite, Arrays!Minus, Arrays!Smaller,
       UpTo, Onward, Between, ResizeWith, InsertAt, WithoutRange, Overwrite, Minus, Smaller

LEMMA SameReads ==
    ASSUME NEW s, NEW i, NEW n
    PROVE  /\ Arrays!Slice(s, i, n) = Slice(s, i, n)
           /\ Arrays!FirstN(s, n) = FirstN(s, n) /\ Arrays!DropN(s, n) = DropN(s, n)
           /\ Arrays!PopN(s, n) = PopN(s, n) /\ Arrays!SmallPopN(s, n) = SmallPopN(s, n)
           /\ Arrays!ShiftN(s, n) = ShiftN(s, n) /\ Arrays!SmallShiftN(s, n) = SmallShiftN(s, n)
BY SamePieces DEF Arrays!Slice, Arrays!FirstN, Arrays!DropN, Arrays!PopN, Arrays!SmallPopN,
       Arrays!ShiftN, Arrays!SmallShiftN, Slice, FirstN, DropN, PopN, SmallPopN, ShiftN, SmallShiftN

LEMMA SameWrites ==
    ASSUME NEW s, NEW i, NEW drain, NEW values, NEW x
    PROVE  /\ Arrays!Set(s, i, x) = Set(s, i, x)
           /\ Arrays!SetWithDrain(s, i, drain, x) = SetWithDrain(s, i, drain, x)
           /\ Arrays!Drained(s, i, drain) = Drained(s, i, drain)
           /\ Arrays!SetSlice(s, i, drain, values) = SetSlice(s, i, drain, values)
           /\ Arrays!SmallSetSlice(s, i, drain, values) = SmallSetSlice(s, i, drain, values)
           /\ Arrays!TinySetSlice(s, i, drain, values) = TinySetSlice(s, i, drain, values)
           /\ Arrays!InsertSlice(s, i, values) = InsertSlice(s, i, values)
           /\ Arrays!SmallInsertSlice(s, i, values) = SmallInsertSlice(s, i, values)
           /\ Arrays!TinyInsertSlice(s, i, values) = TinyInsertSlice(s, i, values)
<1>1. Arrays!Drained(s, i, drain) = Drained(s, i, drain)
  BY SamePieces DEF Arrays!Drained, Drained
<1>2. Arrays!Set(s, i, x) = Set(s, i, x)
  BY SamePieces DEF Arrays!Set, Set
<1>3. Arrays!SetWithDrain(s, i, drain, x) = SetWithDrain(s, i, drain, x)
  BY DEF Arrays!SetWithDrain, SetWithDrain, Arrays!Smaller, Smaller,
         Arrays!UpTo, Arrays!Onward, Arrays!Between, Arrays!ResizeWith, Arrays!InsertAt,
         UpTo, Onward, Between, ResizeWith, InsertAt
<1>4. Arrays!SetSlice(s, i, drain, values) = SetSlice(s, i, drain, values)
  BY <1>1, SamePieces DEF Arrays!SetSlice, SetSlice
<1>5. ASSUME NEW t PROVE Arrays!SmallReplace(t, i, drain, values) = SmallReplace(t, i, drain, values)
  BY DEF Arrays!SmallReplace, SmallReplace, Arrays!WithoutRange, WithoutRange,
         Arrays!Overwrite, Overwrite,
         Arrays!UpTo, Arrays!Onward, Arrays!Between, Arrays!ResizeWith, Arrays!InsertAt,
         UpTo, Onward, Between, ResizeWith, InsertAt
<1>6. Arrays!SmallSetSlice(s, i, drain, values) = SmallSetSlice(s, i, drain, values)
  BY <1>5 DEF Arrays!SmallSetSlice, SmallSetSlice,
         Arrays!UpTo, Arrays!Onward, Arrays!Between, Arrays!ResizeWith, Arrays!InsertAt,
         UpTo, Onward, Between, ResizeWith, InsertAt
<1>7. Arrays!TinySetSlice(s, i, drain, values) = TinySetSlice(s, i, drain, values)
  BY DEF Arrays!TinySetSlice, TinySetSlice, Arrays!Minus, Minus, Arrays!Smaller, Smaller,
         Arrays!UpTo, Arrays!Onward, Arrays!Between, Arrays!ResizeWith, Arrays!InsertAt,
         UpTo, Onward, Between, ResizeWith, InsertAt
<1>8. /\ Arrays!InsertSlice(s, i, values) = InsertSlice(s, i, values)
      /\ Arrays!SmallInsertSlice(s, i, values) = SmallInsertSlice(s, i, values)
      /\ Arrays!TinyInsertSlice(s, i, values) = TinyInsertSlice(s, i, values)
  BY SamePieces DEF Arrays!InsertSlice, InsertSlice, Arrays!SmallInsertSlice, SmallInsertSlice,
       Arrays!TinyInsertSlice, TinyInsertSlice
<1> QED
  BY <1>1, <1>2, <1>3, <1>4, <1>6, <1>7, <1>8

(* Inputs: an array of the run is a sequence of elements, as long as the   *)
(* assumption admits.                                                      *)
IsArray == subject = "arrays" => input \in Seq(Elem) /\ Len(input) \in 0..MaxInt

LEMMA ArraysOnly == Spec => []IsArray
<1>1. Init => IsArray
  BY InputsAssumption DEF Init, IsArray
<1>2. IsArray /\ [Extend]_vars => IsArray'
  <2> SUFFICES ASSUME IsArray, [Extend]_vars, subject' = "arrays"
               PROVE  input' \in Seq(Elem) /\ Len(input') \in 0..MaxInt
    BY DEF IsArray
  <2>1. CASE Extend
    <3>1. subject = "arrays" /\ Len(input) < Lengths["arrays"] /\ input \in Seq(Elem)
      BY <2>1 DEF Extend, IsArray
    <3>2. PICK x \in Elem : input' = Append(input, x)
      BY <2>1, <3>1, InputsAssumption DEF Extend
    <3>3. input' \in Seq(Elem) /\ Len(input') = Len(input) + 1
      BY <3>1, <3>2, AppendProperties
    <3> QED
      BY <3>1, <3>3, InputsAssumption, LenProperties
  <2>2. CASE UNCHANGED vars
    BY <2>2 DEF vars, IsArray
  <2> QED
    BY <2>1, <2>2
<1> QED
  BY <1>1, <1>2, PTL DEF Spec

LEMMA InsertedType ==
    ASSUME NEW V, NEW values \in Inserted(V)
    PROVE  values \in Seq(V) /\ Len(values) \in Nat
<1>1. PICK n \in 0..Given : values \in [1..n -> V]
  BY DEF Inserted
<1>2. n \in Nat
  OBVIOUS
<1> QED
  BY <1>1, <1>2, Listed

LEMMA DrainsTo ==
    ASSUME NEW S, NEW s \in Seq(S), NEW index \in Nat, NEW drain \in Nat
    PROVE  ToDrain(s, index, drain) = Drained(s, index, drain)
BY LenProperties DEF ToDrain, Least, Drained, Smaller, Minus

LEMMA PopsAgree ==
    ASSUME NEW s, NEW n
    PROVE  PopN(s, n) = SmallPopN(s, n)
BY DEF PopN, SmallPopN

(* The three Arrays do the same with every array and every values, at      *)
(* every index: SetSlice, InsertSlice and their like (vec, smallvec and    *)
(* tinyvec/mod.rs).                                                        *)
THEOREM BackendsAlwaysAgree == Spec => []BackendsAgree
<1>1. IsArray => BackendsAgree
  <2> SUFFICES ASSUME subject = "arrays", IsArray,
                      NEW index \in 0..(Len(input) + Beyond),
                      NEW drain \in 0..(Len(input) + Beyond), NEW values \in Inserted({Nil})
               PROVE  LET d == ToDrain(input, index, drain)
                          spliced == Spliced(input, index, d, values)
                      IN  /\ Arrays!SetSlice(input, index, drain, values) = spliced
                          /\ Arrays!Drained(input, index, drain) = d
                          /\ Arrays!SmallSetSlice(input, index, drain, values) =
                                [array |-> spliced, drained |-> d]
                          /\ Arrays!TinySetSlice(input, index, drain, values) =
                                [array |-> spliced, drained |-> d]
                          /\ drain = 0 =>
                                /\ Arrays!InsertSlice(input, index, values) = spliced
                                /\ Arrays!SmallInsertSlice(input, index, values) = spliced
                                /\ Arrays!TinyInsertSlice(input, index, values) = spliced
                          /\ Len(values) = 1 =>
                                Arrays!SetWithDrain(input, index, drain, values[1]) = spliced
                          /\ Arrays!PopN(input, drain) = Arrays!SmallPopN(input, drain)
                          /\ Arrays!ShiftN(input, drain) = Arrays!SmallShiftN(input, drain)
    BY DEF BackendsAgree
  <2> DEFINE S == Elem \cup {Nil}
             d == ToDrain(input, index, drain)
             spliced == Spliced(input, index, d, values)
  <2>1. input \in Seq(S) /\ Len(input) \in Nat /\ Nil \in S
    BY LenProperties DEF IsArray
  <2>2. values \in Seq(S) /\ (Len(values) = 1 => values[1] \in S /\ values = <<values[1]>>)
    <3>1. values \in Seq({Nil})
      BY InsertedType
    <3>2. values \in Seq(S)
      BY <3>1
    <3>3. ASSUME Len(values) = 1 PROVE values[1] \in S /\ values = <<values[1]>>
      <4>1. values[1] \in S
        BY <3>2, <3>3, ElementOfSeq
      <4>2. <<values[1]>> \in Seq(S) /\ Len(<<values[1]>>) = 1
        BY <4>1
      <4> QED
        BY <3>2, <3>3, <4>1, <4>2, SeqEqual
    <3> QED
      BY <3>2, <3>3
  <2>3. index \in Nat /\ drain \in Nat
    BY <2>1, InputsAssumption
  <2> HIDE DEF S
  <2>4. d = Drained(input, index, drain)
    BY <2>1, <2>3, DrainsTo
  <2>5. drain = 0 => d = 0
    BY <2>1, <2>3, <2>4 DEF Drained, Minus, Smaller
  <2> HIDE DEF d
  <2>6. SetSlice(input, index, drain, values) = spliced
    BY <2>1, <2>2, <2>3, <2>4, SetSliceSplices
  <2>7. SmallSetSlice(input, index, drain, values) = [array |-> spliced, drained |-> d]
    BY <2>1, <2>2, <2>3, <2>4, SmallSetSliceSplices
  <2>8. TinySetSlice(input, index, drain, values) = [array |-> spliced, drained |-> d]
    BY <2>1, <2>2, <2>3, <2>4, TinySetSliceSplices
  <2>9. drain = 0 => /\ InsertSlice(input, index, values) = spliced
                     /\ SmallInsertSlice(input, index, values) = spliced
                     /\ TinyInsertSlice(input, index, values) = spliced
    BY <2>1, <2>2, <2>3, <2>5, InsertSlicesSplice
  <2>10. Len(values) = 1 => SetWithDrain(input, index, drain, values[1]) = spliced
    BY <2>1, <2>2, <2>3, <2>4, SetWithDrainSplices
  <2>11. ShiftN(input, drain) = SmallShiftN(input, drain)
    BY <2>1, <2>3, ShiftsAgree
  <2> HIDE DEF spliced
  <2>12. QED
    BY <2>4, <2>6, <2>7, <2>8, <2>9, <2>10, <2>11, PopsAgree, SameReads, SameWrites DEF spliced, d
<1> QED
  BY <1>1, ArraysOnly, PTL

-----------------------------------------------------------------------------
(* The two Times.                                                          *)

(* The numbers of the code are 10^9 nanoseconds, an i64, and years that    *)
(* are an i32. That a power of ten is positive is not known to the         *)
(* provers.                                                                *)
TimeNumbers ==
    /\ NanosInSecond \in Nat \ {0}
    /\ MaxInt \in Nat /\ MaxTz \in Nat /\ 2 * MaxTz < MaxInt

Total(sec, nano) == sec * NanosInSecond + nano

LEMMA Products ==
    ASSUME NEW n \in Nat \ {0}, NEW a \in Int, NEW b \in Int
    PROVE  /\ a * n \in Int /\ (a + b) * n = a * n + b * n /\ (a - b) * n = a * n - b * n
           /\ a <= b => a * n <= b * n
           /\ (a + 1) * n = a * n + n /\ (a - 1) * n = a * n - n
<1>1. a * n \in Int /\ b * n \in Int
  OBVIOUS
<1>2. (a + b) * n = a * n + b * n /\ (a - b) * n = a * n - b * n
  OBVIOUS
<1>3. ASSUME a <= b PROVE a * n <= b * n
  <2>1. (b - a) * n >= 0
    BY <1>3
  <2>2. (b - a) * n = b * n - a * n
    OBVIOUS
  <2> QED
    BY <1>1, <2>1, <2>2
<1>4. (a + 1) * n = a * n + n /\ (a - 1) * n = a * n - n
  OBVIOUS
<1> QED
  BY <1>1, <1>2, <1>3, <1>4

(* There is one way to write an instant, but for where a second is full.   *)
LEMMA OneInstant ==
    ASSUME NanosInSecond \in Nat \ {0}, NEW a \in Int, NEW b \in Int, NEW x \in Int, NEW y \in Int,
           Total(a, x) = Total(b, y), -NanosInSecond < x - y, x - y < 2 * NanosInSecond
    PROVE  \/ a = b /\ x = y
           \/ a = b - 1 /\ x = y + NanosInSecond
<1> DEFINE n == NanosInSecond
<1>1. n \in Nat \ {0} /\ a * n + x = b * n + y
  BY DEF Total
<1>2. a * n \in Int /\ b * n \in Int
  BY <1>1, Products
<1>3. a <= b
  <2>1. SUFFICES ASSUME b + 1 <= a PROVE FALSE
    OBVIOUS
  <2>2. (b + 1) * n <= a * n /\ (b + 1) * n = b * n + n
    BY <1>1, <2>1, Products
  <2> QED
    BY <1>1, <1>2, <2>2
<1>4. b - 1 <= a
  <2>1. SUFFICES ASSUME a <= b - 2 PROVE FALSE
    OBVIOUS
  <2>2. (a + 1) * n = a * n + n /\ (b - 1) * n = b * n - n /\ (a + 1) * n <= (b - 1) * n
    BY <1>1, <2>1, Products
  <2> QED
    BY <1>1, <1>2, <2>2
<1>5. CASE a = b
  BY <1>1, <1>2, <1>5
<1>6. CASE a = b - 1
  <2>1. a * n = b * n - n
    BY <1>1, <1>6, Products
  <2> QED
    BY <1>1, <1>2, <1>6, <2>1
<1> QED
  BY <1>3, <1>4, <1>5, <1>6

(* Division truncates towards zero, and the remainder has the sign of what *)
(* is divided.                                                             *)
LEMMA Divided ==
    ASSUME NEW n \in Int, NEW d \in Nat \ {0}
    PROVE  /\ Quotient(n, d) \in Int /\ Remainder(n, d) \in Int
           /\ n = Quotient(n, d) * d + Remainder(n, d)
           /\ n >= 0 => 0 <= Remainder(n, d) /\ Remainder(n, d) < d /\ Quotient(n, d) >= 0
           /\ n <= 0 => -d < Remainder(n, d) /\ Remainder(n, d) <= 0 /\ Quotient(n, d) <= 0
<1>1. ASSUME NEW m \in Nat
      PROVE  /\ m \div d \in Nat /\ m = d * (m \div d) + (m % d)
             /\ 0 <= m % d /\ m % d < d /\ m % d \in Int
  OBVIOUS
<1>2. CASE n >= 0
  <2>1. n \in Nat /\ Quotient(n, d) = n \div d
    BY <1>2 DEF Quotient
  <2> QED
    BY <1>1, <1>2, <2>1 DEF Remainder
<1>3. CASE n < 0
  <2>1. -n \in Nat /\ Quotient(n, d) = -((-n) \div d)
    BY <1>3 DEF Quotient
  <2> DEFINE q == (-n) \div d
  <2>2. q \in Nat /\ -n = d * q + ((-n) % d) /\ 0 <= (-n) % d /\ (-n) % d < d /\ (-n) % d \in Int
    BY <1>1, <2>1
  <2> HIDE DEF q
  <2>3. Remainder(n, d) = n - d * (-q) /\ d * (-q) = -(d * q) /\ d * q \in Int
    BY <2>1, <2>2 DEF Remainder, q
  <2>4. Quotient(n, d) = -q /\ (-q) * d = -(d * q)
    BY <2>1, <2>2 DEF q
  <2> QED
    BY <1>3, <2>2, <2>3, <2>4
<1> QED
  BY <1>2, <1>3

(* Time::at on chrono, which Time.now and Time.at use: the instant it      *)
(* returns is exactly as many nanoseconds after the epoch as it was told   *)
(* to be, in the second it is in, or it says that there is none; for the   *)
(* instants that are not whole seconds (At differs from its comments for   *)
(* those that are).                                                        *)
THEOREM AtIsExact ==
    ASSUME TimeNumbers, NEW seconds \in Int, Fits(seconds), NEW nanos \in Int,
           NEW sec \in Int, NEW nano \in 1..(NanosInSecond - 1),
           Total(sec, nano) = Total(seconds, nanos)
    PROVE  At(seconds, nanos) = IF Fits(sec) THEN Some(sec, nano) ELSE OutOfRange
<1> DEFINE n == NanosInSecond
           q == Quotient(nanos, n)
           r == Remainder(nanos, n)
           carried == seconds + q
<1>1. n \in Nat \ {0} /\ MaxInt \in Nat /\ nano \in Int /\ 0 < nano /\ nano < n
  BY DEF TimeNumbers
<1>2. /\ q \in Int /\ r \in Int /\ nanos = q * n + r
      /\ nanos >= 0 => 0 <= r /\ r < n /\ q >= 0
      /\ nanos <= 0 => -n < r /\ r <= 0 /\ q <= 0
  BY <1>1, Divided
<1>3. At(seconds, nanos) =
          IF ~Fits(carried) THEN OutOfRange
          ELSE IF r > 0 THEN Some(carried, r)
          ELSE IF ~Fits(carried - 1) THEN OutOfRange
          ELSE Some(carried - 1, n + r)
  BY DEF At
<1> HIDE DEF q, r
<1>4. carried \in Int /\ Total(carried, r) = Total(sec, nano)
  <2>1. (seconds + q) * n = seconds * n + q * n /\ seconds * n \in Int /\ q * n \in Int
    BY <1>1, <1>2, Products
  <2>2. Total(carried, r) = seconds * n + q * n + r
    BY <2>1 DEF Total
  <2>3. Total(seconds, nanos) = seconds * n + nanos
    BY DEF Total
  <2> QED
    BY <1>2, <2>1, <2>2, <2>3
<1>5. CASE r > 0
  <2>1. -n < r - nano /\ r - nano < 2 * n /\ r < n
    BY <1>1, <1>2, <1>5
  <2>2. carried = sec /\ r = nano
    <3>1. \/ carried = sec /\ r = nano
          \/ carried = sec - 1 /\ r = nano + n
      BY <1>1, <1>2, <1>4, <2>1, OneInstant
    <3> QED
      BY <1>1, <1>2, <2>1, <3>1
  <2> QED
    BY <1>3, <1>5, <2>2
<1>6. CASE ~(r > 0)
  <2>1. r <= 0 /\ -n < r
    BY <1>1, <1>2, <1>6
  <2>2. Total(carried - 1, n + r) = Total(sec, nano)
    <3>1. (carried - 1) * n = carried * n - n /\ carried * n \in Int
      BY <1>1, <1>4, Products
    <3>2. Total(carried - 1, n + r) = (carried - 1) * n + (n + r) /\ Total(carried, r) = carried * n + r
      BY DEF Total
    <3>3. (carried - 1) * n + (n + r) = carried * n + r
      BY <1>1, <1>2, <3>1
    <3> QED
      BY <1>4, <3>2, <3>3
  <2>3. \/ carried - 1 = sec /\ n + r = nano
        \/ carried - 1 = sec - 1 /\ n + r = nano + n
    <3>1. -n < (n + r) - nano /\ (n + r) - nano < 2 * n
      BY <1>1, <1>2, <2>1
    <3>2. carried - 1 \in Int /\ n + r \in Int
      BY <1>1, <1>2, <1>4
    <3> QED
      BY <1>1, <2>2, <3>1, <3>2, OneInstant
  <2>4. CASE carried - 1 = sec /\ n + r = nano
    <3>1. nano > 0 /\ r < 0 /\ carried = sec + 1
      BY <1>1, <1>2, <1>4, <2>1, <2>4
    <3>2. q <= 0
      BY <1>2, <3>1
    <3>3. Fits(sec) => Fits(carried)
      BY <1>1, <1>2, <3>1, <3>2 DEF Fits
    <3> QED
      BY <1>3, <1>6, <2>4, <3>1, <3>3
  <2>5. ~(carried - 1 = sec - 1 /\ n + r = nano + n)
    BY <1>1, <1>2, <2>1
  <2> QED
    BY <2>3, <2>4, <2>5
<1> QED
  BY <1>5, <1>6

(* Times are in order as their instants are, as long as a whole second is  *)
(* written one way in both: with no nanoseconds, or with them full, as     *)
(* Time.at leaves them.                                                    *)
THEOREM CmpIsTheOrder ==
    ASSUME TimeNumbers, NEW t, NEW u, t.sec \in Int, u.sec \in Int,
           t.nano \in 0..NanosInSecond, u.nano \in 0..NanosInSecond,
           ~(t.nano = 0 /\ u.nano = NanosInSecond), ~(t.nano = NanosInSecond /\ u.nano = 0)
    PROVE  /\ Cmp(t, u) = 1 <=> Total(u.sec, u.nano) < Total(t.sec, t.nano)
           /\ Cmp(t, u) = 0 <=> Total(u.sec, u.nano) = Total(t.sec, t.nano)
           /\ Cmp(t, u) = -1 <=> Total(t.sec, t.nano) < Total(u.sec, u.nano)
<1> DEFINE n == NanosInSecond
<1>1. /\ n \in Nat \ {0} /\ t.nano \in Int /\ u.nano \in Int
      /\ t.nano - u.nano < n /\ u.nano - t.nano < n
  BY DEF TimeNumbers
<1>2. ASSUME NEW a \in Int, NEW b \in Int, NEW x \in Int, NEW y \in Int, a < b, x - y < n
      PROVE  Total(a, x) < Total(b, y)
  <2>1. (a + 1) * n <= b * n /\ (a + 1) * n = a * n + n /\ a * n \in Int /\ b * n \in Int
    <3>1. a + 1 \in Int /\ a + 1 <= b
      BY <1>2
    <3>2. (a + 1) * n <= b * n
      BY <1>1, <3>1, Products
    <3> QED
      BY <1>1, <3>2, Products
  <2>2. a * n + x < b * n + y
    BY <1>1, <1>2, <2>1
  <2> QED
    BY <2>2 DEF Total
<1>3. Total(t.sec, t.nano) \in Int /\ Total(u.sec, u.nano) \in Int
  BY <1>1, Products DEF Total
<1>4. CASE t.sec > u.sec
  <2>1. Cmp(t, u) = 1
    BY <1>4 DEF Cmp
  <2>2. Total(u.sec, u.nano) < Total(t.sec, t.nano)
    BY <1>1, <1>2, <1>4
  <2> QED
    BY <1>3, <2>1, <2>2
<1>5. CASE t.sec < u.sec
  <2>1. Cmp(t, u) = -1
    BY <1>5 DEF Cmp
  <2>2. Total(t.sec, t.nano) < Total(u.sec, u.nano)
    BY <1>1, <1>2, <1>5
  <2> QED
    BY <1>3, <2>1, <2>2
<1>6. CASE t.sec = u.sec
  <2>1. Cmp(t, u) = IF t.nano > u.nano THEN 1 ELSE IF t.nano < u.nano THEN -1 ELSE 0
    BY <1>6 DEF Cmp
  <2>2. PICK c \in Int : c = t.sec * n
    BY <1>1, Products
  <2>3. Total(t.sec, t.nano) = c + t.nano /\ Total(u.sec, u.nano) = c + u.nano
    BY <1>6, <2>2 DEF Total
  <2> QED
    BY <1>1, <2>1, <2>2, <2>3
<1> QED
  BY <1>4, <1>5, <1>6


(* A number that is in a word is not changed when it is wrapped, and the   *)
(* one past either end becomes the other end.                              *)
LEMMA RemainderIs ==
    ASSUME NEW n \in Nat \ {0}, NEW q \in Int, NEW r \in Int, 0 <= r, r < n, NEW x \in Int,
           x = q * n + r
    PROVE  x % n = r
<1> DEFINE p == x \div n
           s == x % n
<1>1. p \in Int /\ s \in Int /\ 0 <= s /\ s < n /\ x = n * p + s
  OBVIOUS
<1> HIDE DEF p, s
<1>2. n * p = p * n /\ p * n \in Int /\ q * n \in Int /\ p * n + s = q * n + r
  <2>1. n * p = p * n /\ p * n \in Int /\ q * n \in Int
    BY <1>1
  <2> QED
    BY <1>1, <2>1
<1>3. ~(p + 1 <= q)
  <2>1. SUFFICES ASSUME p + 1 <= q PROVE FALSE
    OBVIOUS
  <2>2. p + 1 \in Int
    BY <1>1
  <2>3. (p + 1) * n <= q * n
    BY <2>1, <2>2, Products
  <2>4. (p + 1) * n = p * n + n
    BY <1>1, Products
  <2> QED
    BY <1>1, <1>2, <2>3, <2>4
<1>4. ~(q + 1 <= p)
  <2>1. SUFFICES ASSUME q + 1 <= p PROVE FALSE
    OBVIOUS
  <2>2. q + 1 \in Int
    BY <1>1
  <2>3. (q + 1) * n <= p * n
    BY <1>1, <2>1, <2>2, Products
  <2>4. (q + 1) * n = q * n + n
    BY <1>1, Products
  <2> QED
    BY <1>1, <1>2, <2>3, <2>4
<1>5. p = q
  BY <1>1, <1>3, <1>4
<1> QED
  BY <1>1, <1>2, <1>5 DEF s

LEMMA WrappedIs ==
    ASSUME MaxInt \in Nat, NEW k \in Int
    PROVE  /\ Fits(k) => Wrapping(k) = k
           /\ k = MaxInt + 1 => Wrapping(k) = -MaxInt - 1
           /\ k = -MaxInt - 2 => Wrapping(k) = MaxInt
<1> DEFINE n == 2 * MaxInt + 2
           x == k + MaxInt + 1
<1>1. n \in Nat \ {0} /\ x \in Int /\ Wrapping(k) = (x % n) - MaxInt - 1
  BY DEF Wrapping
<1>2. CASE Fits(k)
  <2>1. 0 <= x /\ x < n /\ x = 0 * n + x
    BY <1>1, <1>2 DEF Fits
  <2> HIDE DEF x, n
  <2>2. x % n = x
    BY <1>1, <2>1, RemainderIs
  <2> QED
    BY <1>1, <1>2, <2>2 DEF x, n, Fits
<1>3. CASE k = MaxInt + 1
  <2>1. x = 1 * n + 0 /\ 0 < n
    BY <1>1, <1>3
  <2> HIDE DEF x, n
  <2>2. x % n = 0
    BY <1>1, <2>1, RemainderIs
  <2> QED
    BY <1>1, <1>3, <2>2 DEF x, n, Fits
<1>4. CASE k = -MaxInt - 2
  <2>1. x = (-1) * n + (n - 1) /\ 0 <= n - 1 /\ n - 1 < n /\ n - 1 \in Int /\ -1 \in Int
    BY <1>1, <1>4
  <2> HIDE DEF x, n
  <2>2. x % n = n - 1
    BY <1>1, <2>1, RemainderIs
  <2> QED
    BY <1>1, <1>4, <2>2 DEF x, n, Fits
<1> QED
  BY <1>2, <1>3, <1>4

(* Time - Time is the distance of the instants, full seconds or not, where *)
(* the seconds are an i64 and so is what is borrowed from them.            *)
THEOREM DifferenceIsExact ==
    ASSUME TimeNumbers, NEW t, NEW u, t.sec \in Int, u.sec \in Int,
           t.nano \in 0..NanosInSecond, u.nano \in 0..NanosInSecond,
           Fits(t.sec - u.sec), Fits(t.sec - u.sec - 1)
    PROVE  Difference(t, u) = Total(t.sec, t.nano) - Total(u.sec, u.nano)
<1> DEFINE n == NanosInSecond
           s == t.sec - u.sec
<1>1. n \in Nat \ {0} /\ MaxInt \in Nat /\ t.nano \in Int /\ u.nano \in Int /\ s \in Int
  BY DEF TimeNumbers
<1>2. Wrapping(s) = s /\ Wrapping(s - 1) = s - 1
  <2>1. Fits(s) /\ Fits(s - 1) /\ s - 1 \in Int
    BY <1>1
  <2> HIDE DEF s
  <2> QED
    BY <1>1, <2>1, WrappedIs
<1>3. PICK a \in Int, b \in Int : a = t.sec * n /\ b = u.sec * n
  BY <1>1, Products
<1>4. s * n = a - b /\ (s - 1) * n = a - b - n
  <2>1. s * n = a - b
    BY <1>1, <1>3, Products
  <2>2. (s - 1) * n = s * n - n
    BY <1>1, Products
  <2> QED
    BY <2>1, <2>2
<1>5. Total(t.sec, t.nano) = a + t.nano /\ Total(u.sec, u.nano) = b + u.nano
  BY <1>3 DEF Total
<1>6. CASE u.nano <= t.nano
  <2>1. Difference(t, u) = s * n + (t.nano - u.nano)
    BY <1>2, <1>6 DEF Difference
  <2> QED
    BY <1>1, <1>4, <1>5, <2>1
<1>7. CASE ~(u.nano <= t.nano)
  <2>1. Difference(t, u) = (s - 1) * n + (n - (u.nano - t.nano))
    BY <1>2, <1>7 DEF Difference
  <2> QED
    BY <1>1, <1>4, <1>5, <2>1
<1> QED
  BY <1>6, <1>7

(* The instants that the Time of tz-rs holds, and the lengths of time.     *)
TzTime == [sec : -MaxTz..MaxTz, nano : 0..(NanosInSecond - 1)]
Duration == [secs : Nat, nanos : 0..(NanosInSecond - 1)]

(* checked_sub: no overflow of an i64 and no borrowed second is lost. The  *)
(* result is the instant that much earlier, or it is out of range.         *)
THEOREM CheckedSubIsExact ==
    ASSUME TimeNumbers, NEW t \in TzTime, NEW d \in Duration,
           NEW sec \in Int, NEW nano \in 0..(NanosInSecond - 1),
           Total(sec, nano) = Total(t.sec - d.secs, t.nano - d.nanos)
    PROVE  CheckedSub(t, d) = FromTimespec(sec, nano)
<1> DEFINE n == NanosInSecond
           s == t.sec - d.secs
           x == t.nano - d.nanos
<1>1. /\ n \in Nat \ {0} /\ MaxInt \in Nat /\ MaxTz \in Nat /\ 2 * MaxTz < MaxInt
      /\ nano \in Int /\ 0 <= nano /\ nano < n
      /\ t.sec \in Int /\ -MaxTz <= t.sec /\ t.sec <= MaxTz /\ t.nano \in Int /\ 0 <= t.nano /\ t.nano < n
      /\ d.secs \in Int /\ 0 <= d.secs /\ d.nanos \in Int /\ 0 <= d.nanos /\ d.nanos < n
  BY DEF TimeNumbers, TzTime, Duration
<1>2. s \in Int /\ x \in Int /\ -n < x /\ x < n /\ s <= MaxTz
  BY <1>1
<1>3. CheckedSub(t, d) =
          IF ~Fits(d.secs) \/ ~Fits(s) THEN OutOfRange
          ELSE IF d.nanos <= t.nano THEN FromTimespec(s, x)
          ELSE FromTimespec(Wrapping(s - 1), t.nano + n - d.nanos)
  BY DEF CheckedSub
<1>4. \/ s = sec /\ x = nano
      \/ s = sec + 1 /\ nano = x + n
  <2>1. -n < nano - x /\ nano - x < 2 * n /\ Total(sec, nano) = Total(s, x)
    BY <1>1, <1>2
  <2> HIDE DEF s, x
  <2>2. \/ sec = s /\ nano = x
        \/ sec = s - 1 /\ nano = x + n
    BY <1>1, <1>2, <2>1, OneInstant
  <2> QED
    BY <1>2, <2>2
<1>5. CASE ~Fits(d.secs) \/ ~Fits(s)
  <2>1. sec < -MaxTz
    BY <1>1, <1>4, <1>5 DEF Fits
  <2> QED
    BY <1>1, <1>3, <1>5, <2>1 DEF FromTimespec
<1>6. CASE Fits(d.secs) /\ Fits(s) /\ s = sec /\ x = nano
  <2>1. d.nanos <= t.nano
    BY <1>1, <1>6
  <2> QED
    BY <1>3, <1>6, <2>1
<1>7. CASE Fits(d.secs) /\ Fits(s) /\ s = sec + 1 /\ nano = x + n
  <2>1. ~(d.nanos <= t.nano) /\ t.nano + n - d.nanos = nano /\ s - 1 = sec
    BY <1>1, <1>2, <1>7
  <2>2. CheckedSub(t, d) = FromTimespec(Wrapping(sec), nano)
    BY <1>3, <1>7, <2>1
  <2>3. CASE Fits(sec)
    BY <1>1, <2>2, <2>3, WrappedIs
  <2>4. CASE ~Fits(sec)
    <3>1. sec = -MaxInt - 2
      BY <1>1, <1>7, <2>4 DEF Fits
    <3>2. Wrapping(sec) = MaxInt
      BY <1>1, <3>1, WrappedIs
    <3>3. sec < -MaxTz /\ MaxTz < MaxInt
      BY <1>1, <3>1
    <3> QED
      BY <1>1, <2>2, <3>2, <3>3 DEF FromTimespec
  <2> QED
    BY <2>3, <2>4
<1> QED
  BY <1>4, <1>5, <1>6, <1>7

(* checked_add carries a second only when there is more than one: where    *)
(* the nanoseconds come to exactly one, they are left full in the second   *)
(* before. Otherwise the result is the instant that much later, or it is   *)
(* out of range.                                                           *)
THEOREM CheckedAddIsExact ==
    ASSUME TimeNumbers, NEW t \in TzTime, NEW d \in Duration,
           NEW sec \in Int, NEW nano \in 0..(NanosInSecond - 1),
           Total(sec, nano) = Total(t.sec + d.secs, t.nano + d.nanos)
    PROVE  /\ t.nano + d.nanos # NanosInSecond => CheckedAdd(t, d) = FromTimespec(sec, nano)
           /\ t.nano + d.nanos = NanosInSecond =>
                  CheckedAdd(t, d) = FromTimespec(sec - 1, NanosInSecond)
<1> DEFINE n == NanosInSecond
           s == t.sec + d.secs
           x == t.nano + d.nanos
<1>1. /\ n \in Nat \ {0} /\ MaxInt \in Nat /\ MaxTz \in Nat /\ 2 * MaxTz < MaxInt
      /\ nano \in Int /\ 0 <= nano /\ nano < n
      /\ t.sec \in Int /\ -MaxTz <= t.sec /\ t.sec <= MaxTz /\ t.nano \in Int /\ 0 <= t.nano /\ t.nano < n
      /\ d.secs \in Int /\ 0 <= d.secs /\ d.nanos \in Int /\ 0 <= d.nanos /\ d.nanos < n
  BY DEF TimeNumbers, TzTime, Duration
<1>2. s \in Int /\ x \in Int /\ 0 <= x /\ x < 2 * n /\ -MaxTz <= s
  BY <1>1
<1>3. CheckedAdd(t, d) =
          IF ~Fits(d.secs) \/ ~Fits(s) THEN OutOfRange
          ELSE IF x > n THEN FromTimespec(Wrapping(s + 1), x - n)
          ELSE FromTimespec(s, x)
  BY DEF CheckedAdd
<1>4. \/ sec = s /\ nano = x
      \/ sec = s + 1 /\ x = nano + n
  <2>1. -n < x - nano /\ x - nano < 2 * n /\ Total(s, x) = Total(sec, nano)
    BY <1>1, <1>2
  <2> HIDE DEF s, x
  <2>2. \/ s = sec /\ x = nano
        \/ s = sec - 1 /\ x = nano + n
    BY <1>1, <1>2, <2>1, OneInstant
  <2> QED
    BY <1>2, <2>2
<1>5. CASE ~Fits(d.secs) \/ ~Fits(s)
  <2>1. MaxTz < s /\ s <= sec /\ sec - 1 <= s
    BY <1>1, <1>2, <1>4, <1>5 DEF Fits
  <2>2. MaxTz < sec /\ (x = n => MaxTz < sec - 1)
    BY <1>1, <1>2, <1>4, <2>1
  <2>3. CheckedAdd(t, d) = OutOfRange /\ sec \notin -MaxTz..MaxTz
    BY <1>1, <1>3, <1>5, <2>2
  <2>4. x = n => sec - 1 \notin -MaxTz..MaxTz
    BY <1>1, <2>2
  <2> QED
    BY <2>3, <2>4 DEF FromTimespec
<1>6. CASE Fits(d.secs) /\ Fits(s) /\ sec = s /\ nano = x
  <2>1. ~(x > n) /\ x # n
    BY <1>1, <1>6
  <2> QED
    BY <1>3, <1>6, <2>1
<1>7. CASE Fits(d.secs) /\ Fits(s) /\ sec = s + 1 /\ x = nano + n
  <2>1. CASE x = n
    <3>1. ~(x > n) /\ s = sec - 1
      BY <1>1, <1>2, <1>7, <2>1
    <3> QED
      BY <1>3, <1>7, <2>1, <3>1
  <2>2. CASE x # n
    <3>1. x > n /\ x - n = nano
      BY <1>1, <1>2, <1>7, <2>2
    <3>2. CheckedAdd(t, d) = FromTimespec(Wrapping(sec), nano)
      BY <1>3, <1>7, <3>1
    <3>3. CASE Fits(sec)
      BY <1>1, <2>2, <3>2, <3>3, WrappedIs
    <3>4. CASE ~Fits(sec)
      <4>1. sec = MaxInt + 1
        BY <1>1, <1>2, <1>7, <3>4 DEF Fits
      <4>2. Wrapping(sec) = -MaxInt - 1
        BY <1>1, <4>1, WrappedIs
      <4>3. MaxTz < sec /\ -MaxInt - 1 < -MaxTz
        BY <1>1, <4>1
      <4> QED
        BY <1>1, <2>2, <3>2, <4>2, <4>3 DEF FromTimespec
    <3> QED
      BY <3>3, <3>4
  <2> QED
    BY <2>1, <2>2
<1> QED
  BY <1>4, <1>5, <1>6, <1>7


(* So too when what is added or taken away is any i64, of either sign: no  *)
(* negation overflows.                                                     *)
THEOREM WholeSecondsAreExact ==
    ASSUME TimeNumbers, NEW t \in TzTime, NEW k \in Int, Fits(k)
    PROVE  /\ CheckedAddInt(t, k) = FromTimespec(t.sec + k, t.nano)
           /\ CheckedSubInt(t, k) = FromTimespec(t.sec - k, t.nano)
<1>1. /\ NanosInSecond \in Nat \ {0} /\ MaxInt \in Nat /\ MaxTz \in Nat /\ 2 * MaxTz < MaxInt
      /\ t.sec \in -MaxTz..MaxTz /\ t.nano \in 0..(NanosInSecond - 1)
  BY DEF TimeNumbers, TzTime
<1>2. ASSUME NEW m \in Nat
      PROVE  /\ CheckedAdd(t, FromSecs(m)) = FromTimespec(t.sec + m, t.nano)
             /\ CheckedSub(t, FromSecs(m)) = FromTimespec(t.sec - m, t.nano)
  <2> DEFINE d == FromSecs(m)
  <2>1. d \in Duration /\ d.secs = m /\ d.nanos = 0
    BY <1>1 DEF FromSecs, Duration
  <2>2. /\ t.sec + m \in Int /\ t.sec - m \in Int
        /\ t.nano + d.nanos = t.nano /\ t.nano - d.nanos = t.nano /\ t.nano # NanosInSecond
    BY <1>1, <2>1
  <2>3. CheckedSub(t, d) = FromTimespec(t.sec - m, t.nano)
    <3>1. Total(t.sec - m, t.nano) = Total(t.sec - d.secs, t.nano - d.nanos)
      BY <2>1, <2>2
    <3> HIDE DEF d
    <3> QED
      BY <1>1, <2>1, <2>2, <3>1, CheckedSubIsExact
  <2>4. CheckedAdd(t, d) = FromTimespec(t.sec + m, t.nano)
    <3>1. Total(t.sec + m, t.nano) = Total(t.sec + d.secs, t.nano + d.nanos)
      BY <2>1, <2>2
    <3> HIDE DEF d
    <3> QED
      BY <1>1, <2>1, <2>2, <3>1, CheckedAddIsExact
  <2> QED
    BY <2>3, <2>4
<1>3. CASE k >= 0
  <2>1. k \in Nat
    BY <1>3
  <2> QED
    BY <1>2, <1>3, <2>1 DEF CheckedAddInt, CheckedSubInt
<1>4. CASE k < 0 /\ Fits(-k)
  <2>1. -k \in Nat /\ t.sec + (-k) = t.sec - k /\ t.sec - (-k) = t.sec + k /\ ~(k >= 0)
    BY <1>1, <1>4
  <2>2. /\ CheckedAdd(t, FromSecs(-k)) = FromTimespec(t.sec + (-k), t.nano)
        /\ CheckedSub(t, FromSecs(-k)) = FromTimespec(t.sec - (-k), t.nano)
    BY <1>2, <2>1
  <2> QED
    BY <1>4, <2>1, <2>2 DEF CheckedAddInt, CheckedSubInt
<1>5. CASE k < 0 /\ ~Fits(-k)
  <2>1. k = -MaxInt - 1
    BY <1>1, <1>5 DEF Fits
  <2>2. t.sec + k \notin -MaxTz..MaxTz /\ t.sec - k \notin -MaxTz..MaxTz /\ ~(k >= 0)
    BY <1>1, <2>1
  <2> QED
    BY <1>5, <2>2 DEF CheckedAddInt, CheckedSubInt, FromTimespec
<1> QED
  BY <1>3, <1>4, <1>5


-----------------------------------------------------------------------------
(* Threads.                                                                *)

Thread == Nat \ {0}
Frame == [of : Thread, aborts : BOOLEAN, holds : {{}} \cup {{m} : m \in Mutex}]

ThreadsType(th) ==
    th \in [stack : Seq(Thread), made : Thread, frames : Seq(Frame), owner : [Mutex -> Nat],
            unwind : SUBSET Nat, terminated : SUBSET Nat, outcome : Outcomes]

(* The rank of a frame is the height of the stack while its block is the   *)
(* innermost: a Thread's block stands on one more than what is around it.  *)
Ranks(frames, rank) ==
    /\ rank \in [0..Len(frames) -> Thread] /\ rank[0] = 1
    /\ \A i \in 1..Len(frames) :
          rank[i] = IF frames[i].holds = {} THEN rank[i - 1] + 1 ELSE rank[i - 1]
    /\ \A i, j \in 0..Len(frames) : i <= j => rank[i] <= rank[j]

(* The stack is the main thread and those whose blocks are in progress, in *)
(* their order, and each block is of the thread that is on top for it.     *)
Stacked(stack, frames) ==
    \E rank \in [0..Len(frames) -> Thread] :
        /\ Ranks(frames, rank)
        /\ rank[Len(frames)] = Len(stack) /\ stack[1] = Main
        /\ \A i \in 1..Len(frames) : frames[i].of = stack[rank[i]]

(* What owns a Mutex is in one of its sections.                            *)
OwnersHold(owner, frames) ==
    \A m \in Mutex : owner[m] # Nobody =>
        \E i \in 1..Len(frames) : frames[i].holds = {m} /\ frames[i].of = owner[m]

Nested(th) ==
    /\ ThreadsType(th)
    /\ Stacked(th.stack, th.frames)
    /\ OwnersHold(th.owner, th.frames)

(* What the code of a program may do, but for Thread.new without a block,  *)
(* and for Mutex#lock and try_lock, which hold on to a Mutex.              *)
Calls(th) ==
    UNION {{NewThread(th, aborts) : aborts \in BOOLEAN},
           {Synchronize(th, m) : m \in Mutex}, {Sleep(th, m) : m \in Mutex},
           {Unlock(th, m, "value") : m \in Mutex},
           {left \in {FrameEnds(th, outcome) : outcome \in Outcomes} : th.frames # <<>>}}

LEMMA Stacks ==
    ASSUME NEW stack \in Seq(Thread), NEW frames \in Seq(Frame), Stacked(stack, frames)
    PROVE  /\ Len(stack) \in Thread /\ stack[1] = Main /\ stack # <<>>
           /\ Current(stack) = stack[Len(stack)] /\ Current(stack) \in Thread
           /\ MainOf(stack) = Main
<1>1. PICK rank \in [0..Len(frames) -> Thread] :
          Ranks(frames, rank) /\ rank[Len(frames)] = Len(stack) /\ stack[1] = Main
  BY DEF Stacked
<1>2. Len(frames) \in Nat /\ Len(frames) \in 0..Len(frames)
  BY LenProperties
<1>3. Len(stack) \in Thread /\ stack # <<>>
  <2>1. Len(stack) \in Thread
    BY <1>1, <1>2
  <2> QED
    BY <2>1, EmptySeq DEF Thread
<1>4. stack[Len(stack)] \in Thread
  <2>1. Len(stack) \in 1..Len(stack)
    BY <1>3 DEF Thread
  <2> QED
    BY <2>1, ElementOfSeq
<1> QED
  BY <1>1, <1>3, <1>4 DEF Current, MainOf, Latest

(* A block begins, of a Thread that is pushed or of the current one.       *)
LEMMA BlockBegins ==
    ASSUME NEW stack \in Seq(Thread), NEW frames \in Seq(Frame), Stacked(stack, frames),
           NEW frame \in Frame, NEW higher \in Seq(Thread),
           Len(higher) = IF frame.holds = {} THEN Len(stack) + 1 ELSE Len(stack),
           \A i \in 1..Len(stack) : higher[i] = stack[i],
           frame.of = higher[Len(higher)]
    PROVE  Stacked(higher, Append(frames, frame))
<1> DEFINE n == Len(frames)
           l == Len(stack)
           h == Len(higher)
           more == Append(frames, frame)
<1>1. PICK rank \in [0..n -> Thread] :
          /\ Ranks(frames, rank) /\ rank[n] = l /\ stack[1] = Main
          /\ \A i \in 1..n : frames[i].of = stack[rank[i]]
  BY DEF Stacked
<1>2. n \in Nat /\ l \in Thread /\ h \in Thread /\ h = IF frame.holds = {} THEN l + 1 ELSE l
  <2>1. n \in Nat /\ l \in Thread
    BY Stacks, LenProperties
  <2> QED
    BY <2>1 DEF Thread
<1>3. /\ Len(more) = n + 1 /\ more[n + 1] = frame
      /\ \A i \in 1..n : more[i] = frames[i]
  BY AppendProperties
<1>4. higher[h] = frame.of /\ \A i \in 1..l : higher[i] = stack[i]
  OBVIOUS
<1> HIDE DEF n, l, h, more
<1> DEFINE r == [i \in 0..(n + 1) |-> IF i = n + 1 THEN h ELSE rank[i]]
<1>5. /\ r \in [0..(n + 1) -> Thread] /\ r[n + 1] = h
      /\ \A i \in 0..n : r[i] = rank[i] /\ rank[i] \in Thread
  BY <1>2
<1> HIDE DEF r
<1>6. /\ rank[0] = 1
      /\ \A i \in 1..n : rank[i] = IF frames[i].holds = {} THEN rank[i - 1] + 1 ELSE rank[i - 1]
      /\ \A i, j \in 0..n : i <= j => rank[i] <= rank[j]
      /\ \A i \in 0..n : rank[i] <= l
  <2>1. /\ rank[0] = 1
        /\ \A i \in 1..n : rank[i] = IF frames[i].holds = {} THEN rank[i - 1] + 1 ELSE rank[i - 1]
        /\ \A i, j \in 0..n : i <= j => rank[i] <= rank[j]
    BY <1>1 DEF Ranks, n
  <2> QED
    BY <1>1, <1>2, <2>1
<1>7. Ranks(more, r)
  <2>1. ASSUME NEW i \in 1..(n + 1)
        PROVE  r[i] = IF more[i].holds = {} THEN r[i - 1] + 1 ELSE r[i - 1]
    <3>1. CASE i = n + 1
      BY <1>1, <1>2, <1>3, <1>5, <3>1
    <3>2. CASE i \in 1..n
      <4>1. i \in 0..n /\ i - 1 \in 0..n
        BY <1>2, <3>2
      <4>2. r[i] = rank[i] /\ r[i - 1] = rank[i - 1] /\ more[i] = frames[i]
        BY <1>3, <1>5, <3>2, <4>1
      <4> QED
        BY <1>6, <3>2, <4>2
    <3> QED
      BY <1>2, <3>1, <3>2
  <2>2. ASSUME NEW i \in 0..(n + 1), NEW j \in 0..(n + 1), i <= j
        PROVE  r[i] <= r[j]
    <3>1. CASE j = n + 1
      <4>1. CASE i = n + 1
        BY <1>2, <1>5, <3>1, <4>1 DEF Thread
      <4>2. CASE i \in 0..n
        BY <1>2, <1>5, <1>6, <3>1, <4>2 DEF Thread
      <4> QED
        BY <1>2, <4>1, <4>2
    <3>2. CASE j \in 0..n
      BY <1>2, <1>5, <1>6, <2>2, <3>2
    <3> QED
      BY <1>2, <3>1, <3>2
  <2>3. r[0] = 1
    BY <1>2, <1>5, <1>6
  <2> QED
    BY <1>3, <1>5, <2>1, <2>2, <2>3 DEF Ranks
<1>8. \A i \in 1..(n + 1) : more[i].of = higher[r[i]]
  <2>1. ASSUME NEW i \in 1..n PROVE more[i].of = higher[r[i]]
    <3>1. i \in 0..n /\ more[i] = frames[i] /\ frames[i].of = stack[rank[i]]
      BY <1>1, <1>2, <1>3 DEF n
    <3>2. r[i] = rank[i] /\ rank[i] \in Nat /\ 1 <= rank[i] /\ rank[i] <= l
      BY <1>5, <1>6, <3>1 DEF Thread
    <3>3. rank[i] \in 1..l
      BY <1>2, <3>2 DEF Thread
    <3>4. higher[rank[i]] = stack[rank[i]]
      BY <1>4, <3>3
    <3> QED
      BY <3>1, <3>2, <3>4
  <2>2. more[n + 1].of = higher[r[n + 1]]
    BY <1>3, <1>4, <1>5
  <2>3. \A i \in 1..(n + 1) : i \in 1..n \/ i = n + 1
    BY <1>2
  <2> QED
    BY <2>1, <2>2, <2>3
<1>9. higher[1] = Main
  <2>1. 1 \in 1..l
    BY <1>2 DEF Thread
  <2> QED
    BY <1>1, <1>4, <2>1
<1>10. Stacked(higher, more)
  <2>1. r \in [0..Len(more) -> Thread] /\ r[Len(more)] = Len(higher)
    BY <1>3, <1>5 DEF h
  <2>2. \A i \in 1..Len(more) : more[i].of = higher[r[i]]
    BY <1>3, <1>8
  <2> QED
    BY <1>7, <1>9, <2>1, <2>2 DEF Stacked
<1> QED
  BY <1>10 DEF more

(* The innermost block ends. It was of the current thread, which is popped *)
(* if it is a Thread's.                                                    *)
LEMMA BlockEnds ==
    ASSUME NEW stack \in Seq(Thread), NEW frames \in Seq(Frame), Stacked(stack, frames),
           frames # <<>>
    PROVE  /\ Latest(frames) \in Frame /\ Latest(frames).of = Current(stack)
           /\ Popped(frames) \in Seq(Frame) /\ Popped(stack) \in Seq(Thread)
           /\ Len(Popped(frames)) = Len(frames) - 1
           /\ \A i \in 1..(Len(frames) - 1) : Popped(frames)[i] = frames[i]
           /\ Latest(frames).holds # {} => Stacked(stack, Popped(frames))
           /\ Latest(frames).holds = {} => Stacked(Popped(stack), Popped(frames))
<1> DEFINE n == Len(frames)
           l == Len(stack)
           less == Popped(frames)
           lower == Popped(stack)
           frame == frames[n]
<1>1. PICK rank \in [0..n -> Thread] :
          /\ Ranks(frames, rank) /\ rank[n] = l /\ stack[1] = Main
          /\ \A i \in 1..n : frames[i].of = stack[rank[i]]
  BY DEF Stacked
<1>2. n \in Nat /\ n > 0 /\ l \in Nat /\ l > 0 /\ stack # <<>> /\ Current(stack) = stack[l]
  <2>1. l \in Thread /\ stack # <<>> /\ Current(stack) = stack[l]
    BY Stacks
  <2> QED
    BY <2>1, LenProperties, EmptySeq DEF Thread
<1>3. /\ less \in Seq(Frame) /\ Len(less) = n - 1
      /\ \A i \in 1..(n - 1) : less[i] = frames[i]
  <2>1. \A i \in 1..(n - 1) : frames[i] \in Frame
    BY <1>2, ElementOfSeq
  <2>2. less = SubSeq(frames, 1, n - 1)
    BY DEF Popped
  <2> HIDE DEF less
  <2>3. /\ less \in Seq(Frame) /\ Len(less) = IF 1 <= n - 1 THEN n - 1 - 1 + 1 ELSE 0
        /\ \A i \in 1..(n - 1 - 1 + 1) : less[i] = frames[1 + i - 1]
    BY <1>2, <2>1, <2>2, SubSeqProperties
  <2> HIDE DEF n
  <2> QED
    BY <1>2, <2>3
<1>4. /\ lower \in Seq(Thread) /\ Len(lower) = l - 1
      /\ \A i \in 1..(l - 1) : lower[i] = stack[i]
  <2>1. \A i \in 1..(l - 1) : stack[i] \in Thread
    BY <1>2, ElementOfSeq
  <2>2. lower = SubSeq(stack, 1, l - 1)
    BY <1>2 DEF Popped
  <2> HIDE DEF lower
  <2>3. /\ lower \in Seq(Thread) /\ Len(lower) = IF 1 <= l - 1 THEN l - 1 - 1 + 1 ELSE 0
        /\ \A i \in 1..(l - 1 - 1 + 1) : lower[i] = stack[1 + i - 1]
    BY <1>2, <2>1, <2>2, SubSeqProperties
  <2> HIDE DEF l
  <2> QED
    BY <1>2, <2>3
<1>5. frame \in Frame /\ Latest(frames) = frame
  BY <1>2, ElementOfSeq DEF Latest
<1>6. Latest(frames).of = Current(stack)
  BY <1>1, <1>2, <1>5
<1> HIDE DEF n, l, less, lower, frame
<1>7. /\ rank[0] = 1
      /\ \A i \in 1..n : rank[i] = IF frames[i].holds = {} THEN rank[i - 1] + 1 ELSE rank[i - 1]
      /\ \A i, j \in 0..n : i <= j => rank[i] <= rank[j]
      /\ \A i \in 0..n : rank[i] \in Nat /\ rank[i] >= 1
  <2>1. /\ rank[0] = 1
        /\ \A i \in 1..n : rank[i] = IF frames[i].holds = {} THEN rank[i - 1] + 1 ELSE rank[i - 1]
        /\ \A i, j \in 0..n : i <= j => rank[i] <= rank[j]
    BY <1>1 DEF Ranks, n
  <2>2. \A i \in 0..n : rank[i] \in Thread
    BY <1>1
  <2> QED
    BY <2>1, <2>2 DEF Thread
<1> DEFINE r == [i \in 0..(n - 1) |-> rank[i]]
<1>8. /\ r \in [0..(n - 1) -> Thread]
      /\ \A i \in 0..(n - 1) : r[i] = rank[i] /\ rank[i] \in Nat /\ 1 <= rank[i] /\ rank[i] <= rank[n - 1]
  <2>1. ASSUME NEW i \in 0..(n - 1)
        PROVE  rank[i] \in Nat /\ 1 <= rank[i] /\ rank[i] <= rank[n - 1]
    <3>1. i \in 0..n /\ n - 1 \in 0..n /\ i <= n - 1
      BY <1>2
    <3> QED
      BY <1>7, <3>1
  <2>2. \A i \in 0..(n - 1) : rank[i] \in Thread
    BY <2>1 DEF Thread
  <2> QED
    BY <2>1, <2>2
<1> HIDE DEF r
<1>9. Ranks(less, r)
  <2>1. \A i \in 1..(n - 1) : r[i] = IF less[i].holds = {} THEN r[i - 1] + 1 ELSE r[i - 1]
    <3>1. ASSUME NEW i \in 1..(n - 1)
          PROVE  r[i] = IF less[i].holds = {} THEN r[i - 1] + 1 ELSE r[i - 1]
      <4>1. i \in 1..n /\ i \in 0..(n - 1) /\ i - 1 \in 0..(n - 1)
        BY <1>2
      <4>2. r[i] = rank[i] /\ r[i - 1] = rank[i - 1] /\ less[i] = frames[i]
        BY <1>3, <1>8, <4>1
      <4> QED
        BY <1>7, <4>1, <4>2
    <3> QED
      BY <3>1
  <2>2. r[0] = 1 /\ \A i, j \in 0..(n - 1) : i <= j => r[i] <= r[j]
    BY <1>2, <1>7, <1>8
  <2> QED
    BY <1>3, <1>8, <2>1, <2>2 DEF Ranks
<1>10. ASSUME NEW low \in Seq(Thread), Len(low) = rank[n - 1],
              \A i \in 1..rank[n - 1] : low[i] = stack[i]
       PROVE  Stacked(low, less)
  <2>1. r \in [0..Len(less) -> Thread] /\ r[Len(less)] = Len(low)
    BY <1>2, <1>3, <1>8, <1>10
  <2>2. low[1] = Main
    BY <1>1, <1>2, <1>8, <1>10
  <2>3. \A i \in 1..Len(less) : less[i].of = low[r[i]]
    <3>1. ASSUME NEW i \in 1..(n - 1) PROVE less[i].of = low[r[i]]
      <4>1. i \in 0..(n - 1) /\ i \in 1..n
        BY <1>2
      <4>2. rank[i] \in 1..rank[n - 1] /\ r[i] = rank[i]
        BY <1>2, <1>8, <4>1
      <4> QED
        BY <1>1, <1>3, <1>10, <4>1, <4>2 DEF n
    <3> QED
      BY <1>3, <3>1
  <2> QED
    BY <1>9, <2>1, <2>2, <2>3 DEF Stacked
<1>11. rank[n] = IF frame.holds = {} THEN rank[n - 1] + 1 ELSE rank[n - 1]
  BY <1>2, <1>7 DEF frame
<1>12. ASSUME frame.holds # {} PROVE Stacked(stack, less)
  <2>1. Len(stack) = rank[n - 1]
    BY <1>1, <1>11, <1>12 DEF l
  <2> QED
    BY <1>10, <2>1
<1>13. ASSUME frame.holds = {} PROVE Stacked(lower, less)
  <2>1. rank[n - 1] = l - 1
    <3>1. rank[n - 1] \in Nat
      BY <1>2, <1>7
    <3> QED
      BY <1>1, <1>2, <1>11, <1>13, <3>1
  <2> QED
    BY <1>4, <1>10, <2>1
<1> QED
  BY <1>3, <1>4, <1>5, <1>6, <1>12, <1>13 DEF n, less, lower


LEMMA EndsLeave ==
    ASSUME NEW th, ThreadsType(th), Popped(th.stack) \in Seq(Thread),
           NEW t \in Nat, NEW aborts \in BOOLEAN, NEW outcome \in Outcomes
    PROVE  LET left == ThreadEnds(th, t, aborts, outcome) IN
           /\ ThreadsType(left) /\ left.stack = Popped(th.stack)
           /\ left.frames = th.frames /\ left.owner = th.owner
<1>1. ASSUME NEW o \in Outcomes, NEW a, ThreadsType(a), a.stack = th.stack
      PROVE  /\ ThreadsType(Ensured(a, t, o)) /\ Ensured(a, t, o).stack = Popped(th.stack)
             /\ Ensured(a, t, o).frames = a.frames /\ Ensured(a, t, o).owner = a.owner
  <2> DEFINE e == IF t \in a.unwind /\ Current(Popped(a.stack)) = MainOf(Popped(a.stack))
                  THEN "error" ELSE o
  <2>1. e \in Outcomes
    BY DEF Outcomes
  <2>2. Ensured(a, t, o) = [a EXCEPT !.stack = Popped(a.stack), !.outcome = e]
    BY DEF Ensured
  <2> HIDE DEF e
  <2> QED
    BY <1>1, <2>1, <2>2 DEF ThreadsType
<1>2. /\ ThreadsType(Rescued(th, t, aborts)) /\ Rescued(th, t, aborts).stack = th.stack
      /\ Rescued(th, t, aborts).frames = th.frames /\ Rescued(th, t, aborts).owner = th.owner
  <2> DEFINE u == IF aborts THEN th.unwind \cup {th.stack[i] : i \in DOMAIN th.stack}
                  ELSE th.unwind
  <2>1. u \in SUBSET Nat
    <3>1. \A i \in DOMAIN th.stack : th.stack[i] \in Nat
      BY ElementOfSeq, LenProperties DEF ThreadsType, Thread
    <3> QED
      BY <3>1 DEF ThreadsType
  <2>2. \/ Rescued(th, t, aborts) = th
        \/ Rescued(th, t, aborts) =
               [th EXCEPT !.terminated = th.terminated \cup {t}, !.unwind = u]
    BY DEF Rescued
  <2> HIDE DEF u
  <2>3. CASE Rescued(th, t, aborts) = th
    BY <2>3
  <2>4. CASE Rescued(th, t, aborts) =
                 [th EXCEPT !.terminated = th.terminated \cup {t}, !.unwind = u]
    <3>1. th.terminated \cup {t} \in SUBSET Nat
      BY DEF ThreadsType
    <3> QED
      BY <2>1, <2>4, <3>1 DEF ThreadsType
  <2> QED
    BY <2>2, <2>3, <2>4
<1>3. "value" \in Outcomes
  BY DEF Outcomes
<1> QED
  BY <1>1, <1>2, <1>3 DEF ThreadEnds

(* A Mutex changes hands, or is let go of.                                 *)
LEMMA Unlocks ==
    ASSUME NEW th, Nested(th), NEW m \in Mutex, NEW outcome \in Outcomes
    PROVE  Nested(Unlock(th, m, outcome))
<1>1. "error" \in Outcomes
  BY DEF Outcomes
<1>2. CASE Owned(th, m)
  <2>1. Unlock(th, m, outcome) = [th EXCEPT !.owner[m] = Nobody, !.outcome = outcome]
    BY <1>2 DEF Unlock
  <2> DEFINE u == Unlock(th, m, outcome)
  <2>2. /\ ThreadsType(u) /\ u.stack = th.stack /\ u.frames = th.frames
        /\ u.owner = [th.owner EXCEPT ![m] = Nobody]
    <3>1. ThreadsType(th)
      BY DEF Nested
    <3> HIDE DEF u
    <3>2. u = [th EXCEPT !.owner = [th.owner EXCEPT ![m] = Nobody], !.outcome = outcome]
      BY <2>1 DEF u
    <3>3. [th.owner EXCEPT ![m] = Nobody] \in [Mutex -> Nat]
      BY <3>1 DEF ThreadsType, Nobody
    <3> QED
      BY <3>1, <3>2, <3>3 DEF ThreadsType
  <2> HIDE DEF u
  <2>3. OwnersHold(u.owner, u.frames)
    <3>1. th.owner \in [Mutex -> Nat] /\ OwnersHold(th.owner, th.frames)
      BY DEF Nested, ThreadsType
    <3>2. ASSUME NEW k \in Mutex, u.owner[k] # Nobody
          PROVE  u.owner[k] = th.owner[k]
      BY <2>2, <3>1, <3>2
    <3>3. OwnersHold(u.owner, th.frames)
      <4>1. ASSUME NEW k \in Mutex, u.owner[k] # Nobody
            PROVE  \E i \in 1..Len(th.frames) :
                       th.frames[i].holds = {k} /\ th.frames[i].of = u.owner[k]
        <5>1. th.owner[k] # Nobody /\ u.owner[k] = th.owner[k]
          BY <3>2, <4>1
        <5> QED
          BY <3>1, <5>1 DEF OwnersHold
      <4> QED
        BY <4>1 DEF OwnersHold
    <3> QED
      BY <2>2, <3>3
  <2> QED
    BY <2>2, <2>3 DEF Nested, u
<1>3. CASE ~Owned(th, m)
  <2>1. Unlock(th, m, outcome) = [th EXCEPT !.outcome = "error"]
    BY <1>3 DEF Unlock
  <2> QED
    BY <1>1, <2>1 DEF Nested, ThreadsType
<1> QED
  BY <1>2, <1>3

(* Thread.current is the thread whose block is innermost, at any time and  *)
(* for any number of threads and sections within each other; and whatever  *)
(* ends with a value, raises or passes through, no Mutex is left to a      *)
(* thread that is in none of its sections any more.                        *)
THEOREM ThreadsStayNested ==
    /\ Nested(Start)
    /\ \A th : Nested(th) => \A left \in Calls(th) : Nested(left)
<1>1. Nested(Start)
  <2>1. ThreadsType(Start)
    <3>1. <<Main>> \in Seq(Thread) /\ <<>> \in Seq(Frame)
      BY EmptySeq DEF Main, Thread
    <3> QED
      BY <3>1 DEF Start, ThreadsType, Main, Nobody, Thread, Outcomes
  <2>2. Stacked(Start.stack, Start.frames)
    <3> DEFINE r == [i \in 0..0 |-> 1]
    <3>1. r \in [0..Len(<<>>) -> Thread] /\ Ranks(<<>>, r) /\ r[Len(<<>>)] = 1
      BY DEF Ranks, Thread
    <3>2. Start.stack = <<Main>> /\ Start.frames = <<>> /\ Len(<<Main>>) = 1 /\ <<Main>>[1] = Main
      BY DEF Start
    <3> QED
      BY <3>1, <3>2 DEF Stacked
  <2>3. OwnersHold(Start.owner, Start.frames)
    BY DEF Start, OwnersHold
  <2> QED
    BY <2>1, <2>2, <2>3 DEF Nested
<1>2. ASSUME NEW th, Nested(th), NEW left \in Calls(th)
      PROVE  Nested(left)
  <2>1. /\ ThreadsType(th) /\ th.stack \in Seq(Thread) /\ th.frames \in Seq(Frame)
        /\ th.made \in Thread /\ th.owner \in [Mutex -> Nat]
        /\ Stacked(th.stack, th.frames) /\ OwnersHold(th.owner, th.frames)
    BY <1>2 DEF Nested, ThreadsType
  <2> DEFINE current == Current(th.stack)
             n == Len(th.frames)
  <2>2. current \in Thread /\ current = th.stack[Len(th.stack)] /\ n \in Nat
    BY <2>1, Stacks, LenProperties
  <2>3. {"value", "error"} \subseteq Outcomes
    BY DEF Outcomes
  <2>4. CASE left \in {NewThread(th, aborts) : aborts \in BOOLEAN}
    <3>1. PICK aborts \in BOOLEAN : left = NewThread(th, aborts)
      BY <2>4
    <3> DEFINE t == th.made + 1
               frame == ThreadFrame(t, aborts)
    <3>2. t \in Thread /\ frame \in Frame /\ frame.holds = {} /\ frame.of = t
      BY <2>1 DEF Thread, Frame, ThreadFrame
    <3>3. left = [th EXCEPT !.made = t, !.stack = Append(th.stack, t),
                            !.frames = Append(th.frames, frame), !.outcome = "value"]
      BY <3>1 DEF NewThread
    <3> HIDE DEF t, frame
    <3>4. /\ Append(th.stack, t) \in Seq(Thread) /\ Append(th.frames, frame) \in Seq(Frame)
          /\ Len(Append(th.stack, t)) = Len(th.stack) + 1
          /\ \A i \in 1..Len(th.stack) : Append(th.stack, t)[i] = th.stack[i]
          /\ Append(th.stack, t)[Len(th.stack) + 1] = t
          /\ Len(Append(th.frames, frame)) = n + 1
          /\ \A i \in 1..n : Append(th.frames, frame)[i] = th.frames[i]
      BY <2>1, <3>2, AppendProperties
    <3>5. /\ ThreadsType(left) /\ left.stack = Append(th.stack, t)
          /\ left.frames = Append(th.frames, frame) /\ left.owner = th.owner
      BY <2>1, <2>3, <3>2, <3>3, <3>4 DEF ThreadsType
    <3>6. Stacked(left.stack, left.frames)
      <4> DEFINE higher == Append(th.stack, t)
      <4>1. /\ higher \in Seq(Thread) /\ frame.of = higher[Len(higher)]
            /\ Len(higher) = IF frame.holds = {} THEN Len(th.stack) + 1 ELSE Len(th.stack)
            /\ \A i \in 1..Len(th.stack) : higher[i] = th.stack[i]
        BY <3>2, <3>4
      <4> HIDE DEF higher
      <4>2. Stacked(higher, Append(th.frames, frame))
        BY <2>1, <3>2, <4>1, BlockBegins
      <4> QED
        BY <3>5, <4>2 DEF higher
    <3>7. OwnersHold(left.owner, left.frames)
      <4>1. ASSUME NEW k \in Mutex, th.owner[k] # Nobody
            PROVE  \E i \in 1..Len(left.frames) :
                       left.frames[i].holds = {k} /\ left.frames[i].of = th.owner[k]
        <5>1. PICK i \in 1..n : th.frames[i].holds = {k} /\ th.frames[i].of = th.owner[k]
          BY <2>1, <4>1 DEF OwnersHold
        <5>2. i \in 1..Len(left.frames) /\ left.frames[i] = th.frames[i]
          BY <2>2, <3>4, <3>5
        <5> QED
          BY <5>1, <5>2
      <4> QED
        BY <3>5, <4>1 DEF OwnersHold
    <3> QED
      BY <3>5, <3>6, <3>7 DEF Nested
  <2>5. CASE left \in {Synchronize(th, m) : m \in Mutex}
    <3>1. PICK m \in Mutex : left = Synchronize(th, m)
      BY <2>5
    <3>2. CASE Owned(th, m)
      <4> DEFINE locked == [th EXCEPT !.outcome = "error"]
      <4>1. Lock(th, m) = locked /\ locked.outcome # "value" /\ locked.outcome = "error"
        BY <2>1, <3>2 DEF Lock, ThreadsType
      <4>2. left = Unlock(locked, m, "error")
        BY <3>1, <4>1 DEF Synchronize
      <4>3. Nested(locked)
        BY <2>1, <2>3 DEF Nested, ThreadsType
      <4> HIDE DEF locked
      <4> QED
        BY <2>3, <4>2, <4>3, Unlocks
    <3>3. CASE ~Owned(th, m)
      <4> DEFINE locked == [th EXCEPT !.owner[m] = current, !.outcome = "value"]
                 frame == SectionFrame(current, m)
                 more == Append(th.frames, frame)
      <4>1. Lock(th, m) = locked
        BY <3>3 DEF Lock
      <4>2. locked.outcome = "value" /\ locked.frames = th.frames
        BY <2>1 DEF ThreadsType
      <4>3. frame \in Frame /\ frame.holds = {m} /\ frame.of = current
        BY <2>2 DEF Frame, SectionFrame
      <4>4. left = [locked EXCEPT !.frames = Append(locked.frames, frame)]
        BY <3>1, <4>1, <4>2 DEF Synchronize
      <4> HIDE DEF frame
      <4>5. more \in Seq(Frame) /\ Len(more) = n + 1 /\ more[n + 1] = frame
            /\ \A i \in 1..n : more[i] = th.frames[i]
        BY <2>1, <4>3, AppendProperties
      <4>6. current \in Nat
        BY <2>2 DEF Thread
      <4> HIDE DEF current
      <4>7. /\ left.stack = th.stack /\ left.frames = more
            /\ left.owner = [th.owner EXCEPT ![m] = current] /\ ThreadsType(left)
        BY <2>1, <2>3, <4>2, <4>4, <4>5, <4>6 DEF ThreadsType
      <4>8. Stacked(left.stack, left.frames)
        <5>1. /\ frame.of = th.stack[Len(th.stack)]
              /\ Len(th.stack) = IF frame.holds = {} THEN Len(th.stack) + 1 ELSE Len(th.stack)
          BY <2>2, <4>3
        <5>2. Stacked(th.stack, Append(th.frames, frame))
          BY <2>1, <4>3, <5>1, BlockBegins
        <5> QED
          BY <4>7, <5>2
      <4> HIDE DEF more
      <4>9. OwnersHold(left.owner, left.frames)
        <5>1. ASSUME NEW k \in Mutex, left.owner[k] # Nobody
              PROVE  \E i \in 1..Len(left.frames) :
                         left.frames[i].holds = {k} /\ left.frames[i].of = left.owner[k]
          <6>1. CASE k = m
            BY <2>1, <2>2, <4>3, <4>5, <4>7, <6>1
          <6>2. CASE k # m
            <7>1. left.owner[k] = th.owner[k]
              BY <2>1, <4>7, <6>2
            <7>2. PICK i \in 1..n : th.frames[i].holds = {k} /\ th.frames[i].of = th.owner[k]
              BY <2>1, <5>1, <7>1 DEF OwnersHold
            <7>3. i \in 1..Len(left.frames) /\ left.frames[i] = th.frames[i]
              BY <2>2, <4>5, <4>7
            <7> QED
              BY <7>1, <7>2, <7>3
          <6> QED
            BY <6>1, <6>2
        <5> QED
          BY <5>1 DEF OwnersHold
      <4> QED
        BY <4>7, <4>8, <4>9 DEF Nested
    <3> QED
      BY <3>2, <3>3
  <2>6. CASE left \in {Sleep(th, m) : m \in Mutex}
    <3>1. PICK m \in Mutex : left = Sleep(th, m)
      BY <2>6
    <3>2. CASE Owned(th, m)
      <4> DEFINE u == [th EXCEPT !.owner[m] = Nobody, !.outcome = "value"]
      <4>1. Unlock(th, m, "value") = u
        BY <3>2 DEF Unlock
      <4>2. u.outcome = "value" /\ u.stack = th.stack /\ u.owner[m] = Nobody
        BY <2>1 DEF ThreadsType
      <4>3. ~Owned(u, m)
        BY <2>2, <4>2 DEF Owned, Nobody, Thread
      <4>4. left = [u EXCEPT !.owner[m] = current, !.outcome = "value"]
        BY <3>1, <4>1, <4>2, <4>3 DEF Sleep, Lock
      <4>5. th.owner[m] = current
        BY <3>2 DEF Owned
      <4> HIDE DEF current
      <4>6. left.owner = th.owner
        BY <2>1, <4>4, <4>5 DEF ThreadsType
      <4>7. ThreadsType(left) /\ left.stack = th.stack /\ left.frames = th.frames
        BY <2>1, <2>3, <4>4, <4>5 DEF ThreadsType, Nobody
      <4> QED
        BY <2>1, <4>6, <4>7 DEF Nested
    <3>3. CASE ~Owned(th, m)
      <4>1. Unlock(th, m, "value") = [th EXCEPT !.outcome = "error"]
        BY <3>3 DEF Unlock
      <4>2. [th EXCEPT !.outcome = "error"].outcome = "error"
        BY <2>1 DEF ThreadsType
      <4>3. left = Unlock(th, m, "value")
        BY <3>1, <4>1, <4>2 DEF Sleep
      <4> QED
        BY <1>2, <2>3, <4>3, Unlocks
    <3> QED
      BY <3>2, <3>3
  <2>7. CASE left \in {Unlock(th, m, "value") : m \in Mutex}
    BY <1>2, <2>3, <2>7, Unlocks
  <2>8. CASE left \in {x \in {FrameEnds(th, outcome) : outcome \in Outcomes} : th.frames # <<>>}
    <3>1. PICK outcome \in Outcomes : left = FrameEnds(th, outcome)
      BY <2>8
    <3> DEFINE frame == Latest(th.frames)
               less == Popped(th.frames)
               popped == [th EXCEPT !.frames = less]
    <3>2. /\ th.frames # <<>> /\ frame \in Frame /\ frame.of = current
          /\ less \in Seq(Frame) /\ Popped(th.stack) \in Seq(Thread) /\ Len(less) = n - 1
          /\ \A i \in 1..(n - 1) : less[i] = th.frames[i]
          /\ frame.holds # {} => Stacked(th.stack, less)
          /\ frame.holds = {} => Stacked(Popped(th.stack), less)
      <4>1. th.frames # <<>>
        BY <2>8
      <4> QED
        BY <2>1, <4>1, BlockEnds
    <3>3. frame = th.frames[n] /\ n > 0
      BY <2>1, <2>2, <3>2, EmptySeq DEF Latest
    <3>4. left = IF frame.holds = {} THEN ThreadEnds(popped, frame.of, frame.aborts, outcome)
                 ELSE Unlock(popped, CHOOSE m \in frame.holds : TRUE, outcome)
      BY <3>1 DEF FrameEnds
    <3> HIDE DEF frame, less, current, n
    <3>5. /\ ThreadsType(popped) /\ popped.stack = th.stack /\ popped.frames = less
          /\ popped.owner = th.owner
      BY <2>1, <3>2 DEF ThreadsType
    <3> HIDE DEF popped
    <3>6. ASSUME NEW k \in Mutex, th.owner[k] # Nobody, ~(frame.holds = {k} /\ frame.of = th.owner[k])
          PROVE  \E i \in 1..Len(less) : less[i].holds = {k} /\ less[i].of = th.owner[k]
      <4>1. PICK i \in 1..n : th.frames[i].holds = {k} /\ th.frames[i].of = th.owner[k]
        BY <2>1, <3>6 DEF OwnersHold, n
      <4>2. i # n
        BY <3>3, <3>6, <4>1
      <4>3. i \in 1..(n - 1)
        BY <2>2, <4>2
      <4> QED
        BY <3>2, <4>1, <4>3
    <3>7. CASE frame.holds = {}
      <4>1. frame.of \in Nat /\ frame.aborts \in BOOLEAN
        BY <3>2 DEF Frame, Thread
      <4>2. /\ ThreadsType(left) /\ left.stack = Popped(th.stack)
            /\ left.frames = less /\ left.owner = th.owner
        BY <3>2, <3>4, <3>5, <3>7, <4>1, EndsLeave
      <4>3. OwnersHold(th.owner, less)
        BY <3>6, <3>7 DEF OwnersHold
      <4> QED
        BY <3>2, <3>7, <4>2, <4>3 DEF Nested
    <3>8. CASE frame.holds # {}
      <4>1. PICK m \in Mutex : frame.holds = {m}
        BY <3>2, <3>8 DEF Frame
      <4>2. left = Unlock(popped, m, outcome)
        BY <3>4, <3>8, <4>1
      <4>3. \A k \in Mutex : k # m \/ th.owner[k] # current => 
                (th.owner[k] # Nobody =>
                    \E i \in 1..Len(less) : less[i].holds = {k} /\ less[i].of = th.owner[k])
        BY <3>2, <3>6, <4>1
      <4>4. Stacked(th.stack, less)
        BY <3>2, <3>8
      <4>5. CASE th.owner[m] = current
        <5>1. Owned(popped, m)
          BY <3>5, <4>5 DEF Owned, current
        <5>2. left = [popped EXCEPT !.owner[m] = Nobody, !.outcome = outcome]
          BY <4>2, <5>1 DEF Unlock
        <5>3. /\ ThreadsType(left) /\ left.stack = th.stack /\ left.frames = less
              /\ left.owner = [th.owner EXCEPT ![m] = Nobody]
          BY <3>5, <5>2 DEF ThreadsType, Nobody
        <5>4. OwnersHold(left.owner, less)
          <6>1. ASSUME NEW k \in Mutex, left.owner[k] # Nobody
                PROVE  k # m /\ left.owner[k] = th.owner[k]
            BY <2>1, <5>3, <6>1
          <6> QED
            BY <4>3, <6>1 DEF OwnersHold
        <5> QED
          BY <4>4, <5>3, <5>4 DEF Nested
      <4>6. CASE th.owner[m] # current
        <5>1. OwnersHold(th.owner, less)
          BY <4>3, <4>6 DEF OwnersHold
        <5>2. Nested(popped)
          BY <3>5, <4>4, <5>1 DEF Nested
        <5> QED
          BY <4>2, <5>2, Unlocks
      <4> QED
        BY <4>5, <4>6
    <3> QED
      BY <3>7, <3>8
  <2> QED
    BY <1>2, <2>4, <2>5, <2>6, <2>7, <2>8 DEF Calls
<1> QED
  BY <1>1, <1>2


(* So a Mutex is never left to a thread that has ended.                    *)
THEOREM OwnersRun ==
    ASSUME NEW th, Nested(th), NEW m \in Mutex, th.owner[m] # Nobody
    PROVE  \E i \in 1..Len(th.stack) : th.stack[i] = th.owner[m]
<1> DEFINE n == Len(th.frames)
<1>1. PICK i \in 1..n : th.frames[i].of = th.owner[m]
  BY DEF Nested, OwnersHold
<1>2. PICK rank \in [0..n -> Thread] :
          /\ Ranks(th.frames, rank) /\ rank[n] = Len(th.stack)
          /\ \A k \in 1..n : th.frames[k].of = th.stack[rank[k]]
  BY DEF Nested, Stacked
<1>3. n \in Nat
  BY LenProperties DEF Nested, ThreadsType
<1>4. \A k, j \in 0..n : k <= j => rank[k] <= rank[j]
  BY <1>2 DEF Ranks
<1>5. i \in 0..n /\ n \in 0..n /\ i <= n
  BY <1>3
<1> HIDE DEF n
<1>6. rank[i] \in 1..Len(th.stack)
  BY <1>2, <1>4, <1>5 DEF Thread
<1> QED
  BY <1>1, <1>2, <1>6

(* Threads that abort.                                                     *)

(* Threads are made in the order of the stack; those that unwind were made *)
(* too, and with each of them all those around it do.                      *)
Ages(stack, made, unwind) ==
    /\ \A i \in 1..Len(stack) : stack[i] <= made
    /\ \A i, j \in 1..Len(stack) : i < j => stack[i] < stack[j]
    /\ \A t \in unwind : t <= made
    /\ \A i, j \in 1..Len(stack) : i <= j /\ stack[j] \in unwind => stack[i] \in unwind

Members(stack) == {stack[i] : i \in DOMAIN stack}

LEMMA AgesGrow ==
    ASSUME NEW stack \in Seq(Thread), NEW made \in Thread, NEW unwind \in SUBSET Nat,
           Ages(stack, made, unwind)
    PROVE  Ages(Append(stack, made + 1), made + 1, unwind)
<1> DEFINE n == Len(stack)
           t == made + 1
           higher == Append(stack, t)
<1>1. /\ n \in Nat /\ t \in Thread /\ Len(higher) = n + 1 /\ higher[n + 1] = t
      /\ \A i \in 1..n : higher[i] = stack[i] /\ stack[i] \in Thread
  <2>1. t \in Thread
    BY DEF Thread
  <2> HIDE DEF t
  <2> QED
    BY <2>1, AppendProperties, ElementOfSeq, LenProperties
<1>2. t > made /\ t \notin unwind /\ made \in Nat /\ t \in Nat
  BY DEF Ages, Thread
<1> HIDE DEF t, higher, n
<1>3. /\ \A i \in 1..n : stack[i] <= made
      /\ \A i, j \in 1..n : i < j => stack[i] < stack[j]
      /\ \A k \in unwind : k <= made
      /\ \A i, j \in 1..n : i <= j /\ stack[j] \in unwind => stack[i] \in unwind
  BY DEF Ages, n
<1>4. \A i \in 1..(n + 1) : (i \in 1..n \/ i = n + 1) /\ (i # n + 1 => i \in 1..n)
  BY <1>1
<1>5. \A i \in 1..n : higher[i] \in Nat /\ higher[i] <= made /\ higher[i] < t
  BY <1>1, <1>2, <1>3 DEF Thread
<1>6. \A i \in 1..Len(higher) : higher[i] <= t
  BY <1>1, <1>2, <1>4, <1>5
<1>7. ASSUME NEW i \in 1..Len(higher), NEW j \in 1..Len(higher), i < j
      PROVE  higher[i] < higher[j]
  <2>1. i \in 1..n
    BY <1>1, <1>7
  <2>2. CASE j \in 1..n
    BY <1>1, <1>3, <1>7, <2>1, <2>2
  <2>3. CASE j = n + 1
    BY <1>1, <1>5, <2>1, <2>3
  <2> QED
    BY <1>1, <1>4, <2>2, <2>3
<1>8. \A k \in unwind : k <= t
  BY <1>2, <1>3
<1>9. ASSUME NEW i \in 1..Len(higher), NEW j \in 1..Len(higher), i <= j, higher[j] \in unwind
      PROVE  higher[i] \in unwind
  <2>1. j \in 1..n
    BY <1>1, <1>2, <1>4, <1>9
  <2>2. i \in 1..n
    BY <1>1, <1>9, <2>1
  <2> QED
    BY <1>1, <1>3, <1>9, <2>1, <2>2
<1>10. Ages(higher, t, unwind)
  BY <1>6, <1>7, <1>8, <1>9 DEF Ages
<1> QED
  BY <1>10 DEF higher, t

LEMMA AgesPop ==
    ASSUME NEW stack \in Seq(Thread), NEW made, NEW unwind, Ages(stack, made, unwind),
           stack # <<>>
    PROVE  Ages(Popped(stack), made, unwind)
<1> DEFINE lower == Popped(stack)
<1>1. /\ Len(stack) \in Nat /\ Len(lower) = Len(stack) - 1
      /\ \A i \in 1..Len(lower) : lower[i] = stack[i] /\ i \in 1..Len(stack)
  <2>1. Len(stack) \in Nat /\ Len(stack) # 0
    BY EmptySeq, LenProperties
  <2>2. Len(stack) - 1 \in Nat /\ Len(stack) - 1 <= Len(stack)
    BY <2>1
  <2>3. Popped(stack) = UpTo(stack, Len(stack) - 1)
    BY DEF Popped, UpTo, Between
  <2> DEFINE m == Len(stack) - 1
  <2> HIDE DEF m
  <2>4. m \in Nat /\ m <= Len(stack)
    BY <2>2 DEF m
  <2>5. Len(UpTo(stack, m)) = m /\ \A k \in 1..m : UpTo(stack, m)[k] = stack[k]
    BY <2>4, UpTos
  <2>6. \A k \in 1..m : k \in 1..Len(stack)
    BY <2>1, <2>4
  <2>7. lower = UpTo(stack, m)
    BY <2>3 DEF m
  <2> HIDE DEF lower
  <2>8. Len(lower) = m /\ \A i \in 1..Len(lower) : lower[i] = stack[i] /\ i \in 1..Len(stack)
    BY <2>5, <2>6, <2>7
  <2> QED
    BY <2>1, <2>8 DEF m
<1> HIDE DEF lower
<1> QED
  BY <1>1 DEF Ages, lower

LEMMA AgesFall ==
    ASSUME NEW stack \in Seq(Thread), NEW made \in Thread, NEW unwind \in SUBSET Nat,
           Ages(stack, made, unwind)
    PROVE  Ages(stack, made, unwind \cup Members(stack))
<1>1. DOMAIN stack = 1..Len(stack)
  BY LenProperties
<1>2. \A t \in Members(stack) : t <= made
  BY <1>1 DEF Ages, Members
<1>3. \A i \in 1..Len(stack) : stack[i] \in Members(stack)
  BY <1>1 DEF Members
<1> QED
  BY <1>2, <1>3 DEF Ages

Aged(th) == Nested(th) /\ Ages(th.stack, th.made, th.unwind)

(* Nothing is made, begins to unwind or is terminated.                     *)
Keeps(left, th) ==
    /\ left.stack = th.stack /\ left.made = th.made
    /\ left.unwind = th.unwind /\ left.terminated = th.terminated

LEMMA LocksKeep ==
    ASSUME NEW th, ThreadsType(th), Stacked(th.stack, th.frames), NEW m \in Mutex
    PROVE  ThreadsType(Lock(th, m)) /\ Keeps(Lock(th, m), th) /\ Lock(th, m).frames = th.frames
<1>1. {"value", "error"} \subseteq Outcomes
  BY DEF Outcomes
<1>2. CASE Owned(th, m)
  <2>1. Lock(th, m) = [th EXCEPT !.outcome = "error"]
    BY <1>2 DEF Lock
  <2> QED
    BY <1>1, <2>1 DEF ThreadsType, Keeps
<1>3. CASE ~Owned(th, m)
  <2> DEFINE o == [th.owner EXCEPT ![m] = Current(th.stack)]
  <2>1. Current(th.stack) \in Nat
    BY Stacks DEF ThreadsType, Thread
  <2>2. o \in [Mutex -> Nat]
    BY <2>1 DEF ThreadsType
  <2>3. Lock(th, m) = [th EXCEPT !.owner = o, !.outcome = "value"]
    BY <1>3 DEF Lock
  <2> HIDE DEF o
  <2> QED
    BY <1>1, <2>2, <2>3 DEF ThreadsType, Keeps
<1> QED
  BY <1>2, <1>3

LEMMA UnlocksKeep ==
    ASSUME NEW th, ThreadsType(th), NEW m \in Mutex, NEW outcome \in Outcomes
    PROVE  Keeps(Unlock(th, m, outcome), th)
<1>1. CASE Owned(th, m)
  <2> DEFINE o == [th.owner EXCEPT ![m] = Nobody]
  <2>1. Unlock(th, m, outcome) = [th EXCEPT !.owner = o, !.outcome = outcome]
    BY <1>1 DEF Unlock
  <2> HIDE DEF o
  <2> QED
    BY <2>1 DEF ThreadsType, Keeps
<1>2. CASE ~Owned(th, m)
  <2>1. Unlock(th, m, outcome) = [th EXCEPT !.outcome = "error"]
    BY <1>2 DEF Unlock
  <2> QED
    BY <2>1 DEF ThreadsType, Keeps
<1> QED
  BY <1>1, <1>2

LEMMA MutexKeeps ==
    ASSUME NEW th, Nested(th), NEW m \in Mutex
    PROVE  Keeps(Synchronize(th, m), th) /\ Keeps(Sleep(th, m), th)
<1>1. ThreadsType(th) /\ Stacked(th.stack, th.frames) /\ "value" \in Outcomes
  BY DEF Nested, Outcomes
<1>2. Keeps(Synchronize(th, m), th)
  <2> DEFINE locked == Lock(th, m)
             o == locked.outcome
  <2>1. ThreadsType(locked) /\ Keeps(locked, th)
    BY <1>1, LocksKeep
  <2>2. o \in Outcomes
    BY <2>1 DEF ThreadsType
  <2>3. Synchronize(th, m) =
           IF o # "value" THEN Unlock(locked, m, o)
           ELSE [locked EXCEPT !.frames = Append(locked.frames, SectionFrame(Current(th.stack), m))]
    BY DEF Synchronize
  <2> DEFINE f == Append(locked.frames, SectionFrame(Current(th.stack), m))
  <2> HIDE DEF locked, o, f
  <2>4. CASE o # "value"
    <3>1. Keeps(Unlock(locked, m, o), locked)
      BY <2>1, <2>2, UnlocksKeep
    <3> QED
      BY <2>1, <2>3, <2>4, <3>1 DEF Keeps
  <2>5. CASE o = "value"
    <3>1. Synchronize(th, m) = [locked EXCEPT !.frames = f]
      BY <2>3, <2>5 DEF f
    <3> QED
      BY <2>1, <3>1 DEF Keeps, ThreadsType
  <2> QED
    BY <2>4, <2>5
<1>3. Keeps(Sleep(th, m), th)
  <2> DEFINE unlocked == Unlock(th, m, "value")
  <2>1. Nested(unlocked) /\ Keeps(unlocked, th)
    BY <1>1, Unlocks, UnlocksKeep
  <2>2. Sleep(th, m) = IF unlocked.outcome = "value" THEN Lock(unlocked, m) ELSE unlocked
    BY DEF Sleep
  <2> HIDE DEF unlocked
  <2>3. Keeps(Lock(unlocked, m), unlocked)
    BY <2>1, LocksKeep DEF Nested
  <2> QED
    BY <2>1, <2>2, <2>3 DEF Keeps
<1> QED
  BY <1>2, <1>3

(* What a thread leaves behind, by the rescue and the ensure around it.    *)
Leaves(left, th, t, aborts, outcome) ==
    LET lower == Popped(th.stack)
        failed == outcome = "error" /\ t \notin th.unwind
    IN  /\ left.made = th.made /\ left.stack = lower
        /\ left.unwind = IF failed /\ aborts THEN th.unwind \cup Members(th.stack)
                         ELSE th.unwind
        /\ left.terminated = IF failed THEN th.terminated \cup {t} ELSE th.terminated
        /\ left.outcome = IF t \in left.unwind /\ Current(lower) = MainOf(lower) THEN "error"
                          ELSE IF outcome = "error" THEN "value" ELSE outcome

LEMMA EndsUnwind ==
    ASSUME NEW th, ThreadsType(th), NEW t \in Nat, NEW aborts \in BOOLEAN, NEW outcome \in Outcomes
    PROVE  Leaves(ThreadEnds(th, t, aborts, outcome), th, t, aborts, outcome)
<1>1. ASSUME NEW a, DOMAIN a = DOMAIN th, a = [x \in DOMAIN a |-> a[x]], NEW o
      PROVE  LET e == Ensured(a, t, o)
                 lower == Popped(a.stack)
             IN  /\ e.made = a.made /\ e.stack = lower /\ e.unwind = a.unwind
                 /\ e.terminated = a.terminated
                 /\ e.outcome = IF t \in a.unwind /\ Current(lower) = MainOf(lower)
                                THEN "error" ELSE o
  <2> DEFINE lower == Popped(a.stack)
             c == IF t \in a.unwind /\ Current(lower) = MainOf(lower) THEN "error" ELSE o
  <2>1. Ensured(a, t, o) = [a EXCEPT !.stack = lower, !.outcome = c]
    BY DEF Ensured
  <2>2. {"stack", "made", "unwind", "terminated", "outcome"} \subseteq DOMAIN a
    BY <1>1 DEF ThreadsType
  <2> HIDE DEF lower, c
  <2>3. LET e == [a EXCEPT !.stack = lower, !.outcome = c]
        IN  /\ e.made = a.made /\ e.stack = lower /\ e.unwind = a.unwind
            /\ e.terminated = a.terminated /\ e.outcome = c
    BY <2>2
  <2> QED
    BY <2>1, <2>3 DEF lower, c
<1>2. th = [x \in DOMAIN th |-> th[x]]
  BY DEF ThreadsType
<1>3. CASE outcome # "error"
  BY <1>1, <1>2, <1>3 DEF ThreadEnds, Leaves
<1>4. CASE outcome = "error"
  <2> DEFINE u == IF aborts THEN th.unwind \cup Members(th.stack) ELSE th.unwind
             r == Rescued(th, t, aborts)
  <2>1. CASE t \in th.unwind
    <3>1. r = th
      BY <2>1 DEF Rescued
    <3> QED
      BY <1>1, <1>2, <1>4, <2>1, <3>1 DEF ThreadEnds, Leaves
  <2>2. CASE t \notin th.unwind
    <3>1. r = [th EXCEPT !.terminated = th.terminated \cup {t}, !.unwind = u]
      BY <2>2 DEF Rescued, Members
    <3> HIDE DEF u
    <3>2. /\ r.stack = th.stack /\ r.made = th.made /\ r.unwind = u
          /\ r.terminated = th.terminated \cup {t} /\ DOMAIN r = DOMAIN th
          /\ r = [x \in DOMAIN r |-> r[x]]
      BY <3>1 DEF ThreadsType
    <3> HIDE DEF r
    <3>3. ThreadEnds(th, t, aborts, outcome) = Ensured(r, t, "value")
      BY <1>4 DEF ThreadEnds, r
    <3> QED
      BY <1>1, <1>4, <2>2, <3>2, <3>3 DEF u, Leaves
  <2> QED
    BY <2>1, <2>2
<1> QED
  BY <1>3, <1>4

(* The thread around the innermost one is the main one, if they are two.   *)
LEMMA SecondIsNextToMain ==
    ASSUME NEW stack \in Seq(Thread), NEW made, NEW unwind, Ages(stack, made, unwind),
           Len(stack) > 1, stack[1] = Main
    PROVE  Current(Popped(stack)) = MainOf(Popped(stack)) <=> Len(stack) = 2
<1> DEFINE n == Len(stack)
           lower == Popped(stack)
<1>1. n \in Nat /\ n > 1 /\ n - 1 \in Nat /\ n - 1 <= n /\ n - 1 >= 1
  BY LenProperties
<1>2. lower = UpTo(stack, n - 1)
  BY EmptySeq DEF Popped, UpTo, Between
<1> DEFINE m == n - 1
<1> HIDE DEF n, m, lower
<1>3. m \in Nat /\ m <= Len(stack) /\ lower = UpTo(stack, m)
  BY <1>1, <1>2 DEF m, n
<1>4. Len(lower) = m /\ \A k \in 1..m : lower[k] = stack[k]
  BY <1>3, UpTos
<1>5. m >= 1 /\ m \in 1..m /\ 1 \in 1..m /\ n = m + 1 /\ n = Len(stack)
  BY <1>1 DEF m, n
<1>6. lower # <<>>
  <2>1. Len(<<>>) = 0
    OBVIOUS
  <2> QED
    BY <1>4, <1>5, <2>1
<1>7. Current(lower) = stack[m] /\ MainOf(lower) = stack[1]
  BY <1>4, <1>5, <1>6 DEF Current, MainOf, Latest
<1>8. CASE m = 1
  BY <1>5, <1>7, <1>8 DEF lower, n
<1>9. CASE m # 1
  <2>1. 1 \in 1..Len(stack) /\ m \in 1..Len(stack) /\ 1 < m
    BY <1>3, <1>5, <1>9
  <2>2. stack[1] < stack[m] /\ stack[1] \in Nat /\ stack[m] \in Nat
    BY <2>1, ElementOfSeq DEF Ages, Thread
  <2> QED
    BY <1>3, <1>5, <1>7, <1>9, <2>2 DEF lower, n
<1> QED
  BY <1>8, <1>9

(* The end of a Thread's block.                                            *)
LEMMA ThreadsEnd ==
    ASSUME NEW th, Aged(th), th.frames # <<>>, Latest(th.frames).holds = {},
           NEW outcome \in Outcomes
    PROVE  LET left == FrameEnds(th, outcome)
               frame == Latest(th.frames)
               failed == outcome = "error" /\ frame.of \notin th.unwind
           IN  /\ frame.of = Current(th.stack) /\ frame.aborts \in BOOLEAN
               /\ Len(th.stack) \in Nat /\ Len(th.stack) > 1
               /\ left.made = th.made /\ left.stack = Popped(th.stack)
               /\ left.unwind = IF failed /\ frame.aborts THEN th.unwind \cup Members(th.stack)
                                ELSE th.unwind
               /\ left.terminated = IF failed THEN th.terminated \cup {frame.of} ELSE th.terminated
               /\ left.outcome = IF frame.of \in left.unwind /\ Len(th.stack) = 2 THEN "error"
                                 ELSE IF outcome = "error" THEN "value" ELSE outcome
<1> DEFINE frame == Latest(th.frames)
           less == Popped(th.frames)
           lower == Popped(th.stack)
           inner == [th EXCEPT !.frames = less]
           left == FrameEnds(th, outcome)
<1>1. /\ ThreadsType(th) /\ th.stack \in Seq(Thread) /\ th.frames \in Seq(Frame)
      /\ Stacked(th.stack, th.frames) /\ Ages(th.stack, th.made, th.unwind)
  BY DEF Aged, Nested, ThreadsType
<1>2. /\ frame \in Frame /\ frame.of = Current(th.stack)
      /\ less \in Seq(Frame) /\ lower \in Seq(Thread) /\ Stacked(lower, less)
  BY <1>1, BlockEnds
<1>3. left = ThreadEnds(inner, frame.of, frame.aborts, outcome)
  BY DEF FrameEnds
<1> HIDE DEF left, less
<1>4. /\ ThreadsType(inner) /\ inner.stack = th.stack /\ inner.made = th.made
      /\ inner.unwind = th.unwind /\ inner.terminated = th.terminated
  BY <1>1, <1>2 DEF ThreadsType
<1> HIDE DEF inner, frame
<1>5. frame.of \in Nat /\ frame.aborts \in BOOLEAN
  BY <1>2 DEF Frame, Thread
<1>6. Len(th.stack) \in Nat /\ Len(th.stack) > 1 /\ th.stack[1] = Main
  <2>1. /\ Len(th.stack) \in Thread /\ th.stack[1] = Main /\ th.stack # <<>>
        /\ Len(lower) \in Thread
    BY <1>1, <1>2, Stacks
  <2>2. Len(lower) = Len(th.stack) - 1
    <3>1. Len(th.stack) - 1 \in Nat /\ Len(th.stack) - 1 <= Len(th.stack)
      BY <2>1 DEF Thread
    <3> DEFINE m == Len(th.stack) - 1
    <3>2. lower = UpTo(th.stack, m)
      BY <2>1 DEF Popped, UpTo, Between
    <3> HIDE DEF m
    <3>3. m \in Nat /\ m <= Len(th.stack)
      BY <3>1 DEF m
    <3>4. Len(UpTo(th.stack, m)) = m
      BY <1>1, <3>3, UpTos
    <3> QED
      BY <3>2, <3>4 DEF m
  <2> HIDE DEF lower
  <2>3. Len(th.stack) \in Nat /\ Len(th.stack) - 1 \in Nat /\ Len(th.stack) - 1 # 0
    BY <2>1, <2>2 DEF Thread
  <2>4. Len(th.stack) > 1
    <3>1. \A k \in Nat : k - 1 \in Nat /\ k - 1 # 0 => k > 1
      OBVIOUS
    <3> QED
      BY <2>3, <3>1
  <2> QED
    BY <2>1, <2>3, <2>4
<1>7. Current(lower) = MainOf(lower) <=> Len(th.stack) = 2
  BY <1>1, <1>6, SecondIsNextToMain
<1> HIDE DEF lower
<1> DEFINE t == frame.of
           aborts == frame.aborts
<1>8. t = frame.of /\ aborts = frame.aborts /\ t \in Nat /\ aborts \in BOOLEAN
      /\ left = ThreadEnds(inner, t, aborts, outcome)
  BY <1>3, <1>5
<1> HIDE DEF t, aborts
<1>9. Leaves(left, inner, t, aborts, outcome)
  BY <1>4, <1>8, EndsUnwind
<1> QED
  BY <1>2, <1>4, <1>5, <1>6, <1>7, <1>8, <1>9 DEF left, frame, lower, Leaves

LEMMA CallsKeepAges ==
    ASSUME NEW th, Aged(th), NEW left \in Calls(th)
    PROVE  Ages(left.stack, left.made, left.unwind) /\ th.unwind \subseteq left.unwind
<1>1. /\ Nested(th) /\ ThreadsType(th) /\ th.stack \in Seq(Thread) /\ th.made \in Thread
      /\ th.frames \in Seq(Frame) /\ th.unwind \in SUBSET Nat
      /\ Stacked(th.stack, th.frames) /\ Ages(th.stack, th.made, th.unwind)
  BY DEF Aged, Nested, ThreadsType
<1>2. Keeps(left, th) => Ages(left.stack, left.made, left.unwind) /\ th.unwind \subseteq left.unwind
  BY <1>1 DEF Keeps
<1>3. CASE left \in {NewThread(th, aborts) : aborts \in BOOLEAN}
  <2>1. PICK aborts \in BOOLEAN : left = NewThread(th, aborts)
    BY <1>3
  <2>2. /\ left.made = th.made + 1 /\ left.stack = Append(th.stack, th.made + 1)
        /\ left.unwind = th.unwind
    BY <1>1, <2>1 DEF NewThread, ThreadsType
  <2> QED
    BY <1>1, <2>2, AgesGrow
<1>4. CASE left \in {Synchronize(th, m) : m \in Mutex} \cup {Sleep(th, m) : m \in Mutex}
  <2>1. PICK m \in Mutex : left = Synchronize(th, m) \/ left = Sleep(th, m)
    BY <1>4
  <2> QED
    BY <1>1, <1>2, <2>1, MutexKeeps
<1>5. CASE left \in {Unlock(th, m, "value") : m \in Mutex}
  <2>1. PICK m \in Mutex : left = Unlock(th, m, "value")
    BY <1>5
  <2>2. "value" \in Outcomes
    BY DEF Outcomes
  <2> QED
    BY <1>1, <1>2, <2>1, <2>2, UnlocksKeep
<1>6. CASE th.frames # <<>> /\ left \in {FrameEnds(th, outcome) : outcome \in Outcomes}
  <2>1. PICK outcome \in Outcomes : left = FrameEnds(th, outcome)
    BY <1>6
  <2> DEFINE frame == Latest(th.frames)
             less == Popped(th.frames)
  <2>2. frame \in Frame /\ less \in Seq(Frame)
    BY <1>1, <1>6, BlockEnds
  <2>3. CASE frame.holds = {}
    <3>1. /\ left.made = th.made /\ left.stack = Popped(th.stack)
          /\ left.unwind = th.unwind \/ left.unwind = th.unwind \cup Members(th.stack)
      BY <1>6, <2>1, <2>3, ThreadsEnd
    <3>2. th.stack # <<>>
      BY <1>1, Stacks
    <3>3. Ages(th.stack, th.made, left.unwind)
      BY <1>1, <3>1, AgesFall
    <3> QED
      BY <1>1, <3>1, <3>2, <3>3, AgesPop
  <2>4. CASE frame.holds # {}
    <3> DEFINE inner == [th EXCEPT !.frames = less]
               m == CHOOSE k \in frame.holds : TRUE
    <3>1. m \in Mutex
      BY <2>2, <2>4 DEF Frame
    <3>2. left = Unlock(inner, m, outcome)
      BY <2>1, <2>4 DEF FrameEnds
    <3> HIDE DEF less, m
    <3>3. ThreadsType(inner) /\ Keeps(inner, th)
      BY <1>1, <2>2 DEF ThreadsType, Keeps
    <3> HIDE DEF inner
    <3>4. Keeps(left, inner)
      BY <3>1, <3>2, <3>3, UnlocksKeep
    <3> QED
      BY <1>2, <3>3, <3>4 DEF Keeps
  <2> QED
    BY <2>3, <2>4
<1> QED
  BY <1>3, <1>4, <1>5, <1>6 DEF Calls

(* abort_on_exception: a thread that fails takes with it all those around  *)
(* it and no others, whatever has been unwound before: not those that are  *)
(* made later. They unwind to the main thread: the end of a thread raises  *)
(* only where it is next to that one and unwinds, and else is a value, or  *)
(* what no rescue takes.                                                   *)
THEOREM AbortsUnwind ==
    /\ Aged(Start)
    /\ \A th : Aged(th) =>
          /\ \A left \in Calls(th) : Aged(left) /\ th.unwind \subseteq left.unwind
          /\ \A aborts \in BOOLEAN : LET left == NewThread(th, aborts) IN
                Current(left.stack) \notin left.unwind
          /\ th.frames # <<>> /\ Latest(th.frames).holds = {} =>
                \A outcome \in Outcomes :
                    LET left == FrameEnds(th, outcome)
                        frame == Latest(th.frames)
                        fell == outcome = "error" /\ frame.aborts
                    IN  /\ left.unwind = IF fell THEN th.unwind \cup Members(th.stack) ELSE th.unwind
                        /\ left.outcome =
                              IF frame.of \in left.unwind /\ Len(th.stack) = 2 THEN "error"
                              ELSE IF outcome = "error" THEN "value" ELSE outcome
<1>1. Aged(Start)
  <2>1. Nested(Start)
    BY ThreadsStayNested
  <2>2. Start.stack = <<Main>> /\ Start.made = Main /\ Start.unwind = {}
    BY DEF Start
  <2>3. Len(<<Main>>) = 1 /\ <<Main>>[1] = Main /\ Main \in Nat
    BY DEF Main
  <2>4. Ages(<<Main>>, Main, {})
    BY <2>3 DEF Ages
  <2> QED
    BY <2>1, <2>2, <2>4 DEF Aged
<1>2. ASSUME NEW th, Aged(th), NEW left \in Calls(th)
      PROVE  Aged(left) /\ th.unwind \subseteq left.unwind
  <2>1. Nested(left)
    BY <1>2, ThreadsStayNested DEF Aged
  <2> QED
    BY <1>2, <2>1, CallsKeepAges DEF Aged
<1>3. ASSUME NEW th, Aged(th), NEW aborts \in BOOLEAN
      PROVE  Current(NewThread(th, aborts).stack) \notin NewThread(th, aborts).unwind
  <2> DEFINE t == th.made + 1
  <2>1. /\ ThreadsType(th) /\ th.stack \in Seq(Thread) /\ th.made \in Nat /\ t \in Thread
        /\ \A k \in th.unwind : k <= th.made
    BY <1>3 DEF Aged, Nested, ThreadsType, Ages, Thread
  <2>2. t \notin th.unwind
    BY <2>1
  <2>3. NewThread(th, aborts).stack = Append(th.stack, t) /\ NewThread(th, aborts).unwind = th.unwind
    BY <2>1 DEF NewThread, ThreadsType
  <2> HIDE DEF t
  <2>4. Current(Append(th.stack, t)) = t
    <3>1. /\ Append(th.stack, t) \in Seq(Thread) /\ Len(Append(th.stack, t)) = Len(th.stack) + 1
          /\ Append(th.stack, t)[Len(th.stack) + 1] = t
      BY <2>1, AppendProperties
    <3>2. Append(th.stack, t) # <<>>
      <4>1. Len(th.stack) \in Nat /\ Len(<<>>) = 0
        BY <2>1, LenProperties
      <4>2. Len(th.stack) + 1 # 0
        BY <4>1
      <4> QED
        BY <3>1, <4>1, <4>2
    <3> QED
      BY <3>1, <3>2 DEF Current, Latest
  <2> QED
    BY <2>2, <2>3, <2>4
<1>4. ASSUME NEW th, Aged(th), th.frames # <<>>, Latest(th.frames).holds = {},
             NEW outcome \in Outcomes
      PROVE  LET left == FrameEnds(th, outcome)
                 frame == Latest(th.frames)
                 fell == outcome = "error" /\ frame.aborts
             IN  /\ left.unwind = IF fell THEN th.unwind \cup Members(th.stack) ELSE th.unwind
                 /\ left.outcome =
                       IF frame.of \in left.unwind /\ Len(th.stack) = 2 THEN "error"
                       ELSE IF outcome = "error" THEN "value" ELSE outcome
  <2> DEFINE left == FrameEnds(th, outcome)
             frame == Latest(th.frames)
             fell == outcome = "error" /\ frame.aborts
  <2>1. /\ frame.of = Current(th.stack) /\ Len(th.stack) \in Nat /\ Len(th.stack) > 1
        /\ left.unwind = IF fell /\ frame.of \notin th.unwind THEN th.unwind \cup Members(th.stack)
                         ELSE th.unwind
        /\ left.outcome = IF frame.of \in left.unwind /\ Len(th.stack) = 2 THEN "error"
                          ELSE IF outcome = "error" THEN "value" ELSE outcome
    BY <1>4, ThreadsEnd
  <2>2. frame.of \in th.unwind => Members(th.stack) \subseteq th.unwind
    <3>1. th.stack \in Seq(Thread) /\ Stacked(th.stack, th.frames) /\ th.frames \in Seq(Frame)
      BY <1>4 DEF Aged, Nested, ThreadsType
    <3>2. Current(th.stack) = th.stack[Len(th.stack)] /\ DOMAIN th.stack = 1..Len(th.stack)
      BY <3>1, Stacks, LenProperties
    <3>3. Len(th.stack) \in 1..Len(th.stack) /\ \A i \in 1..Len(th.stack) : i <= Len(th.stack)
      BY <2>1
    <3>4. th.stack[Len(th.stack)] \in th.unwind =>
             \A i \in 1..Len(th.stack) : th.stack[i] \in th.unwind
      BY <1>4, <3>3 DEF Aged, Ages
    <3> QED
      BY <2>1, <3>2, <3>4 DEF Members
  <2> HIDE DEF left, frame
  <2> QED
    BY <2>1, <2>2 DEF left, frame
<1> QED
  BY <1>1, <1>2, <1>3, <1>4

-----------------------------------------------------------------------------
(* Positions.                                                              *)

(* Two's complement: what leaves a word comes in at the other end.         *)
LEMMA RubyWraps ==
    ASSUME MaxInt \in Nat, NEW k \in Int
    PROVE  /\ k \in Word => Wrapped(k) = k
           /\ k = MaxInt + 1 => Wrapped(k) = -MaxInt - 1
           /\ -3 * MaxInt - 3 <= k /\ k < -MaxInt - 1 => Wrapped(k) = k + 2 * MaxInt + 2
<1> DEFINE n == 2 * (MaxInt + 1)
           x == k + MaxInt + 1
<1>1. n \in Nat \ {0} /\ x \in Int /\ n = 2 * MaxInt + 2
      /\ Wrapped(k) = (x % n) - MaxInt - 1
  BY DEF Wrapped
<1>2. CASE k \in Word
  <2>1. 0 <= x /\ x < n /\ x = 0 * n + x
    BY <1>1, <1>2 DEF Word
  <2> HIDE DEF x, n
  <2>2. x % n = x
    BY <1>1, <2>1, RemainderIs
  <2> QED
    BY <1>1, <1>2, <2>2 DEF x, Word
<1>3. CASE k = MaxInt + 1
  <2>1. x = 1 * n + 0 /\ 0 < n
    BY <1>1, <1>3
  <2> HIDE DEF x, n
  <2>2. x % n = 0
    BY <1>1, <2>1, RemainderIs
  <2> QED
    BY <1>1, <1>3, <2>2 DEF x, Word
<1>4. CASE -3 * MaxInt - 3 <= k /\ k < -MaxInt - 1
  <2>1. x = (-1) * n + (x + n) /\ 0 <= x + n /\ x + n < n /\ x + n \in Int /\ -1 \in Int
    BY <1>1, <1>4
  <2> HIDE DEF x, n
  <2>2. x % n = x + n
    BY <1>1, <2>1, RemainderIs
  <2>3. x = k + MaxInt + 1
    BY DEF x
  <2> QED
    BY <1>1, <1>4, <2>2, <2>3 DEF Word
<1> QED
  BY <1>2, <1>3, <1>4

(* mrb_range_beg_len, whose sums wrap: it has the positions of each Range  *)
(* of Integers, whatever its ends, but for those from the first to the     *)
(* largest Integer, for which it has none.                                 *)
THEOREM RangesHavePositions ==
    ASSUME MaxInt \in Nat, Nil \notin Int, NEW len \in 0..MaxInt,
           NEW range \in [beg : Word \cup {Nil}, end : Word \cup {Nil}, excl : BOOLEAN]
    PROVE  LET part == BegLen(range, len)
               first == FirstOf(range, len)
           IN  /\ first < 0 => part = RangeOut
               /\ first >= 0 => part.start = first /\ part.len \in Nat
               /\ first >= 0 /\ ~(first = 0 /\ EndOverflows(range)) =>
                     \A i \in 0..(len - 1) :
                         part.start <= i /\ i < part.start + part.len <=> InRange(range, len, i)
               /\ first = 0 /\ EndOverflows(range) => part.len = 0
<1> DEFINE part == BegLen(range, len)
           first == FirstOf(range, len)
           last == IF range.end = Nil THEN -1 ELSE range.end
           counted == FromEnd(last, len)
           closed == ~(range.excl /\ range.end # Nil)
           upto == IF closed THEN counted + 1 ELSE counted
           end == IF closed THEN Wrapped(counted + 1) ELSE counted
           size == Wrapped(end - first)
<1>1. /\ MaxInt \in Int /\ MaxInt >= 0 /\ len \in Int /\ 0 <= len /\ len <= MaxInt
      /\ range.beg # Nil => range.beg \in Int /\ -MaxInt - 1 <= range.beg /\ range.beg <= MaxInt
      /\ range.end # Nil => range.end \in Int /\ -MaxInt - 1 <= range.end /\ range.end <= MaxInt
      /\ range.excl \in BOOLEAN
  BY DEF Word
<1>2. first \in Int /\ first <= MaxInt
  BY <1>1 DEF FirstOf, FromEnd
<1>3. part = IF first < 0 THEN RangeOut
             ELSE [start |-> first, len |-> IF size < 0 THEN 0 ELSE size]
  <2>1. first = IF range.beg = Nil THEN 0
                ELSE IF range.beg < 0 THEN range.beg + len ELSE range.beg
    BY DEF FirstOf, FromEnd
  <2>2. counted = IF last < 0 THEN last + len ELSE last
    BY DEF FromEnd
  <2>3. end = IF range.excl /\ range.end # Nil THEN counted ELSE Wrapped(counted + 1)
    OBVIOUS
  <2> QED
    BY <2>1, <2>2, <2>3 DEF BegLen, FirstOf, FromEnd
<1>4. /\ last \in Int /\ counted \in Int /\ -MaxInt - 1 <= counted /\ counted <= MaxInt
      /\ counted = MaxInt => last = MaxInt /\ range.end = MaxInt
      /\ last < 0 => counted = last + len
      /\ last >= 0 => counted = last
  BY <1>1 DEF FromEnd
<1>5. ASSUME NEW i \in 0..(len - 1)
      PROVE  InRange(range, len, i) <=> first <= i /\ i < upto
  <2>1. CASE range.end = Nil
    <3>1. upto = len
      BY <1>1, <2>1 DEF FromEnd
    <3> QED
      BY <1>1, <2>1, <3>1 DEF InRange
  <2>2. CASE range.end # Nil
    <3>1. counted = FromEnd(range.end, len)
      BY <2>2
    <3>2. CASE range.excl
      BY <2>2, <3>1, <3>2 DEF InRange
    <3>3. CASE ~range.excl
      <4>1. upto = counted + 1
        BY <3>3
      <4>2. i < counted + 1 <=> i <= counted
        BY <1>4
      <4> QED
        BY <2>2, <3>1, <3>3, <4>1, <4>2 DEF InRange
    <3> QED
      BY <3>2, <3>3
  <2> QED
    BY <2>1, <2>2
<1>6. EndOverflows(range) <=> upto = MaxInt + 1
  <2>1. CASE range.end = Nil
    <3>1. upto = len /\ range.end # MaxInt
      BY <1>1, <2>1 DEF FromEnd
    <3> QED
      BY <1>1, <3>1 DEF EndOverflows
  <2>2. CASE range.end # Nil /\ range.excl
    <3>1. upto = counted
      BY <2>2
    <3> QED
      BY <1>1, <1>4, <2>2, <3>1 DEF EndOverflows
  <2>3. CASE range.end # Nil /\ ~range.excl
    <3>1. upto = counted + 1 /\ (range.end = MaxInt => counted = MaxInt)
      BY <1>1, <2>3 DEF FromEnd
    <3> QED
      BY <1>1, <1>4, <2>3, <3>1 DEF EndOverflows
  <2> QED
    BY <1>1, <2>1, <2>2, <2>3
<1>7. upto \in Int /\ -MaxInt - 1 <= upto /\ upto <= MaxInt + 1
  BY <1>1, <1>2, <1>4
<1>8. upto >= len - MaxInt - 1 \/ upto >= 0
  BY <1>1, <1>4
<1>9. /\ upto <= MaxInt => end = upto
      /\ upto = MaxInt + 1 => end = -MaxInt - 1
  <2>1. CASE closed
    <3>1. end = Wrapped(counted + 1) /\ upto = counted + 1 /\ counted + 1 \in Int
      BY <1>4, <2>1
    <3>2. counted + 1 <= MaxInt => counted + 1 \in Word
      BY <1>1, <1>4 DEF Word
    <3> HIDE DEF end, upto, counted
    <3> QED
      BY <1>1, <3>1, <3>2, RubyWraps
  <2>2. CASE ~closed
    <3>1. end = counted /\ upto = counted
      BY <2>2
    <3> QED
      BY <1>1, <1>4, <3>1
  <2> QED
    BY <2>1, <2>2
<1> HIDE DEF part, first, last, counted, upto, end, closed
<1>10. CASE first < 0
  <2>1. part = RangeOut /\ ~(first >= 0) /\ ~(first = 0)
    BY <1>2, <1>3, <1>10
  <2> HIDE DEF size
  <2> QED
    BY <2>1 DEF part, first
<1>11. CASE first >= 0
  <2> DEFINE count == IF size < 0 THEN 0 ELSE size
  <2>1. part.start = first /\ part.len = count
    BY <1>2, <1>3, <1>11
  <2>2. CASE upto <= MaxInt /\ upto - first >= -MaxInt - 1
    <3>1. size = upto - first
      <4>1. end - first \in Int /\ end - first \in Word /\ end - first = upto - first
        BY <1>1, <1>2, <1>7, <1>9, <1>11, <2>2 DEF Word
      <4> HIDE DEF size
      <4> QED
        BY <4>1, RubyWraps DEF size
    <3> HIDE DEF size
    <3>2. part.len \in Nat /\ \A i \in 0..(len - 1) :
              (part.start <= i /\ i < part.start + part.len <=> first <= i /\ i < upto)
      BY <1>1, <1>2, <1>7, <1>11, <2>1, <3>1
    <3>3. ~EndOverflows(range)
      BY <1>1, <1>6, <2>2
    <3> QED
      BY <1>2, <1>5, <1>11, <2>1, <3>2, <3>3 DEF part, first
  <2>3. CASE upto <= MaxInt /\ upto - first < -MaxInt - 1
    <3>1. size = upto - first + 2 * MaxInt + 2
      <4>1. end - first \in Int /\ end - first = upto - first
            /\ -3 * MaxInt - 3 <= end - first /\ end - first < -MaxInt - 1
        BY <1>1, <1>2, <1>7, <1>9, <1>11, <2>3
      <4> HIDE DEF size
      <4> QED
        BY <4>1, RubyWraps DEF size
    <3> HIDE DEF size
    <3>2. part.len \in Nat /\ first > len /\ upto <= first
      BY <1>1, <1>2, <1>7, <1>8, <1>11, <2>1, <2>3, <3>1
    <3>3. \A i \in 0..(len - 1) :
              (part.start <= i /\ i < part.start + part.len <=> first <= i /\ i < upto)
      BY <1>1, <1>2, <2>1, <3>2
    <3>4. ~EndOverflows(range)
      BY <1>1, <1>6, <2>3
    <3> QED
      BY <1>2, <1>5, <1>11, <2>1, <3>2, <3>3, <3>4 DEF part, first
  <2>4. CASE upto = MaxInt + 1 /\ first = 0
    <3>1. size = -MaxInt - 1
      <4>1. end - first \in Int /\ end - first \in Word /\ end - first = -MaxInt - 1
        BY <1>1, <1>2, <1>9, <2>4 DEF Word
      <4> HIDE DEF size
      <4> QED
        BY <4>1, RubyWraps DEF size
    <3> HIDE DEF size
    <3>2. part.len = 0
      BY <1>1, <2>1, <3>1
    <3> QED
      BY <1>6, <2>1, <2>4, <3>2 DEF part, first
  <2>5. CASE upto = MaxInt + 1 /\ first > 0
    <3>1. size = MaxInt + 1 - first
      <4>1. /\ end - first \in Int /\ end - first = -MaxInt - 1 - first
            /\ -3 * MaxInt - 3 <= end - first /\ end - first < -MaxInt - 1
            /\ end - first + 2 * MaxInt + 2 = MaxInt + 1 - first
        BY <1>1, <1>2, <1>9, <2>5
      <4> HIDE DEF size
      <4> QED
        BY <4>1, RubyWraps DEF size
    <3> HIDE DEF size
    <3>2. part.len \in Nat /\ \A i \in 0..(len - 1) :
              (part.start <= i /\ i < part.start + part.len <=> first <= i /\ i < upto)
      BY <1>1, <1>2, <1>11, <2>1, <2>5, <3>1
    <3> QED
      BY <1>2, <1>5, <1>11, <2>1, <2>5, <3>2 DEF part, first
  <2> QED
    BY <1>1, <1>2, <1>7, <1>11, <2>2, <2>3, <2>4, <2>5
<1> QED
  BY <1>2, <1>10, <1>11


(* A sequence has the values after a position.                            *)
HasAt(s, index, values) == \A k \in 1..Len(values) : s[index + k] = values[k]

LEMMA SplicedType ==
    ASSUME NEW S, Nil \in S, NEW s \in Seq(S), NEW index \in Nat, NEW d \in Nat,
           NEW values \in Seq(S), index + d <= Len(s) \/ (index >= Len(s) /\ d = 0)
    PROVE  LET t == Spliced(s, index, d, values)
           IN  /\ t \in Seq(S) /\ Len(t) \in Nat
               /\ index + Len(values) <= Len(t)
               /\ HasAt(t, index, values)
<1> DEFINE t == Spliced(s, index, d, values)
           n == Len(values)
           len == SplicedLen(s, index, d, values)
           e(k) == SplicedAt(s, index, d, values, k)
<1>1. Len(s) \in Nat /\ n \in Nat
  BY LenProperties
<1>2. /\ len \in Nat /\ index + n <= len
      /\ len = IF index > Len(s) THEN index + n ELSE Len(s) - d + n
  BY <1>1 DEF SplicedLen
<1>3. ASSUME NEW k \in 1..len PROVE e(k) \in S
  <2>1. CASE k <= index /\ k <= Len(s)
    <3>1. e(k) = s[k] /\ k \in 1..Len(s)
      BY <1>1, <2>1 DEF SplicedAt
    <3> QED
      BY <3>1, ElementOfSeq
  <2>2. CASE k <= index /\ ~(k <= Len(s))
    BY <2>2 DEF SplicedAt
  <2>3. CASE ~(k <= index) /\ k <= index + n
    <3>1. e(k) = values[k - index] /\ k - index \in 1..n
      BY <1>1, <2>3 DEF SplicedAt
    <3> QED
      BY <3>1, ElementOfSeq
  <2>4. CASE ~(k <= index) /\ ~(k <= index + n)
    <3>1. e(k) = s[k - n + d]
      BY <2>4 DEF SplicedAt
    <3>2. k - n + d \in 1..Len(s)
      BY <1>1, <1>2, <2>4
    <3> QED
      BY <3>1, <3>2, ElementOfSeq
  <2> QED
    BY <2>1, <2>2, <2>3, <2>4
<1>4. \A k \in 1..n : index + k \in 1..len /\ e(index + k) = values[k]
  <2>1. ASSUME NEW k \in 1..n PROVE index + k \in 1..len /\ e(index + k) = values[k]
    <3>1. ~(index + k <= index) /\ index + k <= index + n /\ index + k - index = k
      BY <1>1
    <3> QED
      BY <1>1, <1>2, <3>1 DEF SplicedAt
  <2> QED
    BY <2>1
<1>5. t = [k \in 1..len |-> e(k)]
  BY DEF Spliced
<1> HIDE DEF len, e, t
<1>6. t \in [1..len -> S] /\ \A k \in 1..len : t[k] = e(k)
  BY <1>3, <1>5
<1>7. t \in Seq(S) /\ Len(t) = len
  BY <1>2, <1>6, Listed
<1>8. HasAt(t, index, values)
  BY <1>4, <1>6 DEF HasAt
<1> QED
  BY <1>2, <1>7, <1>8 DEF t

LEMMA Resolves ==
    ASSUME MaxInt \in Nat, NEW len \in 0..MaxInt, NEW index \in Word
    PROVE  Resolve(index, len) = IF FromEnd(index, len) < 0 THEN NoIndex
                                      ELSE FromEnd(index, len)
BY DEF Word, FromEnd, Resolve, NoIndex

-----------------------------------------------------------------------------
(* Parts of arrays.                                                        *)

LEMMA ReadsFromFront ==
    ASSUME NEW a, NEW i \in Nat
    PROVE  ElementAt(a, i) = IF i < Len(a) THEN a[i + 1] ELSE Nil
<1>1. Len(a) \in Nat => (i >= Len(a) <=> ~(i < Len(a)))
  OBVIOUS
<1> QED
  BY <1>1 DEF ElementAt, Resolve, NoIndex

LEMMA ReadsIndex ==
    ASSUME MaxInt \in Nat, NEW S, NEW a \in Seq(S), Len(a) <= MaxInt, NEW index \in Word
    PROVE  LET i == FromEnd(index, Len(a)) IN
           /\ ElementAt(a, index) = IF i \in 0..(Len(a) - 1) THEN a[i + 1] ELSE Nil
           /\ GroupAt(a, index) = IF index = -Len(a) THEN Nil ELSE ElementAt(a, index)
<1> DEFINE i == FromEnd(index, Len(a))
<1>1. Len(a) \in 0..MaxInt /\ index \in Int /\ i \in Int
  BY LenProperties DEF Word, FromEnd
<1>2. Resolve(index, Len(a)) = IF i < 0 THEN -1 ELSE i
  BY <1>1, Resolves DEF NoIndex
<1>3. ElementAt(a, index) = IF i \in 0..(Len(a) - 1) THEN a[i + 1] ELSE Nil
  <2> HIDE DEF i
  <2> QED
    BY <1>1, <1>2 DEF ElementAt, NoIndex
<1>4. index = -Len(a) => i = 0 /\ (index = 0 => Len(a) = 0)
  BY <1>1 DEF FromEnd
<1>5. index < 0 /\ i = 0 => index = -Len(a)
  BY <1>1 DEF FromEnd
<1>6. GroupAt(a, index) = IF i \in 0..(Len(a) - 1) /\ ~(index < 0 /\ i = 0) THEN a[i + 1] ELSE Nil
  <2> HIDE DEF i
  <2> QED
    BY <1>1, <1>2 DEF GroupAt, NoIndex
<1>7. GroupAt(a, index) = IF index = -Len(a) THEN Nil ELSE ElementAt(a, index)
  <2> HIDE DEF i
  <2>1. CASE index = -Len(a)
    <3>1. index < 0 \/ ~(i \in 0..(Len(a) - 1))
      BY <1>1, <1>4, <2>1
    <3> QED
      BY <1>4, <1>6, <2>1, <3>1
  <2>2. CASE index # -Len(a)
    BY <1>3, <1>5, <1>6, <2>2
  <2> QED
    BY <2>1, <2>2
<1> QED
  BY <1>3, <1>7

(* The part from i on, however it is cut out.                              *)
Part(a, i, count) == SubSeq(a, i + 1, Least(Len(a), i + count))

(* What p has is in a, from i on; and what t has from i on is in a from j. *)
CopiedFrom(p, a, i) == \A k \in 1..Len(p) : p[k] = a[i + k]
Follows(t, i, a, j) == \A k \in Nat : ElementAt(t, i + k) = ElementAt(a, j + k)

LEMMA Parts ==
    ASSUME NEW S, NEW a \in Seq(S), NEW i \in 0..Len(a), NEW count \in Nat
    PROVE  LET m == Least(Len(a) - i, count) IN
           /\ Part(a, i, count) \in Seq(S) /\ Len(Part(a, i, count)) = m
           /\ CopiedFrom(Part(a, i, count), a, i)
           /\ m \in Nat /\ i + m = Least(Len(a), i + count)
<1> DEFINE m == Least(Len(a) - i, count)
           j == Least(Len(a), i + count)
<1>1. Len(a) \in Nat /\ i \in Nat /\ i <= Len(a) /\ m \in Nat /\ j \in Nat /\ i <= j /\ j <= Len(a)
      /\ j - i = m /\ i + m = j
  BY LenProperties DEF Least
<1>2. Part(a, i, count) = Between(a, i, j)
  BY DEF Part, Between
<1> HIDE DEF m, j
<1>3. ASSUME NEW h \in Nat, NEW e \in Nat, h <= e, e <= Len(a)
      PROVE  /\ Between(a, h, e) \in Seq(S) /\ Len(Between(a, h, e)) = e - h
             /\ CopiedFrom(Between(a, h, e), a, h)
  <2>1. /\ Between(a, h, e) \in Seq(S) /\ Len(Between(a, h, e)) = e - h
        /\ \A k \in 1..(e - h) : Between(a, h, e)[k] = a[h + k]
    BY <1>3, Betweens
  <2> QED
    BY <2>1 DEF CopiedFrom
<1> QED
  BY <1>1, <1>2, <1>3 DEF m, j

LEMMA SliceIsPart ==
    ASSUME NEW S, NEW a \in Seq(S), NEW i \in 0..Len(a), NEW count \in Nat
    PROVE  Slice(a, i, count) = Part(a, i, count)
<1>1. Len(a) \in Nat /\ i \in Nat /\ ~(i > Len(a))
  BY LenProperties
<1>2. CASE a = <<>> \/ count = 0
  <2>1. Least(Len(a), i + count) < i + 1 /\ Least(Len(a), i + count) \in Nat
    BY <1>1, <1>2 DEF Least
  <2>2. Part(a, i, count) = <<>>
    BY <1>1, <2>1, SubSeqEmpty DEF Part
  <2> QED
    BY <1>2, <2>2 DEF Slice
<1>3. CASE a # <<>> /\ count # 0
  <2>1. Least(Len(a), i + count) = IF i + count <= Len(a) THEN i + count ELSE Len(a)
    BY <1>1 DEF Least
  <2> QED
    BY <1>1, <1>3, <2>1 DEF Slice, Part, Between, Onward
<1> QED
  BY <1>2, <1>3

LEMMA FirstOfRestIsPart ==
    ASSUME NEW S, NEW a \in Seq(S), NEW i \in Nat, NEW count \in Nat
    PROVE  FirstN(DropN(a, i), count) = IF i > Len(a) THEN <<>> ELSE Part(a, i, count)
<1>1. Len(a) \in Nat
  BY LenProperties
<1>2. CASE i > Len(a)
  <2>1. DropN(a, i) = <<>> /\ Len(<<>>) = 0 /\ <<>> \in Seq(S)
    BY <1>1, <1>2 DEF DropN
  <2>2. UpTo(<<>>, 0) = <<>>
    BY <2>1, WholeParts
  <2> QED
    BY <1>2, <2>1, <2>2 DEF FirstN
<1>3. CASE i <= Len(a)
  <2> DEFINE t == Onward(a, i)
             m == Least(Len(a) - i, count)
             p == Part(a, i, count)
  <2>1. /\ t \in Seq(S) /\ Len(t) = Len(a) - i /\ DropN(a, i) = t
        /\ \A k \in 1..(Len(a) - i) : t[k] = a[i + k]
    BY <1>3, Onwards DEF DropN
  <2>2. /\ p \in Seq(S) /\ Len(p) = m /\ m \in Nat
        /\ \A k \in 1..m : p[k] = a[i + k]
    <3>1. i \in 0..Len(a)
      BY <1>1, <1>3
    <3>2. p \in Seq(S) /\ Len(p) = m /\ m \in Nat /\ CopiedFrom(p, a, i)
      BY <3>1, Parts
    <3> HIDE DEF p, m
    <3> QED
      BY <3>2 DEF CopiedFrom
  <2>3. m <= Len(a) - i /\ (count <= Len(a) - i => m = count) /\ (~(count <= Len(a) - i) => m = Len(a) - i)
    BY <1>1, <1>3 DEF Least
  <2> HIDE DEF t, m, p
  <2>4. CASE count <= Len(a) - i
    <3>1. /\ UpTo(t, count) \in Seq(S) /\ Len(UpTo(t, count)) = count
          /\ \A k \in 1..count : UpTo(t, count)[k] = t[k]
      BY <2>1, <2>4, UpTos
    <3> DEFINE u == UpTo(t, count)
    <3> HIDE DEF u
    <3>2. u \in Seq(S) /\ Len(u) = Len(p) /\ \A k \in 1..Len(u) : u[k] = p[k]
      BY <1>1, <1>3, <2>1, <2>2, <2>3, <2>4, <3>1 DEF u
    <3>3. u = p
      BY <2>2, <3>2, SeqEqual
    <3> QED
      BY <1>1, <1>3, <2>1, <2>4, <3>3 DEF FirstN, u, p
  <2>5. CASE ~(count <= Len(a) - i)
    <3>1. Len(t) = Len(p) /\ \A k \in 1..Len(t) : t[k] = p[k]
      BY <2>1, <2>2, <2>3, <2>5
    <3>2. t = p
      BY <2>1, <2>2, <3>1, SeqEqual
    <3> QED
      BY <1>1, <1>3, <2>1, <2>5, <3>2 DEF FirstN, p
  <2> QED
    BY <2>4, <2>5
<1> QED
  BY <1>1, <1>2, <1>3

(* Array#[] and MatchData#[] with a position and a length.                 *)
LEMMA ReadsPart ==
    ASSUME MaxInt \in Nat, NEW S, NEW a \in Seq(S), Len(a) <= MaxInt,
           NEW start \in Word, NEW count \in Int
    PROVE  LET i == FromEnd(start, Len(a)) IN
           /\ ElementsStartLen(a, start, count) = ElementsFrom(a, i, count)
           /\ GroupsStartLen(a, start, count) =
                 IF i > Len(a) /\ count >= 0 THEN <<>> ELSE ElementsStartLen(a, start, count)
<1> DEFINE i == FromEnd(start, Len(a))
<1>1. Len(a) \in 0..MaxInt /\ start \in Int /\ i \in Int
  BY LenProperties DEF Word, FromEnd
<1>2. Resolve(start, Len(a)) = IF i < 0 THEN -1 ELSE i
  BY <1>1, Resolves DEF NoIndex
<1> HIDE DEF i
<1>3. ElementsStartLen(a, start, count)
         = IF count < 0 \/ i < 0 \/ i > Len(a) THEN Nil ELSE Slice(a, i, count)
  BY <1>1, <1>2, SameReads DEF ElementsStartLen, NoIndex
<1>4. GroupsStartLen(a, start, count)
         = IF count < 0 \/ i < 0 THEN Nil ELSE FirstN(DropN(a, i), count)
  BY <1>1, <1>2, SameReads DEF GroupsStartLen, NoIndex
<1>5. ElementsFrom(a, i, count) = IF i \notin 0..Len(a) \/ count < 0 THEN Nil ELSE Part(a, i, count)
  BY DEF ElementsFrom, Part
<1>6. CASE count < 0 \/ i < 0
  <2>1. i \notin 0..Len(a) \/ count < 0
    BY <1>1, <1>6
  <2>2. ~(i > Len(a) /\ count >= 0)
    BY <1>1, <1>6
  <2> QED
    BY <1>3, <1>4, <1>5, <1>6, <2>1, <2>2 DEF i
<1>7. CASE count >= 0 /\ i > Len(a)
  <2>1. i \in Nat /\ count \in Nat /\ i \notin 0..Len(a) /\ ~(count < 0 \/ i < 0)
    BY <1>1, <1>7
  <2>2. FirstN(DropN(a, i), count) = <<>>
    BY <1>7, <2>1, FirstOfRestIsPart
  <2> QED
    BY <1>3, <1>4, <1>5, <1>7, <2>1, <2>2 DEF i
<1>8. CASE count >= 0 /\ i \in 0..Len(a)
  <2>1. i \in Nat /\ count \in Nat /\ ~(i > Len(a)) /\ ~(count < 0 \/ i < 0)
    BY <1>1, <1>8
  <2>2. FirstN(DropN(a, i), count) = Part(a, i, count) /\ Slice(a, i, count) = Part(a, i, count)
    BY <1>8, <2>1, FirstOfRestIsPart, SliceIsPart
  <2> QED
    BY <1>3, <1>4, <1>5, <1>8, <2>1, <2>2 DEF i
<1> QED
  BY <1>1, <1>6, <1>7, <1>8

(* What a Range comes to: a position and a length, or nothing.             *)
LEMMA RangePart ==
    ASSUME MaxInt \in Nat, Nil \notin Int, NEW S, NEW a \in Seq(S), Len(a) <= MaxInt,
           NEW range \in [beg : Word \cup {Nil}, end : Word \cup {Nil}, excl : BOOLEAN]
    PROVE  LET part == BegLen(range, Len(a))
               first == FirstOf(range, Len(a))
           IN  /\ Len(a) \in Nat /\ first \in Int /\ first <= MaxInt
               /\ first < 0 => part = RangeOut
               /\ first >= 0 => /\ part # RangeOut /\ part.start = first /\ part.len \in Nat
                                /\ part.start \in Word
               /\ first = 0 /\ EndOverflows(range) => part.len = 0
               /\ first >= 0 /\ ~(first = 0 /\ EndOverflows(range)) =>
                     \A i \in 0..(Len(a) - 1) :
                         first <= i /\ i < first + part.len <=> InRange(range, Len(a), i)
<1> DEFINE part == BegLen(range, Len(a))
           first == FirstOf(range, Len(a))
<1>1. Len(a) \in 0..MaxInt /\ first \in Int /\ first <= MaxInt
  BY LenProperties DEF FirstOf, FromEnd, Word
<1>2. /\ first < 0 => part = RangeOut
      /\ first >= 0 => part.start = first /\ part.len \in Nat
      /\ first >= 0 /\ ~(first = 0 /\ EndOverflows(range)) =>
            \A i \in 0..(Len(a) - 1) :
                part.start <= i /\ i < part.start + part.len <=> InRange(range, Len(a), i)
      /\ first = 0 /\ EndOverflows(range) => part.len = 0
  BY <1>1, RangesHavePositions
<1> HIDE DEF part, first
<1>3. first >= 0 => part # RangeOut /\ part.start \in Word
  BY <1>1, <1>2 DEF RangeOut, NoIndex, Word
<1> QED
  BY <1>1, <1>2, <1>3 DEF part, first

(* The part that a Range has of an array.                                  *)
LEMMA ReadsRange ==
    ASSUME MaxInt \in Nat, Nil \notin Int, NEW S, NEW a \in Seq(S), Len(a) <= MaxInt,
           NEW range \in [beg : Word \cup {Nil}, end : Word \cup {Nil}, excl : BOOLEAN]
    PROVE  LET part == BegLen(range, Len(a))
               first == FirstOf(range, Len(a))
           IN  /\ first \in 0..Len(a) => ElementsRange(a, range) = Part(a, first, part.len)
               /\ first \notin 0..Len(a) => ElementsRange(a, range) = Nil
               /\ GroupsRange(a, range) =
                     IF first > Len(a) THEN <<>> ELSE ElementsRange(a, range)
<1> DEFINE part == BegLen(range, Len(a))
           first == FirstOf(range, Len(a))
           len == part.len
<1>1. /\ Len(a) \in Nat /\ first \in Int
      /\ first < 0 => part = RangeOut
      /\ first >= 0 => part # RangeOut /\ part.start = first /\ len \in Nat /\ first \in Word
  BY RangePart
<1>2. /\ ElementsRange(a, range) =
            IF part = RangeOut THEN Nil ELSE ElementsStartLen(a, part.start, len)
      /\ GroupsRange(a, range) =
            IF part = RangeOut THEN Nil ELSE GroupsStartLen(a, part.start, len)
  BY DEF ElementsRange, GroupsRange
<1> HIDE DEF part, first, len
<1>3. CASE first < 0
  <2>1. first \notin 0..Len(a) /\ ~(first > Len(a))
    BY <1>1, <1>3
  <2> QED
    BY <1>1, <1>2, <1>3, <2>1 DEF part, first, len
<1>4. CASE first >= 0
  <2>1. /\ ElementsRange(a, range) = ElementsStartLen(a, first, len)
        /\ GroupsRange(a, range) = GroupsStartLen(a, first, len)
    BY <1>1, <1>2, <1>4
  <2>2. first \in Word /\ len \in Int /\ len >= 0 /\ FromEnd(first, Len(a)) = first
    BY <1>1, <1>4 DEF FromEnd
  <2>3. /\ ElementsStartLen(a, first, len) = ElementsFrom(a, first, len)
        /\ GroupsStartLen(a, first, len) =
              IF first > Len(a) /\ len >= 0 THEN <<>> ELSE ElementsStartLen(a, first, len)
    BY <2>2, ReadsPart
  <2>4. ElementsFrom(a, first, len) = IF first \in 0..Len(a) THEN Part(a, first, len) ELSE Nil
    BY <1>1, <2>2 DEF ElementsFrom, Part
  <2> QED
    BY <2>1, <2>2, <2>3, <2>4 DEF part, first, len
<1> QED
  BY <1>1, <1>3, <1>4

LEMMA RangeReadsItsPart ==
    ASSUME MaxInt \in Nat, Nil \notin Int, NEW S, NEW a \in Seq(S), Len(a) <= MaxInt,
           NEW range \in [beg : Word \cup {Nil}, end : Word \cup {Nil}, excl : BOOLEAN]
    PROVE  IsPartOf(ElementsRange(a, range), a, range)
<1> DEFINE first == FirstOf(range, Len(a))
           len == BegLen(range, Len(a)).len
           p == ElementsRange(a, range)
<1>1. /\ Len(a) \in Nat /\ first \in Int
      /\ first \in 0..Len(a) => p = Part(a, first, len)
      /\ first \notin 0..Len(a) => p = Nil
  BY RangePart, ReadsRange
<1>2. /\ first >= 0 => len \in Nat
      /\ first = 0 /\ EndOverflows(range) => len = 0
      /\ first >= 0 /\ ~(first = 0 /\ EndOverflows(range)) =>
            \A i \in 0..(Len(a) - 1) :
                first <= i /\ i < first + len <=> InRange(range, Len(a), i)
  BY RangePart
<1> HIDE DEF p, first, len
<1>3. CASE first \notin 0..Len(a)
  BY <1>1, <1>3 DEF IsPartOf, p, first
<1>4. CASE first \in 0..Len(a)
  <2> DEFINE m == Least(Len(a) - first, len)
  <2>1. first >= 0 /\ len \in Nat /\ p = Part(a, first, len)
    BY <1>1, <1>2, <1>4
  <2>2. /\ p \in Seq(S) /\ Len(p) = m /\ m \in Nat
        /\ first + m = Least(Len(a), first + len)
    BY <1>4, <2>1, Parts
  <2>3. p = SubSeq(a, first + 1, first + Len(p))
    BY <2>1, <2>2 DEF Part
  <2>4. CASE first = 0 /\ EndOverflows(range)
    <3>1. Len(p) = 0
      BY <1>1, <1>2, <2>2, <2>4 DEF Least
    <3>2. p = <<>>
      BY <2>2, <3>1, EmptySeq
    <3> QED
      BY <1>4, <2>4, <3>2 DEF IsPartOf, p, first
  <2>5. CASE ~(first = 0 /\ EndOverflows(range))
    <3>1. \A i \in 0..(Len(a) - 1) : i < first + len <=> i < first + m
      BY <1>1, <1>4, <2>1 DEF Least
    <3> HIDE DEF m
    <3>2. \A i \in 0..(Len(a) - 1) :
              InRange(range, Len(a), i) <=> first <= i /\ i < first + Len(p)
      BY <1>2, <2>1, <2>2, <2>5, <3>1
    <3> QED
      BY <1>4, <2>3, <2>5, <3>2 DEF IsPartOf, p, first
  <2> QED
    BY <2>4, <2>5
<1> QED
  BY <1>3, <1>4

(* Reading parts of arrays of the run.                                     *)
LEMMA PartsAreReadRight ==
    ASSUME NEW a \in Seq(Elem), Len(a) \in 0..MaxInt
    PROVE  PartsAreRead(a)
<1> USE InputsAssumption
<1>1. ASSUME NEW index \in Indexes
      PROVE  LET i == FromEnd(index, Len(a)) IN
             /\ ElementAt(a, index) = IF i \in 0..(Len(a) - 1) THEN a[i + 1] ELSE Nil
             /\ GroupAt(a, index) = IF index = -Len(a) THEN Nil ELSE ElementAt(a, index)
             /\ \A count \in Indexes :
                   /\ ElementsStartLen(a, index, count) = ElementsFrom(a, i, count)
                   /\ GroupsStartLen(a, index, count) =
                         IF i > Len(a) /\ count >= 0 THEN <<>>
                         ELSE ElementsStartLen(a, index, count)
  <2>1. index \in Word /\ Len(a) <= MaxInt /\ MaxInt \in Nat
    OBVIOUS
  <2>2. ASSUME NEW count \in Indexes
        PROVE  LET i == FromEnd(index, Len(a)) IN
               /\ ElementsStartLen(a, index, count) = ElementsFrom(a, i, count)
               /\ GroupsStartLen(a, index, count) =
                     IF i > Len(a) /\ count >= 0 THEN <<>>
                     ELSE ElementsStartLen(a, index, count)
    <3>1. count \in Int
      BY DEF Word
    <3> QED
      BY <2>1, <3>1, ReadsPart
  <2> QED
    BY <2>1, <2>2, ReadsIndex
<1>2. ASSUME NEW range \in Ranges
      PROVE  /\ IsPartOf(ElementsRange(a, range), a, range)
             /\ GroupsRange(a, range) =
                   IF FirstOf(range, Len(a)) > Len(a) THEN <<>> ELSE ElementsRange(a, range)
  <2>1. range \in [beg : Word \cup {Nil}, end : Word \cup {Nil}, excl : BOOLEAN]
    BY DEF Ranges
  <2>2. Len(a) <= MaxInt /\ MaxInt \in Nat /\ Nil \notin Int
    OBVIOUS
  <2> QED
    BY <2>1, <2>2, ReadsRange, RangeReadsItsPart
<1> QED
  BY <1>1, <1>2 DEF PartsAreRead

-----------------------------------------------------------------------------
(* Assignments to arrays.                                                  *)

LEMMA ReplacedReads ==
    ASSUME NEW S, Nil \in S, NEW a \in Seq(S), NEW from \in Nat, NEW count \in Nat,
           NEW vs \in Seq(S)
    PROVE  LET t == Spliced(a, from, Drained(a, from, count), vs) IN
           /\ t \in Seq(S)
           /\ ElementsStartLen(t, from, Len(vs)) = vs
           /\ \A i \in 0..(from - 1) : ElementAt(t, i) = ElementAt(a, i)
           /\ Follows(t, from + Len(vs), a, from + count)
<1> DEFINE d == Drained(a, from, count)
           t == Spliced(a, from, d, vs)
           n == Len(vs)
<1>1. Len(a) \in Nat /\ n \in Nat
  BY LenProperties
<1>2. /\ d \in Nat
      /\ from >= Len(a) => d = 0
      /\ from <= Len(a) => from + d <= Len(a)
      /\ from + count <= Len(a) => d = count
      /\ from < Len(a) /\ from + count >= Len(a) => d = Len(a) - from
  BY DrainedType
<1> HIDE DEF d
<1>3. from + d <= Len(a) \/ (from >= Len(a) /\ d = 0)
  BY <1>1, <1>2
<1>4. t \in Seq(S) /\ Len(t) \in Nat /\ from + n <= Len(t) /\ HasAt(t, from, vs)
  BY <1>3, <1>2, SplicedType
<1>5. Len(t) = SplicedLen(a, from, d, vs) /\ \A k \in 1..Len(t) : t[k] = SplicedAt(a, from, d, vs, k)
  <2> DEFINE len == SplicedLen(a, from, d, vs)
  <2>1. len \in Nat
    BY <1>1, <1>2, <1>3 DEF SplicedLen
  <2>2. t = [k \in 1..len |-> SplicedAt(a, from, d, vs, k)]
    BY DEF Spliced
  <2> HIDE DEF t, len
  <2>3. DOMAIN t = 1..len /\ DOMAIN t = 1..Len(t)
    BY <1>4, <2>2, LenProperties
  <2>4. Len(t) = len
    BY <1>4, <2>1, <2>3
  <2> QED
    BY <2>2, <2>4 DEF len
<1>6. Len(t) = (IF from > Len(a) THEN from ELSE Len(a) - d) + n
  BY <1>5 DEF SplicedLen
<1> HIDE DEF t
<1>7. ElementsStartLen(t, from, n) = vs
  <2> DEFINE p == Part(t, from, n)
  <2>1. ElementsStartLen(t, from, n) = Slice(t, from, n)
    <3>1. Resolve(from, Len(t)) = from /\ from # NoIndex
      BY DEF Resolve, NoIndex
    <3>2. ~(n < 0 \/ from > Len(t))
      BY <1>1, <1>4
    <3> QED
      BY <3>1, <3>2, SameReads DEF ElementsStartLen
  <2>2. from \in 0..Len(t) /\ Least(Len(t) - from, n) = n
    BY <1>1, <1>4 DEF Least
  <2>3. Slice(t, from, n) = p
    BY <1>1, <1>4, <2>2, SliceIsPart
  <2>4. p \in Seq(S) /\ Len(p) = n /\ \A k \in 1..n : p[k] = t[from + k]
    <3> DEFINE m == Least(Len(t) - from, n)
    <3>1. n \in Nat /\ t \in Seq(S) /\ from \in 0..Len(t)
      BY <1>1, <1>4, <2>2
    <3> HIDE DEF n
    <3>2. p \in Seq(S) /\ Len(p) = m /\ CopiedFrom(p, t, from)
      BY <3>1, Parts
    <3> HIDE DEF p, m
    <3>3. m = n
      BY <2>2 DEF m
    <3> QED
      BY <3>2, <3>3 DEF CopiedFrom
  <2> HIDE DEF p
  <2>5. \A k \in 1..n : p[k] = vs[k]
    BY <1>4, <2>4 DEF HasAt
  <2>6. p = vs
    BY <2>4, <2>5, SeqEqual
  <2> QED
    BY <2>1, <2>3, <2>6
<1>8. ASSUME NEW i \in 0..(from - 1)
      PROVE  ElementAt(t, i) = ElementAt(a, i)
  <2>1. i \in Nat /\ i < Len(t) /\ i + 1 \in 1..Len(t) /\ i + 1 <= from
    BY <1>1, <1>4
  <2>2. t[i + 1] = IF i + 1 <= Len(a) THEN a[i + 1] ELSE Nil
    BY <1>5, <2>1 DEF SplicedAt
  <2>3. i < Len(a) <=> i + 1 <= Len(a)
    BY <1>1, <2>1
  <2> QED
    BY <2>1, <2>2, <2>3, ReadsFromFront
<1>9. ASSUME NEW i \in Nat
      PROVE  ElementAt(t, from + n + i) = ElementAt(a, from + count + i)
  <2>1. /\ from + n + i \in Nat /\ from + count + i \in Nat
        /\ ElementAt(t, from + n + i) =
              IF from + n + i < Len(t) THEN t[from + n + i + 1] ELSE Nil
        /\ ElementAt(a, from + count + i) =
              IF from + count + i < Len(a) THEN a[from + count + i + 1] ELSE Nil
    <3>1. from + n + i \in Nat /\ from + count + i \in Nat
      BY <1>1
    <3> QED
      BY <3>1, ReadsFromFront
  <2>2. CASE from + count + i < Len(a)
    <3>1. d = count /\ Len(t) = Len(a) - d + n /\ from + n + i < Len(t)
      BY <1>1, <1>2, <1>6, <2>2
    <3>2. /\ from + n + i + 1 \in 1..Len(t)
          /\ ~(from + n + i + 1 <= from) /\ ~(from + n + i + 1 <= from + n)
          /\ from + n + i + 1 - n + d = from + count + i + 1
      BY <1>1, <1>4, <3>1
    <3>3. t[from + n + i + 1] = a[from + count + i + 1]
      BY <1>5, <3>2 DEF SplicedAt
    <3> QED
      BY <2>1, <2>2, <3>1, <3>3
  <2>3. CASE ~(from + count + i < Len(a))
    <3>1. ~(from + n + i < Len(t))
      BY <1>1, <1>2, <1>6, <2>3
    <3> QED
      BY <2>1, <2>3, <3>1
  <2> QED
    BY <2>2, <2>3
<1>10. Follows(t, from + n, a, from + count)
  BY <1>9 DEF Follows
<1> QED
  BY <1>4, <1>7, <1>8, <1>10 DEF t, d

(* Array#[]= with an index and a length, one element or several.           *)
LEMMA AssignsPart ==
    ASSUME MaxInt \in Nat, NEW S, Nil \in S, NEW a \in Seq(S), Len(a) <= MaxInt,
           NEW start \in Word, NEW count \in Word, NEW values \in Seq(S), NEW single \in BOOLEAN,
           single => values # <<>>
    PROVE  LET r == AssignStartLen(a, start, count, values, single)
               from == FromEnd(start, Len(a))
               vs == IF single THEN <<values[1]>> ELSE values
           IN  /\ r.ok <=> from >= 0 /\ count >= 0
               /\ ~r.ok => r.array = a
               /\ r.ok => r.array = Spliced(a, from, Drained(a, from, count), vs)
<1> DEFINE r == AssignStartLen(a, start, count, values, single)
           from == FromEnd(start, Len(a))
           vs == IF single THEN <<values[1]>> ELSE values
<1>1. Len(a) \in 0..MaxInt /\ count \in Int /\ from \in Int
  BY LenProperties DEF Word, FromEnd
<1>2. Resolve(start, Len(a)) = IF from < 0 THEN -1 ELSE from
  BY <1>1, Resolves DEF NoIndex
<1> HIDE DEF from
<1>3. r = IF from < 0 \/ count < 0 THEN Refused(a)
          ELSE Changed(Replaced(a, from, count, values, single))
  BY <1>1, <1>2 DEF AssignStartLen, NoIndex
<1> HIDE DEF r
<1>4. CASE from < 0 \/ count < 0
  <2>1. r.ok = FALSE /\ r.array = a
    BY <1>3, <1>4 DEF Refused
  <2> QED
    BY <1>1, <1>4, <2>1 DEF r, from
<1>5. CASE from >= 0 /\ count >= 0
  <2>1. from \in Nat /\ count \in Nat
    BY <1>1, <1>5
  <2>2. Replaced(a, from, count, values, single) = Spliced(a, from, Drained(a, from, count), vs)
    <3>1. CASE single
      <4>1. values[1] \in S
        <5>1. Len(values) \in Nat /\ Len(values) # 0
          BY <3>1, EmptySeq, LenProperties
        <5> QED
          BY <5>1, ElementOfSeq
      <4>2. SetWithDrain(a, from, count, values[1])
               = Spliced(a, from, Drained(a, from, count), <<values[1]>>)
        BY <2>1, <4>1, SetWithDrainSplices
      <4> QED
        BY <3>1, <4>2, SameWrites DEF Replaced
    <3>2. CASE ~single
      <4>1. SetSlice(a, from, count, values) = Spliced(a, from, Drained(a, from, count), values)
        BY <2>1, SetSliceSplices
      <4> QED
        BY <3>2, <4>1, SameWrites DEF Replaced
    <3> QED
      BY <3>1, <3>2
  <2>3. r.ok = TRUE /\ r.array = Replaced(a, from, count, values, single)
    BY <1>1, <1>3, <1>5 DEF Changed
  <2> QED
    BY <1>5, <2>2, <2>3 DEF r, from
<1> QED
  BY <1>1, <1>4, <1>5

(* Array#[]= with an index and a length, and Array#[] after it: the values *)
(* take the place of the elements there, wherever the index counts from,   *)
(* and are what is there to be read.                                       *)
THEOREM AssignedIsReadBack ==
    ASSUME MaxInt \in Nat, NEW S, Nil \in S, NEW a \in Seq(S), Len(a) <= MaxInt,
           NEW start \in Word, NEW count \in Word, NEW values \in Seq(S)
    PROVE  LET r == AssignStartLen(a, start, count, values, FALSE)
               from == FromEnd(start, Len(a))
           IN  /\ r.ok <=> from >= 0 /\ count >= 0
               /\ ~r.ok => r.array = a
               /\ r.ok => /\ r.array = Spliced(a, from, Drained(a, from, count), values)
                          /\ ElementsStartLen(r.array, from, Len(values)) = values
<1> DEFINE r == AssignStartLen(a, start, count, values, FALSE)
           from == FromEnd(start, Len(a))
           t == Spliced(a, from, Drained(a, from, count), values)
<1>1. /\ r.ok <=> from >= 0 /\ count >= 0
      /\ ~r.ok => r.array = a
      /\ r.ok => r.array = t
  <2> DEFINE single == FALSE
             q == AssignStartLen(a, start, count, values, single)
             v == IF single THEN <<values[1]>> ELSE values
  <2>1. single \in BOOLEAN /\ (single => values # <<>>)
    OBVIOUS
  <2> HIDE DEF single
  <2>2. /\ q.ok <=> from >= 0 /\ count >= 0
        /\ ~q.ok => q.array = a
        /\ q.ok => q.array = Spliced(a, from, Drained(a, from, count), v)
    BY <2>1, AssignsPart
  <2>3. q = r /\ v = values
    BY DEF single
  <2> HIDE DEF q, v, r
  <2> QED
    BY <2>2, <2>3
<1>2. from \in Int /\ count \in Int
  BY LenProperties DEF Word, FromEnd
<1>3. from >= 0 /\ count >= 0 => ElementsStartLen(t, from, Len(values)) = values
  <2> HIDE DEF from
  <2> SUFFICES ASSUME from \in Nat, count \in Nat
               PROVE  ElementsStartLen(t, from, Len(values)) = values
    BY <1>2
  <2> QED
    BY ReplacedReads
<1> HIDE DEF t, r, from
<1> QED
  BY <1>1, <1>3 DEF t, r, from

(* Storing one element, in place or behind the end.                        *)
LEMMA Sets ==
    ASSUME NEW S, Nil \in S, NEW a \in Seq(S), NEW at \in Nat, NEW x \in S
    PROVE  LET t == Set(a, at, x) IN
           /\ t \in Seq(S) /\ Len(t) = IF at < Len(a) THEN Len(a) ELSE at + 1
           /\ \A k \in 1..Len(t) :
                 t[k] = IF k = at + 1 THEN x ELSE IF k <= Len(a) THEN a[k] ELSE Nil
<1> DEFINE t == Set(a, at, x)
<1>1. Len(a) \in Nat
  BY LenProperties
<1>2. CASE at < Len(a)
  <2>1. t = [a EXCEPT ![at + 1] = x] /\ at + 1 \in 1..Len(a)
    BY <1>1, <1>2 DEF Set
  <2>2. /\ t \in Seq(S) /\ Len(t) = Len(a)
        /\ \A k \in 1..Len(a) : t[k] = IF k = at + 1 THEN x ELSE a[k]
    BY <2>1, ExceptSeq
  <2> HIDE DEF t
  <2>3. \A k \in 1..Len(t) : t[k] = IF k = at + 1 THEN x ELSE IF k <= Len(a) THEN a[k] ELSE Nil
    BY <1>1, <2>2
  <2> QED
    BY <1>2, <2>2, <2>3 DEF t
<1>3. CASE ~(at < Len(a))
  <2> DEFINE g == ResizeWith(a, at)
  <2>1. g \in Seq(S) /\ Len(g) = at /\ \A k \in 1..at : g[k] = IF k <= Len(a) THEN a[k] ELSE Nil
    BY Resized
  <2>2. t = Append(g, x)
    BY <1>3 DEF Set
  <2> HIDE DEF g, t
  <2>3. /\ t \in Seq(S) /\ Len(t) = at + 1
        /\ \A k \in 1..at : t[k] = g[k]
        /\ t[at + 1] = x
    BY <2>1, <2>2, AppendProperties
  <2>4. ASSUME NEW k \in 1..Len(t)
        PROVE  t[k] = IF k = at + 1 THEN x ELSE IF k <= Len(a) THEN a[k] ELSE Nil
    <3>1. k \in 1..at \/ k = at + 1
      BY <2>3
    <3>2. k \in 1..at => k # at + 1
      OBVIOUS
    <3> QED
      BY <2>1, <2>3, <3>1, <3>2
  <2> QED
    BY <1>3, <2>3, <2>4 DEF t
<1> QED
  BY <1>2, <1>3

LEMMA AssignsIndex ==
    ASSUME MaxInt \in Nat, NEW S, Nil \in S, NEW a \in Seq(S), Len(a) <= MaxInt,
           NEW index \in Word, NEW x \in S
    PROVE  IndexIsAssigned(a, index, x)
<1> DEFINE r == AssignAt(a, index, x)
           at == FromEnd(index, Len(a))
           t == Set(a, at, x)
<1>1. Len(a) \in 0..MaxInt /\ index \in Int /\ at \in Int
  BY LenProperties DEF Word, FromEnd
<1>2. Resolve(index, Len(a)) = IF at < 0 THEN -1 ELSE at
  BY <1>1, Resolves DEF NoIndex
<1>3. (index >= 0 => at = index) /\ (index < 0 => at = index + Len(a) /\ at < Len(a))
  BY <1>1 DEF FromEnd
<1> HIDE DEF at
<1>4. r = IF at < 0 THEN Refused(a) ELSE Changed(t)
  BY <1>1, <1>2, SameWrites DEF AssignAt, NoIndex
<1> HIDE DEF r, t
<1>5. CASE at < 0
  <2>1. r.ok = FALSE
    BY <1>4, <1>5 DEF Refused
  <2> QED
    BY <1>1, <1>5, <2>1 DEF IndexIsAssigned, r, at
<1>6. CASE at >= 0
  <2>1. r.ok = TRUE /\ r.array = t /\ at \in Nat
    BY <1>1, <1>4, <1>6 DEF Changed
  <2>2. /\ t \in Seq(S) /\ Len(t) = IF at < Len(a) THEN Len(a) ELSE at + 1
        /\ \A k \in 1..Len(t) :
              t[k] = IF k = at + 1 THEN x ELSE IF k <= Len(a) THEN a[k] ELSE Nil
    BY <2>1, Sets DEF t
  <2>3. Len(t) \in Nat /\ at < Len(t) /\ at + 1 \in 1..Len(t)
    BY <1>1, <2>1, <2>2
  <2>4. t[at + 1] = x
    BY <2>2, <2>3
  <2>5. Resolve(index, Len(t)) = at
    <3>1. CASE index >= 0
      BY <1>3, <3>1 DEF Resolve
    <3>2. CASE index < 0
      <4>1. Len(t) = Len(a)
        BY <1>1, <1>3, <2>2, <3>2
      <4> QED
        BY <1>1, <1>2, <1>6, <4>1
    <3> QED
      BY <1>1, <3>1, <3>2
  <2>6. ElementAt(t, index) = x
    BY <2>1, <2>3, <2>4, <2>5 DEF ElementAt, NoIndex
  <2>7. ASSUME NEW i \in 0..Len(t), i # at
        PROVE  ElementAt(t, i) = ElementAt(a, i)
    <3>1. i \in Nat /\ i + 1 # at + 1
      BY <2>1, <2>3, <2>7
    <3>2. i < Len(t) => t[i + 1] = IF i + 1 <= Len(a) THEN a[i + 1] ELSE Nil
      BY <2>2, <2>3, <3>1
    <3>3. (i < Len(a) <=> i + 1 <= Len(a)) /\ (~(i < Len(t)) => ~(i < Len(a)))
      BY <1>1, <2>2, <2>3, <3>1
    <3> QED
      BY <3>1, <3>2, <3>3, ReadsFromFront
  <2> QED
    BY <1>6, <2>1, <2>6, <2>7 DEF IndexIsAssigned, r, at
<1> QED
  BY <1>1, <1>5, <1>6

LEMMA AssignsPartRight ==
    ASSUME MaxInt \in Nat, NEW S, Nil \in S, NEW a \in Seq(S), Len(a) <= MaxInt,
           NEW start \in Word, NEW count \in Word, NEW values \in Seq(S), NEW single \in BOOLEAN,
           single => values # <<>>
    PROVE  PartIsAssigned(a, start, count, values, single)
<1> DEFINE r == AssignStartLen(a, start, count, values, single)
           from == FromEnd(start, Len(a))
           n == IF single THEN 1 ELSE Len(values)
           vs == IF single THEN <<values[1]>> ELSE values
           t == Spliced(a, from, Drained(a, from, count), vs)
<1>1. /\ r.ok <=> from >= 0 /\ count >= 0
      /\ r.ok => r.array = t
  BY AssignsPart
<1>2. from \in Int /\ count \in Int /\ Len(a) \in Nat
  BY LenProperties DEF Word, FromEnd
<1>3. vs \in Seq(S) /\ Len(vs) = n /\ SubSeq(values, 1, n) = vs
  <2>1. CASE single
    <3>1. Len(values) \in Nat /\ Len(values) # 0
      BY <2>1, EmptySeq, LenProperties
    <3>2. 1 <= Len(values) /\ values[1] \in S
      BY <3>1, ElementOfSeq
    <3> DEFINE u == SubSeq(values, 1, 1)
    <3>3. u \in Seq(S) /\ Len(u) = 1 /\ u[1] = values[1]
      <4>1. u = UpTo(values, 1)
        BY DEF UpTo, Between
      <4>2. /\ UpTo(values, 1) \in Seq(S) /\ Len(UpTo(values, 1)) = 1
            /\ \A k \in 1..1 : UpTo(values, 1)[k] = values[k]
        <5> DEFINE i == 1
        <5>1. i \in Nat /\ i <= Len(values)
          BY <3>2
        <5> HIDE DEF i
        <5>2. /\ UpTo(values, i) \in Seq(S) /\ Len(UpTo(values, i)) = i
              /\ \A k \in 1..i : UpTo(values, i)[k] = values[k]
          BY <5>1, UpTos
        <5> QED
          BY <5>2 DEF i
      <4> HIDE DEF u
      <4> QED
        BY <4>1, <4>2
    <3> HIDE DEF u
    <3>4. <<values[1]>> \in Seq(S) /\ Len(<<values[1]>>) = 1 /\ <<values[1]>>[1] = values[1]
      BY <3>2
    <3>5. u = <<values[1]>>
      BY <3>3, <3>4, SeqEqual
    <3> QED
      BY <2>1, <3>4, <3>5 DEF u
  <2>2. CASE ~single
    BY <2>2, SubSeqFull
  <2> QED
    BY <2>1, <2>2
<1> HIDE DEF from, vs
<1>4. ASSUME from \in Nat, count \in Nat
      PROVE  /\ ElementsStartLen(t, from, n) = SubSeq(values, 1, n)
             /\ \A i \in 0..(from - 1) : ElementAt(t, i) = ElementAt(a, i)
             /\ \A i \in 0..Len(a) :
                   ElementAt(t, from + n + i) = ElementAt(a, from + count + i)
  <2> DEFINE m == Len(vs)
  <2>1. /\ ElementsStartLen(t, from, m) = vs
        /\ \A i \in 0..(from - 1) : ElementAt(t, i) = ElementAt(a, i)
        /\ \A i \in Nat : ElementAt(t, from + m + i) = ElementAt(a, from + count + i)
    <3>1. vs \in Seq(S) /\ from \in Nat /\ count \in Nat
      BY <1>3, <1>4
    <3>2. t = Spliced(a, from, Drained(a, from, count), vs) /\ m = Len(vs)
      OBVIOUS
    <3> HIDE DEF t, m
    <3>3. ElementsStartLen(t, from, m) = vs
      BY <3>1, <3>2, ReplacedReads
    <3>4. ASSUME NEW i \in 0..(from - 1) PROVE ElementAt(t, i) = ElementAt(a, i)
      BY <3>1, <3>2, ReplacedReads
    <3>5. ASSUME NEW i \in Nat PROVE ElementAt(t, from + m + i) = ElementAt(a, from + count + i)
      <4>1. Follows(t, from + m, a, from + count)
        BY <3>1, <3>2, ReplacedReads
      <4> QED
        BY <4>1 DEF Follows
    <3> QED
      BY <3>3, <3>4, <3>5
  <2>2. m = n /\ \A i \in 0..Len(a) : i \in Nat
    BY <1>3
  <2> HIDE DEF m, t, n
  <2> QED
    BY <1>3, <2>1, <2>2
<1> HIDE DEF t, r, n
<1>5. r.ok => from \in Nat /\ count \in Nat
  BY <1>1, <1>2
<1> QED
  BY <1>1, <1>4, <1>5 DEF PartIsAssigned, r, from, n

(* What a Range has, put in its place.                                     *)
LEMMA AssignsRange ==
    ASSUME MaxInt \in Nat, Nil \notin Int, NEW S, Nil \in S, NEW a \in Seq(S), Len(a) <= MaxInt,
           NEW range \in [beg : Word \cup {Nil}, end : Word \cup {Nil}, excl : BOOLEAN]
    PROVE  RangeIsAssigned(a, range)
<1> DEFINE part == BegLen(range, Len(a))
           first == FirstOf(range, Len(a))
           len == part.len
           p == ElementsRange(a, range)
<1>1. /\ Len(a) \in Nat /\ first \in Int
      /\ first < 0 => part = RangeOut
      /\ first >= 0 => part # RangeOut /\ part.start = first /\ len \in Nat
  BY RangePart
<1>2. AssignRange(a, range, <<Nil>>, TRUE).ok <=> first >= 0
  <2>1. AssignRange(a, range, <<Nil>>, TRUE).ok <=> part # RangeOut
    BY DEF AssignRange, Refused, Changed
  <2>2. (first >= 0 <=> ~(first < 0)) /\ (first < 0 => part = RangeOut)
        /\ (first >= 0 => part # RangeOut)
    BY <1>1
  <2> HIDE DEF part, first
  <2> QED
    BY <2>1, <2>2
<1>3. ASSUME first \in 0..Len(a)
      PROVE  AssignRange(a, range, p, FALSE) = Changed(a)
  <2>1. first \in Nat /\ first <= Len(a) /\ len \in Nat /\ part # RangeOut /\ part.start = first
    BY <1>1, <1>3
  <2>2. AssignRange(a, range, p, FALSE) = Changed(SetSlice(a, first, len, p))
    BY <2>1, SameWrites DEF AssignRange, Replaced
  <2>3. p = Part(a, first, len)
    BY <1>3, ReadsRange
  <2> DEFINE d == Drained(a, first, len)
  <2> HIDE DEF part, first, len, p
  <2>4. p \in Seq(S) /\ Len(p) = d /\ d \in Nat /\ first + d <= Len(a)
        /\ \A k \in 1..d : p[k] = a[first + k]
    <3> DEFINE m == Least(Len(a) - first, len)
    <3>1. p \in Seq(S) /\ Len(p) = m /\ \A k \in 1..m : p[k] = a[first + k]
      <4>1. first \in 0..Len(a) /\ len \in Nat
        BY <1>3, <2>1
      <4>2. m = Least(Len(a) - first, len)
        OBVIOUS
      <4> HIDE DEF m
      <4> QED
        <5>1. p \in Seq(S) /\ Len(p) = m /\ CopiedFrom(p, a, first)
          BY <2>3, <4>1, <4>2, Parts
        <5> QED
          BY <5>1 DEF CopiedFrom
    <3>2. m = d /\ d \in Nat /\ first + d <= Len(a)
      BY <1>1, <2>1 DEF Least, Drained, Minus, Smaller
    <3> HIDE DEF m, d
    <3> QED
      BY <3>1, <3>2
  <2> HIDE DEF d
  <2>5. SetSlice(a, first, len, p) = Spliced(a, first, d, p)
    BY <2>1, <2>4, SetSliceSplices DEF d
  <2>6. Len(a) = SplicedLen(a, first, d, p)
    BY <1>1, <2>1, <2>4 DEF SplicedLen
  <2>7. ASSUME NEW k \in 1..Len(a)
        PROVE  a[k] = SplicedAt(a, first, d, p, k)
    <3>1. CASE k <= first
      BY <2>1, <3>1 DEF SplicedAt
    <3>2. CASE ~(k <= first) /\ k <= first + d
      <4>1. k - first \in 1..d /\ first + (k - first) = k
        BY <2>1, <2>4, <3>2
      <4>2. p[k - first] = a[k]
        BY <2>4, <4>1
      <4> QED
        BY <2>4, <3>2, <4>2 DEF SplicedAt
    <3>3. CASE ~(k <= first) /\ ~(k <= first + d)
      <4>1. k - Len(p) + d = k
        BY <2>4
      <4> QED
        BY <2>4, <3>3, <4>1 DEF SplicedAt
    <3> QED
      BY <3>1, <3>2, <3>3
  <2>8. a = Spliced(a, first, d, p)
    BY <2>6, <2>7, IsSpliced
  <2> QED
    BY <2>2, <2>5, <2>8
<1> HIDE DEF part
<1> QED
  BY <1>2, <1>3 DEF RangeIsAssigned

(* Array#[] and []= and MatchData#[] with every Integer and every Range    *)
(* of Integers, near the ends of the type too (checked_neg in the          *)
(* trampolines, mrb_range_beg_len), select what Ruby documents; what is    *)
(* assigned with them is read with them, and nothing else is changed.      *)
THEOREM IndexesAlwaysResolve == Spec => []IndexesResolve
<1>1. IsArray => IndexesResolve
  <2> SUFFICES ASSUME subject = "arrays", IsArray
               PROVE  /\ PartsAreRead(input)
                      /\ \A start \in Indexes : Reached(input, FromEnd(start, Len(input))) =>
                            /\ \A x \in Elem : IndexIsAssigned(input, start, x)
                            /\ \A count \in Indexes, values \in Inserted(Elem), single \in BOOLEAN :
                                  (single => values # <<>>) =>
                                      PartIsAssigned(input, start, count, values, single)
                      /\ \A range \in Ranges : Reached(input, FirstOf(range, Len(input))) =>
                            RangeIsAssigned(input, range)
    BY DEF IndexesResolve
  <2> DEFINE S == Elem \cup {Nil}
  <2>1. input \in Seq(Elem) /\ Len(input) \in 0..MaxInt
    BY DEF IsArray
  <2>2. input \in Seq(S) /\ Nil \in S /\ Len(input) <= MaxInt /\ MaxInt \in Nat /\ Nil \notin Int
    BY <2>1, InputsAssumption
  <2>3. PartsAreRead(input)
    BY <2>1, PartsAreReadRight
  <2>4. ASSUME NEW start \in Indexes, NEW x \in Elem
        PROVE  IndexIsAssigned(input, start, x)
    <3>1. start \in Word /\ x \in S
      BY InputsAssumption
    <3> HIDE DEF S
    <3> QED
      BY <2>2, <3>1, AssignsIndex
  <2>5. ASSUME NEW start \in Indexes, NEW count \in Indexes, NEW values \in Inserted(Elem),
               NEW single \in BOOLEAN, single => values # <<>>
        PROVE  PartIsAssigned(input, start, count, values, single)
    <3>1. start \in Word /\ count \in Word
      BY InputsAssumption
    <3>2. values \in Seq(Elem)
      BY InsertedType
    <3>3. values \in Seq(S)
      BY <3>2
    <3> HIDE DEF S
    <3> QED
      BY <2>2, <2>5, <3>1, <3>3, AssignsPartRight
  <2>6. ASSUME NEW range \in Ranges
        PROVE  RangeIsAssigned(input, range)
    <3>1. range \in [beg : Word \cup {Nil}, end : Word \cup {Nil}, excl : BOOLEAN]
      BY InputsAssumption DEF Ranges
    <3> HIDE DEF S
    <3> QED
      BY <2>2, <3>1, AssignsRange
  <2> QED
    BY <2>3, <2>4, <2>5, <2>6
<1> QED
  BY <1>1, ArraysOnly, PTL

=============================================================================
