--------------------------- MODULE FormatsProofs ----------------------------
(***************************************************************************)
(* Formats for every list of fields, every body, packet, transaction word  *)
(* and sequence of trace frames: what rpc.py packs it unpacks again, what  *)
(* it sends it can tell apart, mux.py finds its own packet, and trace.py   *)
(* prints frame after frame however the stream is cut.                     *)
(*                                                                         *)
(* A wire of fields is proved about from its end: a chain r of suffixes,   *)
(* r[i] being field i followed by r[i+1], is what the parsers walk along.  *)
(* A frame or a stream is proved about by the places of its parts (Laid,   *)
(* TraceIs).  Recursive functions are unfolded by showing that a function  *)
(* with their equation exists, and followed by climbing along it (Climb).  *)
(***************************************************************************)
EXTENDS Formats, SequenceTheorems, WellFoundedInduction, TLAPS

-----------------------------------------------------------------------------
(* Sets of numbers.                                                         *)

\* A set of numbers has a least one.
LEMMA Least ==
  ASSUME NEW N \in SUBSET Nat, N # {}
  PROVE  \E m \in N : \A n \in N : m <= n
<1>1. IsWellFoundedOn({ss \in Nat \X Nat : ss[1] < ss[2]}, Nat)
  BY NatLessThanWellFounded DEF OpToRel
<1>2. PICK m \in N : \A n \in N : <<n, m>> \notin {ss \in Nat \X Nat : ss[1] < ss[2]}
  BY <1>1, WFMin
<1>3. \A n \in N : ~(n < m)
  BY <1>2
<1> QED  BY <1>3

\* Induction up to a number, over a set of numbers.
LEMMA Climb ==
  ASSUME NEW N, NEW last \in Nat, 0 \in N,
         \A n \in 0..(last - 1) : n \in N => n + 1 \in N
  PROVE  \A n \in 0..last : n \in N
<1> SUFFICES ASSUME NEW x \in 0..last, x \notin N
             PROVE  FALSE
  OBVIOUS
<1> DEFINE Missing == {n \in 0..last : n \notin N}
<1>1. Missing \in SUBSET Nat /\ Missing # {}
  OBVIOUS
<1>2. PICK m \in Missing : \A n \in Missing : m <= n
  BY <1>1, Least
<1>3. m # 0 /\ m \in 0..last
  BY <1>2
<1>4. m - 1 \in 0..(last - 1) /\ m - 1 \notin Missing
  BY <1>2, <1>3
<1>5. m - 1 \in N
  BY <1>3, <1>4
<1>6. (m - 1) + 1 \in N
  BY <1>4, <1>5
<1> QED  BY <1>2, <1>3, <1>6

-----------------------------------------------------------------------------
(* Sequences of numbers.                                                    *)

\* What a concatenation starts with, and what is left behind it.
LEMMA ConcatParts ==
  ASSUME NEW a \in Seq(Nat), NEW b \in Seq(Nat)
  PROVE  /\ a \o b \in Seq(Nat) /\ Len(a \o b) = Len(a) + Len(b)
         /\ Len(a) \in Nat /\ Len(b) \in Nat
         /\ SubSeq(a \o b, 1, Len(a)) = a
         /\ SubSeq(a \o b, Len(a) + 1, Len(a) + Len(b)) = b
         /\ \A i \in 1..Len(a) : (a \o b)[i] = a[i]
         /\ \A i \in 1..Len(b) : (a \o b)[Len(a) + i] = b[i]
<1> DEFINE c == a \o b
<1>1. Len(a) \in Nat /\ Len(b) \in Nat
  OBVIOUS
<1>2. /\ c \in Seq(Nat) /\ Len(c) = Len(a) + Len(b)
      /\ \A i \in 1..(Len(a) + Len(b)) : c[i] = IF i <= Len(a) THEN a[i] ELSE b[i - Len(a)]
  BY ConcatProperties
<1>3. PICK la \in Nat, lb \in Nat : la = Len(a) /\ lb = Len(b)
  BY <1>1
<1> HIDE DEF c
<1>4. \A i \in 1..la : c[i] = a[i] /\ a[i] \in Nat
  BY <1>2, <1>3
<1>5. \A i \in 1..lb : c[la + i] = b[i] /\ b[i] \in Nat
  <2> TAKE i \in 1..lb
  <2>1. la + i \in 1..(la + lb) /\ ~(la + i <= la) /\ (la + i) - la = i
    BY <1>3
  <2>2. c[la + i] = b[i]
    BY <1>2, <1>3, <2>1
  <2>3. b[i] \in Nat
    BY <1>3, ElementOfSeq
  <2> QED  BY <2>2, <2>3
<1>6. SubSeq(c, 1, la) = a
  <2>1. \A i \in 1..la : c[i] \in Nat
    BY <1>4
  <2>2. /\ SubSeq(c, 1, la) \in Seq(Nat)
        /\ Len(SubSeq(c, 1, la)) = la
        /\ \A i \in 1..la : SubSeq(c, 1, la)[i] = c[i]
    BY <2>1, SubSeqProperties, SMTT(30)
  <2> QED  BY <1>3, <1>4, <2>2, SeqEqual
<1>7. SubSeq(c, la + 1, la + lb) = b
  <2>1. \A i \in (la + 1)..(la + lb) : c[i] \in Nat
    <3> TAKE i \in (la + 1)..(la + lb)
    <3>1. i - la \in 1..lb /\ la + (i - la) = i
      BY <1>3
    <3> QED  BY <1>5, <3>1
  <2> DEFINE s == SubSeq(c, la + 1, la + lb)
  <2>2. /\ s \in Seq(Nat)
        /\ Len(s) = IF la + 1 <= la + lb THEN (la + lb) - (la + 1) + 1 ELSE 0
        /\ \A i \in 1..((la + lb) - (la + 1) + 1) : s[i] = c[(la + 1) + i - 1]
    BY <2>1, <1>3, SubSeqProperties
  <2> HIDE DEF s
  <2>3. Len(s) = lb /\ \A i \in 1..lb : s[i] = c[la + i]
    BY <1>3, <2>2
  <2>4. s = b
    BY <1>3, <1>5, <2>2, <2>3, SeqEqual
  <2> QED  BY <2>4 DEF s
<1> QED  BY <1>1, <1>2, <1>3, <1>4, <1>5, <1>6, <1>7 DEF c

\* Concatenations may be grouped either way.
LEMMA Assoc ==
  ASSUME NEW a \in Seq(Nat), NEW b \in Seq(Nat), NEW c \in Seq(Nat)
  PROVE  (a \o b) \o c = a \o (b \o c)
BY ConcatAssociative, SMTT(30)

\* s is the piece of a from m to n.
IsPiece(s, a, m, n) ==
  /\ s \in Seq(Nat)
  /\ Len(s) = IF m <= n THEN n - m + 1 ELSE 0
  /\ \A i \in 1..(n - m + 1) : s[i] = a[m + i - 1]

\* SubSeq is such a piece.
LEMMA Piece ==
  ASSUME NEW a \in Seq(Nat), NEW m \in Nat \ {0}, NEW n \in Nat, n <= Len(a)
  PROVE  IsPiece(SubSeq(a, m, n), a, m, n)
<1>1. \A i \in m..n : a[i] \in Nat
  <2> TAKE i \in m..n
  <2>1. i \in 1..Len(a)
    OBVIOUS
  <2> QED  BY <2>1, ElementOfSeq
<1> QED  BY <1>1, SubSeqProperties DEF IsPiece

\* A piece behind the first part of a concatenation is one of the second part.
LEMMA PieceBehind ==
  ASSUME NEW a \in Seq(Nat), NEW b \in Seq(Nat),
         NEW m \in Nat \ {0}, NEW n \in Nat, n <= Len(b)
  PROVE  SubSeq(a \o b, Len(a) + m, Len(a) + n) = SubSeq(b, m, n)
<1>1. /\ a \o b \in Seq(Nat) /\ Len(a \o b) = Len(a) + Len(b)
      /\ Len(a) \in Nat /\ Len(b) \in Nat
      /\ \A i \in 1..Len(b) : (a \o b)[Len(a) + i] = b[i]
  BY ConcatParts
<1>2. PICK la \in Nat, lb \in Nat : la = Len(a) /\ lb = Len(b)
  BY <1>1
<1>3. PICK c : c = a \o b
  OBVIOUS
<1>4. c \in Seq(Nat) /\ Len(c) = la + lb /\ \A i \in 1..lb : c[la + i] = b[i]
  BY <1>1, <1>2, <1>3
<1> DEFINE s == SubSeq(c, la + m, la + n)
           t == SubSeq(b, m, n)
<1>5. /\ s \in Seq(Nat)
      /\ Len(s) = IF la + m <= la + n THEN (la + n) - (la + m) + 1 ELSE 0
      /\ \A i \in 1..((la + n) - (la + m) + 1) : s[i] = c[(la + m) + i - 1]
  <2>1. IsPiece(s, c, la + m, la + n)
    BY <1>2, <1>4, Piece
  <2> QED  BY <1>2, <1>4, <2>1 DEF IsPiece
<1>6. /\ t \in Seq(Nat) /\ Len(t) = IF m <= n THEN n - m + 1 ELSE 0
      /\ \A i \in 1..(n - m + 1) : t[i] = b[m + i - 1]
  <2>1. IsPiece(t, b, m, n)
    BY <1>2, Piece
  <2> QED  BY <1>2, <2>1 DEF IsPiece
<1> HIDE DEF s, t
<1>7. Len(s) = Len(t)
  BY <1>5, <1>6
<1>8. \A i \in 1..Len(s) : s[i] = t[i]
  <2> TAKE i \in 1..Len(s)
  <2>1. i \in 1..((la + n) - (la + m) + 1) /\ i \in 1..(n - m + 1)
    BY <1>2, <1>5
  <2>2. PICK k \in 1..lb : k = m + i - 1 /\ la + k = (la + m) + i - 1
    BY <1>2, <2>1
  <2>3. s[i] = c[(la + m) + i - 1]
    BY <1>5, <2>1
  <2>4. t[i] = b[m + i - 1]
    BY <1>6, <2>1
  <2>5. c[la + k] = b[k]
    BY <1>4
  <2> QED  BY <2>2, <2>3, <2>4, <2>5
<1>9. s = t
  BY <1>5, <1>6, <1>7, <1>8, SeqEqual
<1> QED  BY <1>2, <1>3, <1>9 DEF s, t

\* Backwards twice is forwards.
LEMMA ReverseTwice ==
  ASSUME NEW a \in Seq(Nat)
  PROVE  /\ Reverse(a) \in Seq(Nat) /\ Len(Reverse(a)) = Len(a)
         /\ \A i \in 1..Len(a) : Reverse(a)[i] = a[Len(a) - i + 1]
         /\ Reverse(Reverse(a)) = a
         /\ Len(a) = 1 => Reverse(a) = a
<1>1. PICK n \in Nat : n = Len(a)
  OBVIOUS
<1>2. \A i \in 1..n : n - i + 1 \in 1..n /\ n - (n - i + 1) + 1 = i /\ a[i] \in Nat
  BY <1>1, ElementOfSeq
<1>3. PICK r : r = Reverse(a)
  OBVIOUS
<1>4. r = [i \in 1..n |-> a[(n - i) + 1]]
  BY <1>1, <1>3 DEF Reverse
<1>5. r \in Seq(Nat) /\ Len(r) = n /\ \A i \in 1..n : r[i] = a[n - i + 1]
  BY <1>2, <1>4
<1>6. Reverse(r) = [i \in 1..n |-> r[(n - i) + 1]]
  BY <1>5 DEF Reverse
<1>7. Reverse(r) \in Seq(Nat) /\ Len(Reverse(r)) = n /\ \A i \in 1..n : Reverse(r)[i] = a[i]
  BY <1>2, <1>5, <1>6
<1>8. Reverse(r) = a
  BY <1>1, <1>7, SeqEqual
<1>9. ASSUME n = 1 PROVE r = a
  <2>1. \A i \in 1..n : r[i] = a[i]
    BY <1>5, <1>9
  <2> QED  BY <1>1, <1>5, <2>1, SeqEqual
<1> QED  BY <1>1, <1>3, <1>5, <1>8, <1>9

-----------------------------------------------------------------------------
(* Bytes of numbers.                                                        *)

K2 == 65536
K3 == 16777216
K4 == 4294967296

\* The powers the formats use.
LEMMA Powers == 256^0 = 1 /\ 256^1 = 256 /\ 256^2 = K2 /\ 256^3 = K3 /\ 256^4 = K4
BY SMT DEF K2, K3, K4

\* A number and its last byte.
LEMMA LastByte ==
  ASSUME NEW n \in Nat
  PROVE  /\ n = 256 * (n \div 256) + (n % 256)
         /\ n % 256 \in 0..255 /\ n \div 256 \in Nat
BY SMT

\* Dividing on.
LEMMA DivOn ==
  ASSUME NEW n \in Nat
  PROVE  /\ n \div K2 = (n \div 256) \div 256
         /\ n \div K3 = (n \div K2) \div 256
         /\ n \div K2 \in Nat /\ n \div K3 \in Nat
BY SMT DEF K2, K3

\* So many bytes of a number.
LEMMA BigEndianSeq ==
  ASSUME NEW n \in Nat, NEW width \in 1..4
  PROVE  BigEndian(n, width) \in Seq(Nat) /\ Len(BigEndian(n, width)) = width
<1>1. \A k \in 0..3 : (n \div 256^k) % 256 \in Nat
  <2> TAKE k \in 0..3
  <2>1. \/ k = 0 \/ k = 1 \/ k = 2 \/ k = 3
    OBVIOUS
  <2> QED  BY <2>1, Powers DEF K2, K3
<1>2. \A i \in 1..width : (n \div 256^(width - i)) % 256 \in Nat
  BY <1>1
<1> QED  BY <1>2 DEF BigEndian

\* b holds the width low bytes of n, the lowest one last.
LowBytes(b, n, width) ==
  /\ b[width] = n % 256
  /\ width > 1 => b[width - 1] = (n \div 256) % 256
  /\ width > 2 => b[width - 2] = (n \div K2) % 256
  /\ width > 3 => b[width - 3] = (n \div K3) % 256

\* The bytes of a number, from the last one.
LEMMA BigEndianIs ==
  ASSUME NEW n \in Nat, NEW width \in 1..4
  PROVE  LowBytes(BigEndian(n, width), n, width)
<1> DEFINE Pow(k) == 256^k
<1>1. /\ Pow(0) = 1 /\ Pow(1) = 256 /\ Pow(2) = K2 /\ Pow(3) = K3
  BY Powers
<1>2. BigEndian(n, width) = [i \in 1..width |-> (n \div Pow(width - i)) % 256]
  BY DEF BigEndian
<1> HIDE DEF Pow
<1>3. \A k \in 0..3 : (n \div Pow(k)) % 256 \in Nat
  <2> TAKE k \in 0..3
  <2>1. \/ k = 0 \/ k = 1 \/ k = 2 \/ k = 3
    OBVIOUS
  <2> QED  BY <1>1, <2>1 DEF K2, K3
<1>4. \A i \in 1..width : width - i \in 0..3
  OBVIOUS
<1>5. PICK b : b = BigEndian(n, width)
  OBVIOUS
<1>6. \A i \in 1..width : b[i] = (n \div Pow(width - i)) % 256 /\ b[i] \in Nat
  BY <1>2, <1>3, <1>4, <1>5
<1>8. \A k \in 0..3 : k < width => b[width - k] = (n \div Pow(k)) % 256
  <2> SUFFICES ASSUME NEW k \in 0..3, k < width PROVE b[width - k] = (n \div Pow(k)) % 256
    OBVIOUS
  <2>1. width - k \in 1..width /\ width - (width - k) = k
    OBVIOUS
  <2> QED  BY <1>6, <2>1
<1>9. b[width] = (n \div 1) % 256
  <2>1. b[width - 0] = (n \div Pow(0)) % 256 /\ width - 0 = width
    BY <1>8
  <2> QED  BY <1>1, <2>1
<1>10. n \div 1 = n
  OBVIOUS
<1>11. width > 1 => b[width - 1] = (n \div 256) % 256
  BY <1>1, <1>8
<1>12. width > 2 => b[width - 2] = (n \div K2) % 256
  BY <1>1, <1>8
<1>13. width > 3 => b[width - 3] = (n \div K3) % 256
  BY <1>1, <1>8
<1>14. LowBytes(b, n, width)
  BY <1>9, <1>10, <1>11, <1>12, <1>13 DEF LowBytes
<1> QED  BY <1>5, <1>14

\* Up to four bytes read back, the first one first.
LEMMA FromBigEndianIs ==
  ASSUME NEW b \in Seq(Nat), NEW n \in 1..4, Len(b) = n
  PROVE  FromBigEndian(b) =
           IF n = 1 THEN b[1]
           ELSE IF n = 2 THEN b[1] * 256 + b[2]
           ELSE IF n = 3 THEN (b[1] * 256 + b[2]) * 256 + b[3]
           ELSE ((b[1] * 256 + b[2]) * 256 + b[3]) * 256 + b[4]
<1> DEFINE Step(f) == [k \in 0..Len(b) |-> IF k = 0 THEN 0 ELSE f[k-1] * 256 + b[k]]
           w == [k \in 0..Len(b) |->
                   IF k = 0 THEN 0 ELSE IF k = 1 THEN b[1]
                   ELSE IF k = 2 THEN b[1] * 256 + b[2]
                   ELSE IF k = 3 THEN (b[1] * 256 + b[2]) * 256 + b[3]
                   ELSE ((b[1] * 256 + b[2]) * 256 + b[3]) * 256 + b[4]]
           v == CHOOSE f : f = Step(f)
<1>1. w = Step(w)
  <2>1. \A i \in 1..n : b[i] \in Nat
    OBVIOUS
  <2>2. \A k \in 0..Len(b) : w[k] = IF k = 0 THEN 0 ELSE w[k-1] * 256 + b[k]
    <3> TAKE k \in 0..Len(b)
    <3>1. \/ k = 0 \/ k = 1 \/ k = 2 \/ k = 3 \/ k = 4
      OBVIOUS
    <3>2. CASE k = 0
      BY <3>2
    <3>3. CASE k = 1
      <4>1. b[1] \in Nat /\ w[0] = 0 /\ w[1] = b[1]
        BY <2>1, <3>3
      <4> QED  BY <3>3, <4>1
    <3>4. CASE k = 2
      <4>1. w[1] = b[1] /\ w[2] = b[1] * 256 + b[2]
        BY <3>4
      <4> QED  BY <3>4, <4>1
    <3>5. CASE k = 3
      <4>1. w[2] = b[1] * 256 + b[2] /\ w[3] = (b[1] * 256 + b[2]) * 256 + b[3]
        BY <3>5
      <4> QED  BY <3>5, <4>1
    <3>6. CASE k = 4
      <4>1. /\ w[3] = (b[1] * 256 + b[2]) * 256 + b[3]
            /\ w[4] = ((b[1] * 256 + b[2]) * 256 + b[3]) * 256 + b[4]
        BY <3>6
      <4> QED  BY <3>6, <4>1
    <3> QED  BY <3>1, <3>2, <3>3, <3>4, <3>5, <3>6
  <2> HIDE DEF w
  <2>3. w = [k \in 0..Len(b) |-> w[k]]
    BY DEF w
  <2> QED  BY <2>2, <2>3
<1>2. v = Step(v)
  BY <1>1
<1>3. FromBigEndian(b) = v[Len(b)]
  BY DEF FromBigEndian
<1> HIDE DEF v
<1>4. \A k \in 0..n : v[k] = IF k = 0 THEN 0 ELSE v[k-1] * 256 + b[k]
  BY <1>2
<1>5. v[0] = 0 /\ b[1] \in Nat
  BY <1>4
<1>6. v[1] = b[1]
  BY <1>4, <1>5
<1>7. n > 1 => v[2] = v[1] * 256 + b[2]
  BY <1>4
<1>8. n > 2 => v[3] = v[2] * 256 + b[3]
  BY <1>4
<1>9. n > 3 => v[4] = v[3] * 256 + b[4]
  BY <1>4
<1>10. CASE n = 1
  BY <1>3, <1>6, <1>10
<1>11. CASE n = 2
  BY <1>3, <1>6, <1>7, <1>11
<1>12. CASE n = 3
  BY <1>3, <1>6, <1>7, <1>8, <1>12
<1>13. CASE n = 4
  BY <1>3, <1>6, <1>7, <1>8, <1>9, <1>13
<1> QED BY <1>10, <1>11, <1>12, <1>13

\* Without the powers: what fits into how many bytes.
LEMMA FitsIs ==
  ASSUME NEW n \in Nat, NEW width \in 1..4, Fits(n, width)
  PROVE  /\ width = 1 => n < 256
         /\ width = 2 => n \div 256 < 256
         /\ width = 3 => n \div K2 < 256
         /\ width = 4 => n \div K3 < 256
<1> DEFINE Pow(k) == 256^k
<1>1. /\ Pow(0) = 1 /\ Pow(1) = 256 /\ Pow(2) = K2 /\ Pow(3) = K3
  BY Powers
<1>2. n \in Nat /\ n \div Pow(width - 1) < 256
  BY DEF Fits
<1> HIDE DEF Pow
<1>3. width = 1 => n \div 1 < 256
  BY <1>1, <1>2
<1>4. width = 2 => n \div 256 < 256
  BY <1>1, <1>2
<1>5. width = 3 => n \div K2 < 256
  BY <1>1, <1>2
<1>6. width = 4 => n \div K3 < 256
  BY <1>1, <1>2
<1>7. n \div 1 = n
  BY <1>2
<1> QED  BY <1>2, <1>3, <1>4, <1>5, <1>6, <1>7

\* A number that fits is read as it was written.
LEMMA IntReads ==
  ASSUME NEW width \in 1..4, NEW n, Fits(n, width)
  PROVE  FromBigEndian(BigEndian(n, width)) = n
<1>0. n \in Nat
  BY DEF Fits
<1>1. /\ n \in Nat
      /\ width = 1 => n < 256
      /\ width = 2 => n \div 256 < 256
      /\ width = 3 => n \div K2 < 256
      /\ width = 4 => n \div K3 < 256
  BY <1>0, FitsIs, ZenonT(60)
<1>2. PICK b : b = BigEndian(n, width)
  OBVIOUS
<1>3. /\ b \in Seq(Nat) /\ Len(b) = width
      /\ b[width] = n % 256
      /\ width > 1 => b[width - 1] = (n \div 256) % 256
      /\ width > 2 => b[width - 2] = (n \div K2) % 256
      /\ width > 3 => b[width - 3] = (n \div K3) % 256
  <2>1. b \in Seq(Nat) /\ Len(b) = width
    BY <1>0, <1>2, BigEndianSeq
  <2>2. LowBytes(b, n, width)
    BY <1>0, <1>2, BigEndianIs
  <2> QED  BY <2>1, <2>2 DEF LowBytes
<1>4. PICK n1 \in Nat, n2 \in Nat, n3 \in Nat :
        n1 = n \div 256 /\ n2 = n \div K2 /\ n3 = n \div K3
  BY <1>1, LastByte, DivOn, ZenonT(60)
<1>5. n2 = n1 \div 256 /\ n3 = n2 \div 256
  BY <1>1, <1>4, DivOn
<1>6. n = 256 * n1 + (n % 256) /\ n % 256 \in 0..255
  BY <1>1, <1>4, LastByte
<1>7. n1 = 256 * n2 + (n1 % 256) /\ n1 % 256 \in 0..255
  BY <1>4, <1>5, LastByte
<1>8. n2 = 256 * n3 + (n2 % 256) /\ n2 % 256 \in 0..255
  BY <1>4, <1>5, LastByte
<1>9. CASE width = 1
  <2>1. FromBigEndian(b) = b[1] /\ b[1] = n % 256
    BY <1>3, <1>9, FromBigEndianIs
  <2> QED  BY <1>1, <1>2, <1>9, <2>1
<1>10. CASE width = 2
  <2>1. FromBigEndian(b) = b[1] * 256 + b[2] /\ b[1] = n1 % 256 /\ b[2] = n % 256
    BY <1>3, <1>4, <1>10, FromBigEndianIs
  <2>2. n1 % 256 = n1
    BY <1>1, <1>4, <1>10
  <2> QED  BY <1>2, <1>6, <2>1, <2>2
<1>11. CASE width = 3
  <2>1. /\ FromBigEndian(b) = (b[1] * 256 + b[2]) * 256 + b[3]
        /\ b[1] = n2 % 256 /\ b[2] = n1 % 256 /\ b[3] = n % 256
    BY <1>3, <1>4, <1>11, FromBigEndianIs
  <2>2. n2 % 256 = n2
    BY <1>1, <1>4, <1>11
  <2> QED  BY <1>2, <1>6, <1>7, <2>1, <2>2
<1>12. CASE width = 4
  <2>1. /\ FromBigEndian(b) = ((b[1] * 256 + b[2]) * 256 + b[3]) * 256 + b[4]
        /\ b[1] = n3 % 256 /\ b[2] = n2 % 256 /\ b[3] = n1 % 256 /\ b[4] = n % 256
    BY <1>3, <1>4, <1>12, FromBigEndianIs
  <2>2. n3 % 256 = n3
    BY <1>1, <1>4, <1>12
  <2> QED  BY <1>2, <1>6, <1>7, <1>8, <2>1, <2>2
<1> QED  BY <1>9, <1>10, <1>11, <1>12

-----------------------------------------------------------------------------
(* One value at the front of the buffer.                                    *)

\* A parser, and one that has not failed.
State(data, out, ok) == [data |-> data, out |-> out, ok |-> ok]
Running(data, out) == State(data, out, TRUE)

\* Its parts.
LEMMA RunningIs ==
  ASSUME NEW data, NEW out
  PROVE  /\ Running(data, out).data = data /\ Running(data, out).out = out
         /\ Running(data, out).ok
         /\ Running(data, <<>>) = Parser(data)
<1>1. \A ok : State(data, out, ok).data = data /\ State(data, out, ok).out = out
  BY DEF State
<1>2. State(data, out, TRUE).ok
  BY DEF State
<1>3. State(data, <<>>, TRUE) = Parser(data)
  BY DEF State, Parser
<1> QED  BY <1>1, <1>2, <1>3 DEF Running

\* Taking n bytes.
LEMMA TakeIs ==
  ASSUME NEW data, NEW out, NEW n
  PROVE  Take(Running(data, out), n) = Running(SubSeq(data, n + 1, Len(data)), out)
<1>1. \A ok : Take(State(data, out, ok), n) = State(SubSeq(data, n + 1, Len(data)), out, ok)
  <2> TAKE ok
  <2>1. \A r : [State(data, out, ok) EXCEPT !.data = r] = State(r, out, ok)
    BY DEF State
  <2>2. Take(State(data, out, ok), n)
          = [State(data, out, ok) EXCEPT !.data = SubSeq(data, n + 1, Len(data))]
    BY DEF Take, State
  <2> QED  BY <2>1, <2>2
<1> QED  BY <1>1, Zenon DEF Running

\* Handing out a value.
LEMMA EmitIs ==
  ASSUME NEW data, NEW out, NEW val
  PROVE  Emit(Running(data, out), val) = Running(data, Append(out, val))
<1>1. \A ok : Emit(State(data, out, ok), val) = State(data, Append(out, val), ok)
  <2> TAKE ok
  <2>1. \A r : [State(data, out, ok) EXCEPT !.out = r] = State(data, r, ok)
    BY DEF State
  <2>2. Emit(State(data, out, ok), val) = [State(data, out, ok) EXCEPT !.out = Append(out, val)]
    BY DEF Emit, State
  <2> QED  BY <2>1, <2>2
<1> QED  BY <1>1, Zenon DEF Running

\* Taking what is in front leaves what is behind.
LEMMA TakeFront ==
  ASSUME NEW a \in Seq(Nat), NEW b \in Seq(Nat), NEW out
  PROVE  Take(Running(a \o b, out), Len(a)) = Running(b, out)
<1>1. SubSeq(a \o b, Len(a) + 1, Len(a \o b)) = b
  BY ConcatParts
<1> QED  BY <1>1, TakeIs

\* And handing out a value for it.
LEMMA EmitFront ==
  ASSUME NEW a \in Seq(Nat), NEW b \in Seq(Nat), NEW out, NEW val
  PROVE  Emit(Take(Running(a \o b, out), Len(a)), val) = Running(b, Append(out, val))
BY TakeFront, EmitIs

\* An integer on the wire: two bytes of header, and its own.
LEMMA IntOnWire ==
  ASSUME NEW width \in 1..4, NEW n \in Nat
  PROVE  /\ asn_int(n, width) \in Seq(Nat) /\ Len(asn_int(n, width)) = 2 + width
         /\ asn_int(n, width)[1] = 2 /\ asn_int(n, width)[2] = width
         /\ SubSeq(asn_int(n, width), 3, 2 + width) = BigEndian(n, width)
<1>1. PICK b : b = BigEndian(n, width)
  OBVIOUS
<1>2. b \in Seq(Nat) /\ Len(b) = width
  BY <1>1, BigEndianSeq
<1>3. PICK a : a = <<2, width>>
  OBVIOUS
<1>4. a \in Seq(Nat) /\ Len(a) = 2 /\ a[1] = 2 /\ a[2] = width
  BY <1>3
<1>5. asn_int(n, width) = a \o b
  BY <1>1, <1>3 DEF asn_int
<1>6. /\ a \o b \in Seq(Nat) /\ Len(a \o b) = Len(a) + Len(b)
      /\ SubSeq(a \o b, Len(a) + 1, Len(a) + Len(b)) = b
      /\ \A i \in 1..Len(a) : (a \o b)[i] = a[i]
  BY <1>2, <1>4, ConcatParts
<1>7. Len(a) + 1 = 3 /\ Len(a) + Len(b) = 2 + width
  BY <1>2, <1>4
<1>8. (a \o b)[1] = a[1] /\ (a \o b)[2] = a[2]
  BY <1>4, <1>6
<1> QED  BY <1>1, <1>4, <1>5, <1>6, <1>7, <1>8

\* take_asn_int takes what asn_int wrote.
LEMMA TakesInt ==
  ASSUME NEW width \in 1..4, NEW n, Fits(n, width), NEW rest \in Seq(Nat), NEW out
  PROVE  take_asn_int(Running(asn_int(n, width) \o rest, out)) = Running(rest, Append(out, n))
<1>1. n \in Nat
  BY DEF Fits
<1>2. PICK a : a = asn_int(n, width)
  OBVIOUS
<1>3. /\ a \in Seq(Nat) /\ Len(a) = 2 + width
      /\ a[1] = 2 /\ a[2] = width
      /\ SubSeq(a, 3, 2 + width) = BigEndian(n, width)
  BY <1>1, <1>2, IntOnWire
<1>4. PICK d : d = a \o rest
  OBVIOUS
<1>5. /\ d \in Seq(Nat) /\ Len(d) = Len(a) + Len(rest) /\ Len(rest) \in Nat
      /\ \A i \in 1..Len(a) : d[i] = a[i]
      /\ SubSeq(d, 1, Len(a)) = a
  BY <1>3, <1>4, ConcatParts
<1>6. d[1] = 2 /\ d[2] = width /\ Len(d) >= 2 + width
  BY <1>3, <1>5
<1>7. SubSeq(d, 3, 2 + width) = BigEndian(n, width)
  <2>1. /\ SubSeq(d, 3, 2 + width) \in Seq(Nat)
        /\ Len(SubSeq(d, 3, 2 + width)) = width
        /\ \A i \in 1..((2 + width) - 3 + 1) : SubSeq(d, 3, 2 + width)[i] = d[3 + i - 1]
    <3>1. IsPiece(SubSeq(d, 3, 2 + width), d, 3, 2 + width)
      BY <1>5, <1>6, Piece
    <3> QED  BY <1>5, <1>6, <3>1 DEF IsPiece
  <2>2. /\ SubSeq(a, 3, 2 + width) \in Seq(Nat)
        /\ Len(SubSeq(a, 3, 2 + width)) = width
        /\ \A i \in 1..((2 + width) - 3 + 1) : SubSeq(a, 3, 2 + width)[i] = a[3 + i - 1]
    <3>1. IsPiece(SubSeq(a, 3, 2 + width), a, 3, 2 + width)
      BY <1>3, Piece
    <3> QED  BY <1>3, <3>1 DEF IsPiece
  <2>3. \A i \in 1..width : d[3 + i - 1] = a[3 + i - 1]
    BY <1>3, <1>5
  <2>4. \A i \in 1..width : SubSeq(d, 3, 2 + width)[i] = SubSeq(a, 3, 2 + width)[i]
    BY <2>1, <2>2, <2>3
  <2> QED  BY <1>3, <2>1, <2>2, <2>4, SeqEqual, ZenonT(60)
<1>8. FromBigEndian(SubSeq(d, 3, 2 + width)) = n
  BY <1>7, IntReads
<1>9. PICK p : p = Running(d, out)
  OBVIOUS
<1>10. p.data = d
  BY <1>9, RunningIs
<1>11. take_asn_int(p) = Emit(Take(p, 2 + width), FromBigEndian(SubSeq(d, 3, 2 + width)))
  BY <1>6, <1>10, <1>5 DEF take_asn_int
<1>12. take_asn_int(p) = Emit(Take(Running(a \o rest, out), Len(a)), n)
  BY <1>3, <1>4, <1>8, <1>9, <1>11
<1> QED  BY <1>2, <1>3, <1>4, <1>9, <1>12, EmitFront

\* What a string that can be packed is made of.
LEMMA StringShape ==
  ASSUME NEW f, Packable(f), f.kind = "s"
  PROVE  /\ f.size \in {1, 2, 4} /\ f.length \in Nat
         /\ f.val \in Seq(Nat) /\ Len(f.val) \in Nat
         /\ Len(f.val) * f.size \in Nat
         /\ (f.length - Len(f.val)) * f.size \in Nat
         /\ f.length * f.size = Len(f.val) * f.size + (f.length - Len(f.val)) * f.size
         /\ Fits(f.length * f.size, 4) /\ Fits((f.length - Len(f.val)) * f.size, 4)
         /\ \A i \in 1..Len(f.val) : Fits(f.val[i], f.size)
         /\ Len(f.val) < K4
<1>1. f.kind \notin DOMAIN IntWidth
  BY DEF IntWidth
<1>2. /\ f.size \in {1, 2, 4} /\ f.length \in Nat /\ f.val \in Seq(Nat)
      /\ Len(f.val) <= f.length
      /\ Fits(f.length * f.size, 4)
      /\ \A i \in 1..Len(f.val) : Fits(f.val[i], f.size)
  BY <1>1 DEF Packable
<1>3. PICK len \in Nat, valid \in Nat : len = f.length /\ valid = Len(f.val)
  BY <1>2
<1>4. PICK size \in {1, 2, 4} : size = f.size
  BY <1>2
<1>5. /\ valid * size \in Nat /\ (len - valid) * size \in Nat /\ len * size \in Nat
      /\ len * size = valid * size + (len - valid) * size
      /\ valid <= len * size /\ (len - valid) * size <= len * size
  <2>0. valid <= len
    BY <1>2, <1>3
  <2>1. PICK over \in Nat : over = len - valid /\ len = valid + over
    BY <2>0
  <2>2. /\ valid * size \in Nat /\ over * size \in Nat
        /\ (valid + over) * size = valid * size + over * size
        /\ valid <= valid * size
    BY SMT
  <2> QED  BY <2>1, <2>2
<1>6. PICK all \in Nat, pad \in Nat : all = len * size /\ pad = (len - valid) * size
  BY <1>5
<1>7. Fits(all, 4)
  BY <1>2, <1>3, <1>4, <1>6
<1>8. all \div K3 < 256
  BY <1>7, FitsIs
<1>9. pad <= all /\ valid <= all
  BY <1>5, <1>6
<1>10. all < K4 /\ pad \div K3 < 256
  BY <1>8, <1>9 DEF K3, K4
<1>11. pad \div 256^(4 - 1) < 256
  BY <1>10, Powers
<1>12. Fits(pad, 4)
  BY <1>11 DEF Fits
<1>13. valid < K4
  BY <1>9, <1>10 DEF K4
<1> QED  BY <1>2, <1>3, <1>4, <1>5, <1>6, <1>12, <1>13

-----------------------------------------------------------------------------
(* One string at the front of the buffer.                                   *)

\* The elements of a string are written as bytes.
LEMMA PayloadIs ==
  ASSUME NEW f, Packable(f), f.kind = "s"
  PROVE  /\ Value(f) = [i \in 1..(Len(f.val) * f.size) |-> Payload(f, i)]
         /\ Value(f) \in Seq(Nat) /\ Len(Value(f)) = Len(f.val) * f.size
<1>1. PICK valid \in Nat, size \in {1, 2, 4}, all \in Nat :
        valid = Len(f.val) /\ size = f.size /\ all = valid * size
  BY StringShape
<1>2. f.val \in Seq(Nat)
  BY StringShape
<1>3. Value(f) = [i \in 1..all |-> Payload(f, i)]
  BY <1>1 DEF Value
<1>4. \A i \in 1..all : Payload(f, i) \in Nat
  <2> TAKE i \in 1..all
  <2>1. PICK q, r : q = ((i - 1) \div size) + 1 /\ r = ((i - 1) % size) + 1
    OBVIOUS
  <2>2. q \in 1..valid /\ r \in 1..size
    <3>1. i - 1 \in Nat /\ i - 1 < valid * size
      BY <1>1
    <3>2. CASE size = 1
      BY <2>1, <3>1, <3>2
    <3>3. CASE size = 2
      BY <2>1, <3>1, <3>3
    <3>4. CASE size = 4
      BY <2>1, <3>1, <3>4
    <3> QED  BY <3>2, <3>3, <3>4
  <2>3. f.val[q] \in Nat
    BY <1>1, <1>2, <2>2, ElementOfSeq
  <2>4. BigEndian(f.val[q], size) \in Seq(Nat) /\ Len(BigEndian(f.val[q], size)) = size
    <3>1. size \in 1..4
      OBVIOUS
    <3> QED  BY <2>3, <3>1, BigEndianSeq
  <2>5. LittleEndian(f.val[q], size) \in Seq(Nat) /\ Len(LittleEndian(f.val[q], size)) = size
    BY <2>4, ReverseTwice DEF LittleEndian
  <2>6. LittleEndian(f.val[q], size)[r] \in Nat
    BY <2>2, <2>5, ElementOfSeq
  <2> QED  BY <1>1, <2>1, <2>6 DEF Payload
<1> QED  BY <1>1, <1>3, <1>4

\* A long length has one to four bytes, and fits them.
LEMMA LengthBytesIs ==
  ASSUME NEW valid \in Nat, 128 <= valid, valid < K4
  PROVE  /\ LengthBytes(valid) \in 1..4 /\ Fits(valid, LengthBytes(valid))
         /\ valid < 256 => LengthBytes(valid) = 1
<1> DEFINE Pow(k) == 256^k
<1>1. Pow(0) = 1 /\ Pow(1) = 256 /\ Pow(2) = K2 /\ Pow(3) = K3 /\ Pow(4) = K4
  BY Powers
<1>2. PICK k : k = LengthBytes(valid)
  OBVIOUS
<1>3. k = CHOOSE j \in 1..4 : Pow(j-1) <= valid /\ valid < Pow(j)
  BY <1>2 DEF LengthBytes
<1>4. \A n \in Nat : Fits(n, k) <=> n \div Pow(k - 1) < 256
  BY DEF Fits
<1> HIDE DEF Pow
<1>5. \E j \in 1..4 : Pow(j-1) <= valid /\ valid < Pow(j)
  <2>1. CASE valid < 256
    <3>1. Pow(1-1) <= valid /\ valid < Pow(1)
      BY <1>1, <2>1
    <3> QED  BY <3>1
  <2>2. CASE 256 <= valid /\ valid < K2
    <3>1. Pow(2-1) <= valid /\ valid < Pow(2)
      BY <1>1, <2>2
    <3> QED  BY <3>1
  <2>3. CASE K2 <= valid /\ valid < K3
    <3>1. Pow(3-1) <= valid /\ valid < Pow(3)
      BY <1>1, <2>3
    <3> QED  BY <3>1
  <2>4. CASE K3 <= valid
    <3>1. Pow(4-1) <= valid /\ valid < Pow(4)
      BY <1>1, <2>4
    <3> QED  BY <3>1
  <2> QED  BY <2>1, <2>2, <2>3, <2>4 DEF K2, K3
<1>6. k \in 1..4 /\ Pow(k-1) <= valid /\ valid < Pow(k)
  BY <1>3, <1>5
<1>7. \/ k = 1 \/ k = 2 \/ k = 3 \/ k = 4
  BY <1>6
<1>8. valid \div Pow(k-1) < 256
  <2>1. CASE k = 1
    BY <1>1, <1>6, <2>1
  <2>2. CASE k = 2
    BY <1>1, <1>6, <2>2 DEF K2
  <2>3. CASE k = 3
    BY <1>1, <1>6, <2>3 DEF K2, K3
  <2>4. CASE k = 4
    BY <1>1, <1>6, <2>4 DEF K3, K4
  <2> QED  BY <1>7, <2>1, <2>2, <2>3, <2>4
<1>9. valid < 256 => k = 1
  <2>1. k = 2 => ~(valid < 256)
    BY <1>1, <1>6
  <2>2. k = 3 => ~(valid < 256)
    BY <1>1, <1>6 DEF K2
  <2>3. k = 4 => ~(valid < 256)
    BY <1>1, <1>6 DEF K3
  <2> QED  BY <1>7, <2>1, <2>2, <2>3
<1> QED  BY <1>2, <1>4, <1>6, <1>8, <1>9

\* Two numbers.
LEMMA PairIs ==
  ASSUME NEW x \in Nat, NEW y \in Nat
  PROVE  /\ <<x>> \in Seq(Nat) /\ <<x, y>> \in Seq(Nat) /\ Len(<<x, y>>) = 2
         /\ <<x, y>>[1] = x /\ <<x, y>>[2] = y
         /\ <<x>> \o <<y>> = <<x, y>>
<1>1. <<x>> \in Seq(Nat) /\ <<y>> \in Seq(Nat) /\ <<x, y>> \in Seq(Nat)
  OBVIOUS
<1>2. Len(<<x>>) = 1 /\ <<x>>[1] = x /\ Len(<<y>>) = 1 /\ <<y>>[1] = y
  OBVIOUS
<1>3. Len(<<x, y>>) = 2 /\ <<x, y>>[1] = x /\ <<x, y>>[2] = y
  OBVIOUS
<1>4. PICK a \in Seq(Nat), b \in Seq(Nat) : a = <<x>> /\ b = <<y>>
  BY <1>1
<1>5. /\ a \o b \in Seq(Nat) /\ Len(a \o b) = Len(a) + Len(b)
      /\ \A i \in 1..(Len(a) + Len(b)) : (a \o b)[i] = IF i <= Len(a) THEN a[i] ELSE b[i - Len(a)]
  BY ConcatProperties
<1>6. Len(a) = 1 /\ Len(b) = 1
  BY <1>2, <1>4
<1>7. Len(a \o b) = 2 /\ (a \o b)[1] = x /\ (a \o b)[2] = y
  BY <1>2, <1>4, <1>5, <1>6
<1>8. a \o b = <<x, y>>
  <2>1. \A i \in 1..2 : (a \o b)[i] = <<x, y>>[i]
    BY <1>3, <1>7
  <2> QED  BY <1>1, <1>3, <1>5, <1>7, <2>1, SeqEqual
<1> QED  BY <1>1, <1>3, <1>4, <1>8

\* A type and a length in front of something, as they are read.
Headed(code, valid) == <<code>> \o valid_field(valid)
ReadsAlike(valid) ==
  \/ valid < 256
  \/ BigEndian(valid, LengthBytes(valid)) = LittleEndian(valid, LengthBytes(valid))
LengthIsRead(head, d, code, valid) ==
  /\ head \in Seq(Nat) /\ Len(head) \in Nat \ {0, 1} /\ head[1] = code
  /\ LengthField(d) = Len(head) /\ d[1] = code
  /\ d[2] >= 128 => FromBigEndian(Reverse(SubSeq(d, 3, LengthField(d)))) = valid
  /\ ~(d[2] >= 128) => d[2] = valid

\* take_string reads the length _pack_string writes, if it is read alike.
LEMMA LengthReads ==
  ASSUME NEW code \in Nat, NEW valid \in Nat, valid < K4, NEW tail \in Seq(Nat),
         ReadsAlike(valid)
  PROVE  LengthIsRead(Headed(code, valid), Headed(code, valid) \o tail, code, valid)
<1>a. PICK head : head = Headed(code, valid)
  OBVIOUS
<1>b. PICK d : d = head \o tail
  OBVIOUS
<1>c. SUFFICES
            /\ head \in Seq(Nat) /\ Len(head) \in Nat \ {0, 1} /\ head[1] = code
            /\ LengthField(d) = Len(head) /\ d[1] = code
            /\ d[2] >= 128 => FromBigEndian(Reverse(SubSeq(d, 3, LengthField(d)))) = valid
            /\ ~(d[2] >= 128) => d[2] = valid
  BY <1>a, <1>b, Zenon DEF LengthIsRead
<1>1. CASE valid < 128
  <2>1. head = <<code>> \o <<valid>>
    BY <1>a, <1>1 DEF valid_field, Headed
  <2>2. head = <<code, valid>>
    BY <2>1, PairIs
  <2>3. head \in Seq(Nat) /\ Len(head) = 2 /\ head[1] = code /\ head[2] = valid
    BY <2>2, PairIs
  <2>4. \A i \in 1..2 : d[i] = head[i]
    <3>1. \A i \in 1..Len(head) : d[i] = head[i]
      BY <1>b, <2>3, ConcatParts
    <3> QED  BY <2>3, <3>1
  <2>5. d[1] = code /\ d[2] = valid
    BY <2>3, <2>4
  <2>6. LengthField(d) = 2
    <3>1. ~(d[2] >= 128)
      BY <1>1, <2>5
    <3> QED  BY <3>1, Zenon DEF LengthField
  <2> QED  BY <1>1, <2>3, <2>5, <2>6
<1>2. CASE 128 <= valid
  <2>1. PICK k \in 1..4 : k = LengthBytes(valid)
    BY <1>2, LengthBytesIs
  <2>2. Fits(valid, k) /\ (valid < 256 => k = 1)
    BY <1>2, <2>1, LengthBytesIs
  <2>3. PICK b : b = BigEndian(valid, k)
    OBVIOUS
  <2>4. b \in Seq(Nat) /\ Len(b) = k /\ FromBigEndian(b) = valid
    BY <2>2, <2>3, BigEndianSeq, IntReads
  <2>5. head = <<code>> \o (<<128 + k>> \o b)
    BY <1>a, <1>2, <2>1, <2>3 DEF valid_field, Headed
  <2>6. PICK m \in Nat : m = 128 + k
    OBVIOUS
  <2>7. PICK front : front = <<code, m>>
    OBVIOUS
  <2>8. front \in Seq(Nat) /\ Len(front) = 2 /\ front[1] = code /\ front[2] = m
    BY <2>7, PairIs
  <2>9. head = front \o b
    <3>1. <<code>> \in Seq(Nat) /\ <<m>> \in Seq(Nat) /\ <<code>> \o <<m>> = front
      BY <2>7, PairIs
    <3>2. <<code>> \o (<<m>> \o b) = (<<code>> \o <<m>>) \o b
      BY <2>4, <3>1, ConcatAssociative
    <3> QED  BY <2>5, <2>6, <3>1, <3>2
  <2>10. /\ head \in Seq(Nat) /\ Len(head) = Len(front) + Len(b)
         /\ \A i \in 1..Len(front) : head[i] = front[i]
    BY <2>4, <2>8, <2>9, ConcatParts
  <2>11. Len(head) = 2 + k /\ head[1] = code /\ head[2] = m
    BY <2>4, <2>8, <2>10
  <2>12. \A i \in 1..Len(head) : d[i] = head[i]
    BY <1>b, <2>10, ConcatParts
  <2>13. d[1] = code /\ d[2] = m
    BY <2>11, <2>12
  <2>14. LengthField(d) = 2 + k
    <3>1. 129 % 16 = 1 /\ 130 % 16 = 2 /\ 131 % 16 = 3 /\ 132 % 16 = 4
      BY SMT
    <3>2. (k = 1 /\ m = 129) \/ (k = 2 /\ m = 130) \/ (k = 3 /\ m = 131) \/ (k = 4 /\ m = 132)
      BY <2>6
    <3>3. m % 16 = k /\ m >= 128
      BY <3>1, <3>2
    <3> QED  BY <2>13, <3>3 DEF LengthField
  <2>15. SubSeq(d, 3, 2 + k) = b
    <3>1. d = front \o (b \o tail)
      <4>1. (front \o b) \o tail = front \o (b \o tail)
        BY <2>4, <2>8, Assoc
      <4> QED  BY <1>b, <2>9, <4>1
    <3>2. /\ b \o tail \in Seq(Nat) /\ Len(b \o tail) = Len(b) + Len(tail) /\ Len(tail) \in Nat
          /\ SubSeq(b \o tail, 1, Len(b)) = b
      BY <2>4, ConcatParts
    <3>3. k \in Nat /\ 1 \in Nat \ {0} /\ k <= Len(b \o tail)
      BY <2>4, <3>2
    <3>4. SubSeq(front \o (b \o tail), Len(front) + 1, Len(front) + k) = SubSeq(b \o tail, 1, k)
      BY <2>8, <3>2, <3>3, PieceBehind, ZenonT(60)
    <3>5. Len(front) + 1 = 3 /\ Len(front) + k = 2 + k
      BY <2>8
    <3> QED  BY <2>4, <3>1, <3>2, <3>4, <3>5
  <2>16. Reverse(b) = b
    <3>1. CASE valid < 256
      BY <2>2, <2>4, <3>1, ReverseTwice
    <3>2. CASE BigEndian(valid, k) = LittleEndian(valid, k)
      BY <2>3, <3>2 DEF LittleEndian
    <3> QED  BY <2>1, <3>1, <3>2 DEF ReadsAlike
  <2>17. FromBigEndian(Reverse(SubSeq(d, 3, LengthField(d)))) = valid
    BY <2>4, <2>14, <2>15, <2>16
  <2>18. d[2] >= 128 /\ Len(head) \in Nat \ {0, 1}
    BY <2>6, <2>11, <2>13
  <2> QED  BY <2>10, <2>11, <2>13, <2>14, <2>17, <2>18
<1> QED  BY <1>1, <1>2

\* The same for a string.
LEMMA StringHeadReads ==
  ASSUME NEW f, Packable(f), f.kind = "s", Symmetric(f), NEW tail \in Seq(Nat)
  PROVE  LET head == Headed(StringType(f.size), Len(f.val))
         IN /\ head \in Seq(Nat) /\ Len(head) \in Nat \ {0} /\ head[1] \in {85, 86, 87}
            /\ StringStarts(head \o tail)
            /\ LengthField(head \o tail) = Len(head)
            /\ ValidBytes(head \o tail) = Len(f.val) * f.size
<1>1. PICK valid \in Nat, size \in {1, 2, 4} : valid = Len(f.val) /\ size = f.size
  BY StringShape
<1>2. valid < K4
  BY <1>1, StringShape
<1>3. StringType(1) = 85 /\ StringType(2) = 86 /\ StringType(4) = 87
  BY DEF StringType
<1>4. PICK code \in {85, 86, 87} : code = StringType(size)
  BY <1>3
<1>5. PICK head : head = Headed(StringType(f.size), Len(f.val))
  OBVIOUS
<1>a. head = Headed(code, valid)
  BY <1>1, <1>4, <1>5
<1>6. ReadsAlike(valid)
  BY <1>1 DEF Symmetric, ReadsAlike
<1>7. PICK d : d = head \o tail
  OBVIOUS
<1>8. code \in Nat
  OBVIOUS
<1>9. /\ head \in Seq(Nat) /\ Len(head) \in Nat \ {0, 1} /\ head[1] = code
      /\ LengthField(d) = Len(head) /\ d[1] = code
      /\ d[2] >= 128 => FromBigEndian(Reverse(SubSeq(d, 3, LengthField(d)))) = valid
      /\ ~(d[2] >= 128) => d[2] = valid
  <2>1. LengthIsRead(Headed(code, valid), Headed(code, valid) \o tail, code, valid)
    BY <1>2, <1>6, <1>8, LengthReads
  <2>2. LengthIsRead(head, d, code, valid)
    BY <1>a, <1>7, <2>1
  <2> QED  BY <2>2 DEF LengthIsRead
<1>10. Len(d) >= Len(head) /\ Len(head) >= 2
  <2>1. Len(d) = Len(head) + Len(tail) /\ Len(tail) \in Nat
    BY <1>7, <1>9, ConcatParts
  <2>2. PICK h \in Nat \ {0, 1}, t \in Nat : h = Len(head) /\ t = Len(tail)
    BY <1>9, <2>1
  <2>3. h + t >= h /\ h >= 2
    BY <2>2
  <2> QED  BY <2>1, <2>2, <2>3
<1>11. StringStarts(d)
  BY <1>9, <1>10 DEF StringStarts
<1>12. PICK read : read = IF d[2] >= 128
                          THEN FromBigEndian(Reverse(SubSeq(d, 3, LengthField(d)))) ELSE d[2]
  OBVIOUS
<1>13. read = valid
  BY <1>9, <1>12
<1>14. ValidBytes(d) = CASE d[1] = 85 -> read [] d[1] = 86 -> read * 2 [] d[1] = 87 -> read * 4
  BY <1>12, Zenon DEF ValidBytes
<1>15. ValidBytes(d) = valid * size
  <2>1. CASE size = 1
    BY <1>3, <1>4, <1>9, <1>13, <1>14, <2>1
  <2>2. CASE size = 2
    BY <1>3, <1>4, <1>9, <1>13, <1>14, <2>2
  <2>3. CASE size = 4
    BY <1>3, <1>4, <1>9, <1>13, <1>14, <2>3
  <2> QED  BY <2>1, <2>2, <2>3
<1>16. Len(head) \in Nat \ {0}
  BY <1>9
<1> QED  BY <1>1, <1>4, <1>5, <1>7, <1>9, <1>11, <1>15, <1>16

\* The front of a string is bytes, whether or not it is read as written.
LEMMA HeadedSeq ==
  ASSUME NEW code \in Nat, NEW valid \in Nat, valid < K4
  PROVE  Headed(code, valid) \in Seq(Nat) /\ Len(Headed(code, valid)) \in Nat \ {0}
<1>1. PICK v : v = valid_field(valid)
  OBVIOUS
<1>2. v \in Seq(Nat)
  <2>1. CASE valid < 128
    BY <1>1, <2>1 DEF valid_field
  <2>2. CASE 128 <= valid
    <3>1. PICK k \in 1..4 : k = LengthBytes(valid)
      BY <2>2, LengthBytesIs
    <3>2. BigEndian(valid, k) \in Seq(Nat)
      BY BigEndianSeq
    <3>3. PICK m \in Nat : m = 128 + k
      OBVIOUS
    <3>4. v = <<m>> \o BigEndian(valid, k)
      BY <1>1, <2>2, <3>1, <3>3 DEF valid_field
    <3>5. <<m>> \in Seq(Nat)
      OBVIOUS
    <3> QED  BY <3>2, <3>4, <3>5, ConcatParts
  <2> QED  BY <2>1, <2>2
<1>3. PICK c : c = <<code>>
  OBVIOUS
<1>4. c \in Seq(Nat) /\ Len(c) = 1
  BY <1>3
<1>5. Headed(code, valid) = c \o v
  BY <1>1, <1>3 DEF Headed
<1>6. c \o v \in Seq(Nat) /\ Len(c \o v) = Len(c) + Len(v) /\ Len(v) \in Nat
  BY <1>2, <1>4, ConcatParts
<1>7. Len(c \o v) \in Nat \ {0}
  BY <1>4, <1>6
<1> QED  BY <1>5, <1>6, <1>7

\* The padding.
LEMMA ZerosSeq ==
  ASSUME NEW n \in Nat
  PROVE  Zeros(n) \in Seq(Nat) /\ Len(Zeros(n)) = n
BY DEF Zeros

\* The parts of a string on the wire.
IsParts(f, h, count, pad, data, zeros) ==
  /\ h \in Seq(Nat) /\ count \in Seq(Nat) /\ pad \in Seq(Nat)
  /\ data \in Seq(Nat) /\ zeros \in Seq(Nat)
  /\ h = Headed(StringType(f.size), Len(f.val)) /\ Len(h) \in Nat \ {0}
  /\ count = asn_int(f.length * f.size, 4)
  /\ pad = asn_int((f.length - Len(f.val)) * f.size, 4)
  /\ data = Value(f) /\ Len(data) = Len(f.val) * f.size
  /\ Len(zeros) = (f.length - Len(f.val)) * f.size
  /\ pack_string(f) = (((h \o count) \o pad) \o data) \o zeros

\* A packed string has these parts.
LEMMA StringParts ==
  ASSUME NEW f, Packable(f), f.kind = "s"
  PROVE  \E h, count, pad, data, zeros : IsParts(f, h, count, pad, data, zeros)
<1>1. PICK padding \in Nat, all \in Nat, valid \in Nat :
        /\ padding = (f.length - Len(f.val)) * f.size
        /\ all = f.length * f.size /\ valid = Len(f.val)
  <2>1. f.length * f.size \in Nat
    BY StringShape DEF Fits
  <2> QED  BY <2>1, StringShape
<1>2. StringType(f.size) \in Nat
  <2>1. f.size \in {1, 2, 4}
    BY StringShape
  <2>2. StringType(1) = 85 /\ StringType(2) = 86 /\ StringType(4) = 87
    BY DEF StringType
  <2> QED  BY <2>1, <2>2
<1>3. valid < K4
  BY <1>1, StringShape
<1>4. PICK h \in Seq(Nat) : h = Headed(StringType(f.size), valid) /\ Len(h) \in Nat \ {0}
  BY <1>2, <1>3, HeadedSeq
<1>5. 4 \in 1..4
  OBVIOUS
<1>6. PICK count \in Seq(Nat) : count = asn_int(all, 4)
  BY <1>5, IntOnWire
<1>7. PICK pad \in Seq(Nat) : pad = asn_int(padding, 4)
  BY <1>5, IntOnWire
<1>8. PICK data \in Seq(Nat) : data = Value(f) /\ Len(data) = Len(f.val) * f.size
  BY PayloadIs
<1>9. PICK zeros \in Seq(Nat) : zeros = Zeros(padding) /\ Len(zeros) = padding
  BY ZerosSeq
<1>10. Value(f) = [i \in 1..(Len(f.val) * f.size) |-> Payload(f, i)]
  BY PayloadIs
<1>11. pack_string(f)
         = ((((<<StringType(f.size)>> \o valid_field(Len(f.val)))
            \o asn_int(f.length * f.size, 4)) \o asn_int((f.length - Len(f.val)) * f.size, 4))
            \o [i \in 1..(Len(f.val) * f.size) |-> Payload(f, i)])
            \o Zeros((f.length - Len(f.val)) * f.size)
  BY Zenon DEF pack_string, asn_int4
<1>12. pack_string(f) = (((h \o count) \o pad) \o data) \o zeros
  BY <1>1, <1>4, <1>6, <1>7, <1>8, <1>9, <1>10, <1>11 DEF Headed
<1>13. Len(zeros) = (f.length - Len(f.val)) * f.size
  BY <1>1, <1>9
<1>14. h = Headed(StringType(f.size), Len(f.val)) /\ Len(h) \in Nat \ {0}
  BY <1>1, <1>4
<1>15. /\ count = asn_int(f.length * f.size, 4)
       /\ pad = asn_int((f.length - Len(f.val)) * f.size, 4)
  BY <1>1, <1>6, <1>7
<1>16. IsParts(f, h, count, pad, data, zeros)
  BY <1>8, <1>12, <1>13, <1>14, <1>15 DEF IsParts
<1> QED  BY <1>16

\* Two values one after the other.
LEMMA AppendTwo ==
  ASSUME NEW x \in Nat, NEW y \in Nat
  PROVE  /\ Append(Append(<<>>, x), y)[1] = x
         /\ Append(Append(<<>>, x), y)[2] = y
<1>1. PICK e \in Seq(Nat) : e = <<>> /\ Len(e) = 0
  BY EmptySeq
<1>2. PICK s : s = Append(e, x)
  OBVIOUS
<1>3. s \in Seq(Nat) /\ Len(s) = 0 + 1 /\ s[Len(e) + 1] = x
  BY <1>1, <1>2, AppendProperties
<1>4. Len(s) = 1 /\ s[1] = x
  BY <1>1, <1>3
<1>5. PICK t : t = Append(s, y)
  OBVIOUS
<1>6. (\A i \in 1..Len(s) : t[i] = s[i]) /\ t[Len(s) + 1] = y
  BY <1>3, <1>5, AppendProperties, ZenonT(60)
<1>7. t[1] = x /\ t[2] = y
  BY <1>4, <1>6
<1> QED  BY <1>1, <1>2, <1>5, <1>7

\* Replacing the buffer of a parser.
LEMMA WithData ==
  ASSUME NEW data, NEW out, NEW other
  PROVE  [Running(data, out) EXCEPT !.data = other] = Running(other, out)
<1>1. \A ok : [State(data, out, ok) EXCEPT !.data = other] = State(other, out, ok)
  BY DEF State
<1> QED  BY <1>1, Zenon DEF Running

\* take_string takes what _pack_string wrote.
LEMMA TakesString ==
  ASSUME NEW f, Packable(f), f.kind = "s", NEW rest, rest \in Seq(Nat), NEW out
  PROVE  /\ pack_string(f) \in Seq(Nat) /\ Len(pack_string(f)) \in Nat \ {0}
         /\ Symmetric(f) =>
              /\ (pack_string(f) \o rest)[1] \in {85, 86, 87}
              /\ take_string(Running(pack_string(f) \o rest, out))
                   = Running(rest, Append(out, Value(f)))
<1>1. PICK h, count, pad, data, zeros : IsParts(f, h, count, pad, data, zeros)
  BY StringParts
<1>s. /\ h \in Seq(Nat) /\ count \in Seq(Nat) /\ pad \in Seq(Nat)
      /\ data \in Seq(Nat) /\ zeros \in Seq(Nat)
  BY <1>1 DEF IsParts
<1>2. PICK t4 : t4 = zeros \o rest
  OBVIOUS
<1>3. PICK t3 : t3 = data \o t4
  OBVIOUS
<1>4. PICK t2 : t2 = pad \o t3
  OBVIOUS
<1>5. PICK t1 : t1 = count \o t2
  OBVIOUS
<1>t4. t4 \in Seq(Nat)
  BY <1>s, <1>2, ConcatParts
<1>t3. t3 \in Seq(Nat)
  BY <1>s, <1>3, <1>t4, ConcatParts
<1>t2. t2 \in Seq(Nat)
  BY <1>s, <1>4, <1>t3, ConcatParts
<1>t1. t1 \in Seq(Nat)
  BY <1>s, <1>5, <1>t2, ConcatParts
<1>p. PICK w : w = pack_string(f)
  OBVIOUS
<1>q. w = (((h \o count) \o pad) \o data) \o zeros
  BY <1>1, <1>p DEF IsParts
<1>6. PICK d : d = w \o rest
  OBVIOUS
<1>h. h = Headed(StringType(f.size), Len(f.val)) /\ Len(h) \in Nat \ {0}
  BY <1>1 DEF IsParts
<1>c1. PICK hc : hc = h \o count
  OBVIOUS
<1>d1. hc \in Seq(Nat) /\ Len(hc) = Len(h) + Len(count) /\ Len(count) \in Nat
  BY <1>s, <1>c1, ConcatParts
<1>c2. PICK hcp : hcp = hc \o pad
  OBVIOUS
<1>d2. hcp \in Seq(Nat) /\ Len(hcp) = Len(hc) + Len(pad) /\ Len(pad) \in Nat
  BY <1>s, <1>d1, <1>c2, ConcatParts
<1>c3. PICK hcpd : hcpd = hcp \o data
  OBVIOUS
<1>d3. hcpd \in Seq(Nat) /\ Len(hcpd) = Len(hcp) + Len(data) /\ Len(data) \in Nat
  BY <1>s, <1>d2, <1>c3, ConcatParts
<1>c4. w = hcpd \o zeros
  BY <1>q, <1>c1, <1>c2, <1>c3
<1>7. d = h \o t1
  <2>1. (hcpd \o zeros) \o rest = hcpd \o (zeros \o rest)
    <3>1. hcpd \in Seq(Nat)
      BY <1>s, <1>d3
    <3>2. zeros \in Seq(Nat)
      BY <1>s
    <3>3. rest \in Seq(Nat)
      BY <1>s, <1>d3
    <3> QED  BY <3>1, <3>2, <3>3, Assoc
  <2>2. (hcp \o data) \o t4 = hcp \o (data \o t4)
    <3>1. hcp \in Seq(Nat)
      BY <1>s, <1>d2, <1>t4
    <3>2. data \in Seq(Nat)
      BY <1>s
    <3>3. t4 \in Seq(Nat)
      BY <1>s, <1>d2, <1>t4
    <3> QED  BY <3>1, <3>2, <3>3, Assoc
  <2>3. (hc \o pad) \o t3 = hc \o (pad \o t3)
    <3>1. hc \in Seq(Nat)
      BY <1>s, <1>d1, <1>t3
    <3>2. pad \in Seq(Nat)
      BY <1>s
    <3>3. t3 \in Seq(Nat)
      BY <1>s, <1>d1, <1>t3
    <3> QED  BY <3>1, <3>2, <3>3, Assoc
  <2>4. (h \o count) \o t2 = h \o (count \o t2)
    <3>1. h \in Seq(Nat)
      BY <1>s, <1>t2
    <3>2. count \in Seq(Nat)
      BY <1>s
    <3>3. t2 \in Seq(Nat)
      BY <1>s, <1>t2
    <3> QED  BY <3>1, <3>2, <3>3, Assoc
  <2>5. d = hcpd \o t4
    BY <1>2, <1>6, <1>c4, <2>1
  <2>6. hcpd \o t4 = hcp \o t3
    BY <1>3, <1>c3, <2>2
  <2>7. hcp \o t3 = hc \o t2
    BY <1>4, <1>c2, <2>3
  <2>8. hc \o t2 = h \o t1
    BY <1>5, <1>c1, <2>4
  <2> QED  BY <2>5, <2>6, <2>7, <2>8
<1>8. w \in Seq(Nat) /\ Len(w) \in Nat \ {0}
  <2>1. /\ hcpd \o zeros \in Seq(Nat) /\ Len(hcpd \o zeros) = Len(hcpd) + Len(zeros)
        /\ Len(zeros) \in Nat
    BY <1>s, <1>d3, ConcatParts
  <2>2. PICK l \in Nat \ {0} : l = Len(h)
    BY <1>h
  <2>3. PICK l1 \in Nat, l2 \in Nat, l3 \in Nat, l4 \in Nat :
          l1 = Len(count) /\ l2 = Len(pad) /\ l3 = Len(data) /\ l4 = Len(zeros)
    BY <1>d1, <1>d2, <1>d3, <2>1
  <2>4. Len(hcpd \o zeros) = (((l + l1) + l2) + l3) + l4
    BY <1>d1, <1>d2, <1>d3, <2>1, <2>2, <2>3
  <2>5. Len(hcpd \o zeros) \in Nat \ {0}
    BY <2>4
  <2> QED  BY <1>c4, <2>1, <2>5
<1>9. SUFFICES ASSUME Symmetric(f)
               PROVE  /\ d[1] \in {85, 86, 87}
                      /\ take_string(Running(d, out)) = Running(rest, Append(out, Value(f)))
  BY <1>p, <1>6, <1>8
<1>10. /\ h[1] \in {85, 86, 87}
       /\ StringStarts(d) /\ LengthField(d) = Len(h)
       /\ ValidBytes(d) = Len(f.val) * f.size
  BY <1>h, <1>t1, <1>7, <1>9, StringHeadReads
<1>11. d[1] = h[1]
  <2>1. 1 \in 1..Len(h)
    BY <1>h
  <2> QED  BY <1>s, <1>t1, <1>7, <2>1, ConcatParts
<1>12. PICK vb \in Nat, pb \in Nat :
         vb = Len(f.val) * f.size /\ pb = (f.length - Len(f.val)) * f.size
  BY StringShape
<1>13. PICK all \in Nat : all = f.length * f.size /\ all = vb + pb
  BY <1>12, StringShape
<1>14. Fits(all, 4) /\ Fits(pb, 4) /\ 4 \in 1..4
  BY <1>12, <1>13, StringShape
<1>15. Take(Running(d, out), LengthField(d)).data = t1
  <2>1. Take(Running(h \o t1, out), Len(h)) = Running(t1, out)
    BY <1>s, <1>t1, TakeFront
  <2> QED  BY <1>7, <1>10, <2>1, RunningIs
<1>16. PICK outs : outs = Append(Append(<<>>, all), pb)
  OBVIOUS
<1>17. take_asn_int(take_asn_int(Parser(t1))) = Running(t3, outs)
  <2>1. Parser(t1) = Running(count \o t2, <<>>)
    BY <1>5, RunningIs
  <2>c. count = asn_int(all, 4) /\ pad = asn_int(pb, 4)
    BY <1>1, <1>12, <1>13 DEF IsParts
  <2>2. take_asn_int(Running(asn_int(all, 4) \o t2, <<>>)) = Running(t2, Append(<<>>, all))
    BY <1>14, <1>t2, TakesInt
  <2>3. take_asn_int(Running(asn_int(pb, 4) \o t3, Append(<<>>, all))) = Running(t3, Append(Append(<<>>, all), pb))
    BY <1>14, <1>t3, TakesInt
  <2> QED  BY <1>4, <1>16, <2>c, <2>1, <2>2, <2>3
<1>18. outs[1] = all /\ outs[2] = pb
  BY <1>16, AppendTwo
<1>19. PICK sizes : sizes = Running(t3, outs)
  OBVIOUS
<1>20. sizes.data = t3 /\ sizes.out = outs /\ sizes.ok
  BY <1>19, RunningIs
<1>21. PICK p : p = Running(d, out)
  OBVIOUS
<1>22. p.data = d
  BY <1>21, RunningIs
<1>23. PICK body : body = data \o zeros
  OBVIOUS
<1>b. body \in Seq(Nat) /\ Len(body) = vb + pb /\ Len(data) = vb
  <2>1. Len(data) = vb /\ Len(zeros) = pb
    BY <1>1, <1>12 DEF IsParts
  <2> QED  BY <1>s, <1>23, <2>1, ConcatParts
<1>24. t3 = body \o rest /\ Len(t3) >= vb + pb
  <2>1. Len(body \o rest) = Len(body) + Len(rest) /\ Len(rest) \in Nat
    BY <1>b, ConcatParts
  <2>2. (data \o zeros) \o rest = data \o (zeros \o rest)
    BY <1>s, Assoc, SMTT(30)
  <2>3. t3 = body \o rest
    BY <1>2, <1>3, <1>23, <2>2
  <2> QED  BY <1>b, <2>1, <2>3
<1>25. SubSeq(t3, 1, vb) = data
  <2>1. SubSeq(data \o t4, 1, Len(data)) = data
    BY <1>s, <1>t4, ConcatParts
  <2> QED  BY <1>3, <1>b, <2>1
<1>26. [p EXCEPT !.data = t3] = Running(t3, out)
  BY <1>21, WithData
<1>27. take_string(p) = Emit(Take([p EXCEPT !.data = t3], vb + pb), SubSeq(t3, 1, vb))
  <2>0. Len(t3) \in Nat
    BY <1>t3
  <2>1. ~(all # 0 /\ all # vb + pb) /\ ~(Len(t3) < vb + pb)
    BY <1>13, <1>24, <2>0
  <2>2. take_asn_int(take_asn_int(Parser(Take(p, LengthField(p.data)).data))) = sizes
    BY <1>15, <1>17, <1>19, <1>21, <1>22
  <2>3. ValidBytes(p.data) = vb /\ StringStarts(p.data)
    BY <1>10, <1>12, <1>22
  <2> QED  BY <1>18, <1>20, <2>1, <2>2, <2>3 DEF take_string
<1>28. Emit(Take(Running(body \o rest, out), Len(body)), data) = Running(rest, Append(out, data))
  <2>1. Take(Running(body \o rest, out), Len(body)) = Running(rest, out)
    BY <1>b, TakeFront
  <2> QED  BY <2>1, EmitIs
<1>29. take_string(p) = Running(rest, Append(out, data))
  BY <1>b, <1>24, <1>25, <1>26, <1>27, <1>28
<1>30. data = Value(f)
  BY <1>1 DEF IsParts
<1> QED  BY <1>10, <1>11, <1>21, <1>29, <1>30

-----------------------------------------------------------------------------
(* Fields one after the other.                                              *)

\* unpack_next and unpack_char alike take what pack_field wrote.
LEMMA TakesField ==
  ASSUME NEW f, Packable(f), NEW rest, rest \in Seq(Nat), NEW out
  PROVE  /\ pack_field(f) \in Seq(Nat) /\ Len(pack_field(f)) \in Nat \ {0}
         /\ Symmetric(f) =>
              LET p == Running(pack_field(f) \o rest, out)
                  q == Running(rest, Append(out, Value(f)))
              IN /\ unpack_next(p) = q
                 /\ unpack_char(IF f.kind = "s" THEN "s" ELSE "n", p) = q
<1>1. PICK d : d = pack_field(f) \o rest
  OBVIOUS
<1>2. PICK p : p = Running(d, out)
  OBVIOUS
<1>3. p.data = d
  BY <1>2, RunningIs
<1>4. CASE f.kind = "s"
  <2>1. pack_field(f) = pack_string(f)
    BY <1>4 DEF pack_field
  <2>2. pack_string(f) \in Seq(Nat) /\ Len(pack_string(f)) \in Nat \ {0}
    BY <1>4, TakesString
  <2>3. ASSUME Symmetric(f)
        PROVE  unpack_next(p) = Running(rest, Append(out, Value(f)))
               /\ unpack_char("s", p) = Running(rest, Append(out, Value(f)))
    <3>1. d[1] \in {85, 86, 87} /\ take_string(p) = Running(rest, Append(out, Value(f)))
      BY <1>1, <1>2, <1>4, <2>1, <2>3, TakesString
    <3>2. p.data[1] # 2 /\ p.data[1] \in {85, 86, 87}
      BY <1>3, <3>1
    <3>3. unpack_next(p) = take_string(p)
      BY <3>2 DEF unpack_next
    <3>4. unpack_char("s", p) = take_string(p)
      BY DEF unpack_char
    <3> QED  BY <3>1, <3>3, <3>4
  <2> QED  BY <1>1, <1>2, <1>4, <2>1, <2>2, <2>3
<1>5. CASE f.kind # "s"
  <2>1. f.kind \in DOMAIN IntWidth /\ Fits(f.val, IntWidth[f.kind])
    BY <1>5 DEF Packable
  <2>2. PICK width \in 1..4 : width = IntWidth[f.kind]
    BY <2>1 DEF IntWidth
  <2>3. PICK n : n = f.val
    OBVIOUS
  <2>4. Fits(n, width)
    BY <2>1, <2>2, <2>3
  <2>5. pack_field(f) = asn_int(n, width) /\ Value(f) = n
    BY <1>5, <2>2, <2>3 DEF pack_field, Value
  <2>6. n \in Nat
    BY <2>4 DEF Fits
  <2>7. asn_int(n, width) \in Seq(Nat) /\ Len(asn_int(n, width)) = 2 + width /\ asn_int(n, width)[1] = 2
    BY <2>6, IntOnWire
  <2>8. 2 + width \in Nat \ {0} /\ 1 \in 1..(2 + width)
    OBVIOUS
  <2>9. d[1] = 2
    <3>1. \A i \in 1..(2 + width) : d[i] = asn_int(n, width)[i]
      BY <1>1, <2>5, <2>7, ConcatParts
    <3> QED  BY <2>7, <2>8, <3>1
  <2>10. take_asn_int(p) = Running(rest, Append(out, n))
    BY <1>1, <1>2, <2>4, <2>5, TakesInt
  <2>11. p.data[1] = 2
    BY <1>3, <2>9
  <2>12. unpack_next(p) = take_asn_int(p) /\ unpack_char("n", p) = take_asn_int(p)
    BY <2>11 DEF unpack_next, unpack_char
  <2> QED  BY <1>1, <1>2, <1>5, <2>5, <2>7, <2>8, <2>10, <2>12
<1> QED  BY <1>4, <1>5

\* A field is bytes, and at least one.
LEMMA FieldSeq ==
  ASSUME NEW f, Packable(f)
  PROVE  pack_field(f) \in Seq(Nat) /\ Len(pack_field(f)) \in Nat \ {0}
<1>1. <<>> \in Seq(Nat)
  BY EmptySeq
<1> QED  BY <1>1, TakesField

\* The values of the first n fields.
Values(fields, n) == [i \in 1..n |-> Value(fields[i])]

\* One more.
LEMMA ValuesAppend ==
  ASSUME NEW fields, NEW n \in Nat
  PROVE  Append(Values(fields, n), Value(fields[n+1])) = Values(fields, n + 1)
<1> DEFINE S == {Value(fields[i]) : i \in 1..(n+1)}
<1>1. PICK v : v = Values(fields, n)
  OBVIOUS
<1>2. PICK w : w = Values(fields, n + 1)
  OBVIOUS
<1>3. PICK e : e = Value(fields[n+1])
  OBVIOUS
<1>4. v \in Seq(S) /\ Len(v) = n /\ \A i \in 1..n : v[i] = Value(fields[i])
  BY <1>1 DEF Values
<1>5. w \in Seq(S) /\ Len(w) = n + 1 /\ \A i \in 1..(n+1) : w[i] = Value(fields[i])
  BY <1>2 DEF Values
<1>6. e \in S
  BY <1>3
<1> HIDE DEF S
<1>7. PICK a : a = Append(v, e)
  OBVIOUS
<1>8. /\ a \in Seq(S) /\ Len(a) = Len(v) + 1
      /\ \A i \in 1..Len(v) : a[i] = v[i]
      /\ a[Len(v) + 1] = e
  BY <1>4, <1>6, <1>7, AppendProperties
<1>9. \A i \in 1..(n+1) : a[i] = w[i]
  BY <1>3, <1>4, <1>5, <1>8
<1>10. a = w
  BY <1>4, <1>5, <1>8, <1>9, SeqEqual
<1> QED  BY <1>1, <1>2, <1>3, <1>7, <1>10

\* What follows each of the first n fields, from the whole to nothing.
Chain(r, fields, n, data) ==
  /\ \A i \in 1..(n+1) : r[i] \in Seq(Nat)
  /\ r[1] = data /\ r[n+1] = <<>>
  /\ \A i \in 1..n : r[i] = pack_field(fields[i]) \o r[i+1]

\* Nothing written yet.
LEMMA ChainStart == ASSUME NEW fields PROVE \E r : Chain(r, fields, 0, <<>>)
<1>1. PICK r : r = [i \in 1..1 |-> <<>>]
  OBVIOUS
<1>2. r[1] = <<>> /\ <<>> \in Seq(Nat)
  BY <1>1, EmptySeq
<1>3. 0 + 1 = 1 /\ 1..0 = {} /\ \A i \in 1..1 : i = 1
  OBVIOUS
<1>4. \A i \in 1..(0+1) : r[i] \in Seq(Nat)
  BY <1>2, <1>3
<1>5. \A i \in 1..0 : r[i] = pack_field(fields[i]) \o r[i+1]
  BY <1>3
<1>6. r[0+1] = <<>>
  BY <1>2, <1>3
<1>7. Chain(r, fields, 0, <<>>)
  BY <1>2, <1>4, <1>5, <1>6 DEF Chain
<1> QED  BY <1>7

\* A field more makes every suffix longer.
LEMMA ChainGrows ==
  ASSUME NEW r, NEW fields, NEW n \in Nat, NEW data, Chain(r, fields, n, data),
         \A i \in 1..(n+1) : Packable(fields[i])
  PROVE  \E q : Chain(q, fields, n + 1, data \o pack_field(fields[n+1]))
<1>1. PICK p : p = pack_field(fields[n+1])
  OBVIOUS
<1>2. p \in Seq(Nat)
  <2>1. Packable(fields[n+1])
    OBVIOUS
  <2> QED  BY <1>1, <2>1, FieldSeq
<1>3. PICK q : q = [i \in 1..(n+2) |-> IF i = n + 2 THEN <<>> ELSE r[i] \o p]
  OBVIOUS
<1>4. q[n+2] = <<>> /\ \A i \in 1..(n+1) : q[i] = r[i] \o p
  BY <1>3
<1>5. \A i \in 1..(n+1) : q[i] \in Seq(Nat)
  <2> TAKE i \in 1..(n+1)
  <2>1. r[i] \in Seq(Nat)
    BY DEF Chain
  <2> QED  BY <1>2, <1>4, <2>1, ConcatParts
<1>6. q[1] = data \o p
  <2>1. 1 \in 1..(n+1) /\ r[1] = data
    BY DEF Chain
  <2> QED  BY <1>4, <2>1
<1>7. q[n+1] = pack_field(fields[n+1]) \o q[n+2]
  <2>1. r[n+1] = <<>>
    BY DEF Chain
  <2>2. <<>> \o p = p /\ p \o <<>> = p
    BY <1>2, ConcatEmptySeq
  <2>3. n + 1 \in 1..(n+1)
    OBVIOUS
  <2>4. q[n+1] = r[n+1] \o p
    BY <1>4, <2>3
  <2> QED  BY <1>1, <1>4, <2>1, <2>2, <2>4
<1>8. \A i \in 1..n : q[i] = pack_field(fields[i]) \o q[i+1]
  <2> TAKE i \in 1..n
  <2>1. i \in 1..(n+1) /\ i + 1 \in 1..(n+1)
    OBVIOUS
  <2>2. r[i+1] \in Seq(Nat) /\ r[i] = pack_field(fields[i]) \o r[i+1]
    BY <2>1 DEF Chain
  <2>3. pack_field(fields[i]) \in Seq(Nat)
    BY <2>1, <2>2, TakesField
  <2>4. (pack_field(fields[i]) \o r[i+1]) \o p = pack_field(fields[i]) \o (r[i+1] \o p)
    BY <1>2, <2>2, <2>3, Assoc
  <2> QED  BY <1>4, <2>1, <2>2, <2>4
<1>9. <<>> \in Seq(Nat) /\ (n + 1) + 1 = n + 2
  BY EmptySeq
<1>10. \A i \in 1..((n+1)+1) : q[i] \in Seq(Nat)
  <2> TAKE i \in 1..((n+1)+1)
  <2>1. i = n + 2 \/ i \in 1..(n+1)
    OBVIOUS
  <2> QED  BY <1>4, <1>5, <1>9, <2>1
<1>11. \A i \in 1..(n+1) : q[i] = pack_field(fields[i]) \o q[i+1]
  <2> TAKE i \in 1..(n+1)
  <2>1. i = n + 1 \/ i \in 1..n
    OBVIOUS
  <2> QED  BY <1>7, <1>8, <1>9, <2>1
<1>12. Chain(q, fields, n + 1, data \o p)
  BY <1>4, <1>6, <1>9, <1>10, <1>11 DEF Chain
<1> QED  BY <1>1, <1>12

\* Reading a field leads from one suffix to the next.
LEMMA ChainStep ==
  ASSUME NEW r, NEW fields, NEW n \in Nat, NEW data, Chain(r, fields, n, data),
         NEW i \in 0..(n-1), Packable(fields[i+1])
  PROVE  /\ r[i+1] \in Seq(Nat) /\ r[i+1] # <<>>
         /\ Symmetric(fields[i+1]) =>
              /\ unpack_next(Running(r[i+1], Values(fields, i)))
                   = Running(r[i+2], Values(fields, i + 1))
              /\ unpack_char(IF fields[i+1].kind = "s" THEN "s" ELSE "n",
                             Running(r[i+1], Values(fields, i)))
                   = Running(r[i+2], Values(fields, i + 1))
<1>1. i + 1 \in 1..n /\ i + 1 \in 1..(n+1) /\ i + 2 \in 1..(n+1) /\ (i + 1) + 1 = i + 2 /\ i \in Nat
  OBVIOUS
<1>2. PICK f : f = fields[i+1]
  OBVIOUS
<1>3. r[i+1] = pack_field(f) \o r[i+2]
  BY <1>1, <1>2 DEF Chain
<1>4. r[i+2] \in Seq(Nat) /\ r[i+1] \in Seq(Nat)
  BY <1>1 DEF Chain
<1>5. PICK w : w = pack_field(f)
  OBVIOUS
<1>6. w \in Seq(Nat) /\ Len(w) \in Nat \ {0}
  BY <1>2, <1>5, FieldSeq
<1>7. r[i+1] # <<>>
  <2>1. Len(w \o r[i+2]) = Len(w) + Len(r[i+2]) /\ Len(r[i+2]) \in Nat
    BY <1>4, <1>6, ConcatParts
  <2>2. Len(w \o r[i+2]) # 0
    BY <1>6, <2>1
  <2>3. Len(<<>>) = 0
    OBVIOUS
  <2> QED  BY <1>3, <1>5, <2>2, <2>3
<1>8. Append(Values(fields, i), Value(f)) = Values(fields, i + 1)
  BY <1>1, <1>2, ValuesAppend
<1>9. ASSUME Symmetric(f)
      PROVE  LET p == Running(pack_field(f) \o r[i+2], Values(fields, i))
                 q == Running(r[i+2], Append(Values(fields, i), Value(f)))
             IN unpack_next(p) = q /\ unpack_char(IF f.kind = "s" THEN "s" ELSE "n", p) = q
  BY <1>2, <1>4, <1>9, TakesField
<1> QED  BY <1>2, <1>3, <1>4, <1>7, <1>8, <1>9

-----------------------------------------------------------------------------
(* Jobs.                                                                    *)

Fields(j) == j.what = "fields" /\ j.fields \in FieldLists
Message(j) ==
  /\ j.what = "message" /\ j.body \in Bodies
  /\ \/ j.code \in call_ids /\ j.txid \in {SyncTid, AsyncTid}
     \/ j.code \in xmm7360_unsol /\ j.txid \in CallbackTids
Packet(j) == j.what = "packet" /\ j.packet \in Packets /\ j.seq \in Seqs
Trace(j) == j.what = "stream" /\ j.frames \in BoundedSeq(Frames, MaxFrames) /\ j.lead \in {<<>>, <<9, 9>>}

\* A job is one of these, or the open command, which has no parts.
LEMMA JobIs ==
  ASSUME NEW j \in Jobs
  PROVE  /\ j.what = "fields" => Fields(j)
         /\ j.what = "message" => Message(j)
         /\ j.what = "packet" => Packet(j)
         /\ j.what = "stream" => Trace(j)
<1>1. CASE j \in [what : {"fields"}, fields : FieldLists]
  BY <1>1 DEF Fields
<1>2. CASE j \in [what : {"message"}, code : call_ids, txid : {SyncTid, AsyncTid}, body : Bodies]
  BY <1>2 DEF Message
<1>3. CASE j \in [what : {"message"}, code : xmm7360_unsol, txid : CallbackTids, body : Bodies]
  BY <1>3 DEF Message
<1>4. CASE j \in [what : {"packet"}, packet : Packets, seq : Seqs]
  BY <1>4 DEF Packet
<1>5. CASE j \in [what : {"open"}]
  BY <1>5
<1>6. CASE j \in [what : {"stream"}, frames : BoundedSeq(Frames, MaxFrames), lead : {<<>>, <<9, 9>>}]
  BY <1>6 DEF Trace
<1> QED  BY <1>1, <1>2, <1>3, <1>4, <1>5, <1>6 DEF Jobs

JobInv == job \in Jobs

\* The job stays what it was.
LEMMA JobKept == Spec => []JobInv
<1>1. Init => JobInv
  BY DEF Init, JobInv
<1>2. JobInv /\ [Next]_vars => JobInv'
  BY DEF JobInv, Next, vars, Write, ReadField, ReadMessage, ReadPacket, ReadTrace
<1> QED  BY <1>1, <1>2, PTL DEF Spec

\* What a list of fields is.
LEMMA FieldsShape ==
  ASSUME JobInv, job.what = "fields"
  PROVE  /\ Len(job.fields) \in Nat \ {0}
         /\ \A i \in 1..Len(job.fields) : Packable(job.fields[i])
<1>1. job.fields \in FieldLists
  BY JobIs DEF JobInv, Fields
<1>2. /\ job.fields \in Seq(ToSet(job.fields)) /\ job.fields # <<>>
      /\ \A i \in 1..Len(job.fields) : Packable(job.fields[i])
  BY <1>1, FieldsAssumption
<1> QED  BY <1>2, EmptySeq

-----------------------------------------------------------------------------
(* What is packed is unpacked.                                              *)

\* As far as the fields have been read, both readers stand at the same suffix
\* with the same values.
Reached(r) == Running(r[at+1], Values(job.fields, at))
FieldsInv ==
  job.what = "fields" =>
    /\ sent \in 0..Len(job.fields)
    /\ at \in 0..Len(job.fields)
    /\ sent # Len(job.fields) => at = 0
    /\ \E r :
         /\ Chain(r, job.fields, sent, wire)
         /\ sent = Len(job.fields) /\ (\A i \in 1..at : Symmetric(job.fields[i])) =>
              back.known = Reached(r) /\ back.unknown = Reached(r)

\* Packing a field.
LEMMA WriteFields ==
  ASSUME JobInv, FieldsInv, Write, job.what = "fields"
  PROVE  FieldsInv'
<1>1. PICK n : n = sent
  OBVIOUS
<1>2. /\ job' = job /\ at' = at /\ sent' = n + 1
      /\ wire' = wire \o pack_field(job.fields[sent'])
      /\ n \in 0..Len(job.fields) /\ n # Len(job.fields) /\ at = 0
      /\ Len(job.fields) \in Nat
  BY <1>1, FieldsShape DEF Write, Written, FieldsInv
<1>3. back' = [known |-> Parser(wire'), unknown |-> Parser(wire')]
  BY DEF Write
<1>4. PICK r : Chain(r, job.fields, n, wire)
  BY <1>1 DEF FieldsInv
<1>5. n \in Nat /\ \A i \in 1..(n+1) : Packable(job.fields[i])
  BY <1>2, FieldsShape
<1>6. PICK q : Chain(q, job.fields, n + 1, wire \o pack_field(job.fields[n+1]))
  BY <1>4, <1>5, ChainGrows
<1>7. Chain(q, job.fields, n + 1, wire')
  BY <1>2, <1>6
<1>8. q[1] = wire'
  BY <1>7 DEF Chain
<1>9. Values(job.fields, 0) = <<>>
  BY DEF Values
<1>10. Running(q[0+1], Values(job.fields, 0)) = Parser(wire')
  BY <1>8, <1>9, RunningIs
<1>11. back'.known = Parser(wire') /\ back'.unknown = Parser(wire')
  BY <1>3
<1>12. n + 1 \in 0..Len(job.fields)
  BY <1>2
<1>13. /\ Chain(q, job.fields', sent', wire')
       /\ sent' = Len(job.fields') /\ (\A i \in 1..at' : Symmetric(job.fields'[i])) =>
            /\ back'.known = Running(q[at'+1], Values(job.fields', at'))
            /\ back'.unknown = Running(q[at'+1], Values(job.fields', at'))
  BY <1>2, <1>7, <1>10, <1>11
<1>14. sent' \in 0..Len(job.fields') /\ at' \in 0..Len(job.fields') /\ at' = 0
  BY <1>2, <1>12
<1> QED  BY <1>13, <1>14 DEF FieldsInv, Reached

\* Unpacking one.
LEMMA ReadFields ==
  ASSUME JobInv, FieldsInv, ReadField
  PROVE  FieldsInv'
<1>1. PICK n, len : n = at /\ len = Len(job.fields)
  OBVIOUS
<1>2. /\ job.what = "fields" /\ sent = len /\ n < len
      /\ at' = n + 1 /\ job' = job /\ sent' = sent /\ wire' = wire
  BY <1>1 DEF ReadField, Written
<1>3. n \in 0..(len-1) /\ len \in Nat \ {0} /\ n \in Nat
  BY <1>1, <1>2, FieldsShape DEF FieldsInv
<1>4. PICK f : f = job.fields[n+1]
  OBVIOUS
<1>5. /\ back'.known = unpack_char(IF f.kind = "s" THEN "s" ELSE "n", back.known)
      /\ back'.unknown = unpack_next(back.unknown)
  BY <1>2, <1>4 DEF ReadField
<1>6. PICK r :
        /\ Chain(r, job.fields, len, wire)
        /\ (\A i \in 1..n : Symmetric(job.fields[i])) =>
             /\ back.known = Running(r[n+1], Values(job.fields, n))
             /\ back.unknown = Running(r[n+1], Values(job.fields, n))
  BY <1>1, <1>2 DEF FieldsInv, Reached
<1>7. Packable(job.fields[n+1])
  <2>1. n + 1 \in 1..len
    BY <1>3
  <2> QED  BY <1>1, <1>2, <2>1, FieldsShape
<1>8. ASSUME \A i \in 1..(n+1) : Symmetric(job.fields[i])
      PROVE  /\ back'.known = Running(r[(n+1)+1], Values(job.fields, n + 1))
             /\ back'.unknown = Running(r[(n+1)+1], Values(job.fields, n + 1))
  <2>1. Symmetric(job.fields[n+1]) /\ \A i \in 1..n : Symmetric(job.fields[i])
    BY <1>3, <1>8
  <2>2. /\ unpack_next(Running(r[n+1], Values(job.fields, n))) = Running(r[n+2], Values(job.fields, n + 1))
        /\ unpack_char(IF job.fields[n+1].kind = "s" THEN "s" ELSE "n",
                       Running(r[n+1], Values(job.fields, n)))
             = Running(r[n+2], Values(job.fields, n + 1))
    BY <1>3, <1>6, <1>7, <2>1, ChainStep
  <2>3. (n + 1) + 1 = n + 2
    BY <1>3
  <2> QED  BY <1>4, <1>5, <1>6, <2>1, <2>2, <2>3
<1>9. /\ Chain(r, job.fields', sent', wire')
      /\ sent' = Len(job.fields') /\ (\A i \in 1..at' : Symmetric(job.fields'[i])) =>
           /\ back'.known = Running(r[at'+1], Values(job.fields', at'))
           /\ back'.unknown = Running(r[at'+1], Values(job.fields', at'))
  BY <1>2, <1>6, <1>8
<1>10. sent' \in 0..Len(job.fields') /\ at' \in 0..Len(job.fields') /\ sent' = Len(job.fields')
  BY <1>1, <1>2, <1>3
<1> QED  BY <1>9, <1>10 DEF FieldsInv, Reached

\* The invariant says what RoundTrip says.
LEMMA FieldsInvSuffices ==
  ASSUME JobInv, FieldsInv
  PROVE  RoundTrip
<1> SUFFICES ASSUME job.what = "fields", Written, \A i \in 1..at : Symmetric(job.fields[i])
             PROVE  /\ back.known.ok
                    /\ back.known.out = [i \in 1..at |-> Value(job.fields[i])]
                    /\ back.unknown = back.known
                    /\ (back.known.data = <<>>) = (at = Len(job.fields))
  BY DEF RoundTrip
<1>1. sent = Len(job.fields)
  BY DEF Written
<1>2. PICK r :
        /\ Chain(r, job.fields, sent, wire)
        /\ back.known = Reached(r) /\ back.unknown = Reached(r)
  BY <1>1 DEF FieldsInv
<1>3. /\ back.known.ok /\ back.known.data = r[at+1]
      /\ back.known.out = Values(job.fields, at)
  BY <1>2, RunningIs DEF Reached
<1>4. PICK n, len \in Nat : n = at /\ len = Len(job.fields) /\ n \in 0..len
  BY FieldsShape DEF FieldsInv
<1>5. CASE n = len
  <2>1. r[len+1] = <<>>
    BY <1>1, <1>2, <1>4 DEF Chain
  <2>2. back.known.data = <<>> /\ at = Len(job.fields)
    BY <1>3, <1>4, <1>5, <2>1
  <2> QED  BY <1>2, <1>3, <2>2 DEF Values
<1>6. CASE n # len
  <2>1. n \in 0..(len-1) /\ n + 1 \in 1..len
    BY <1>4, <1>6
  <2>2. Packable(job.fields[n+1])
    BY <1>4, <2>1, FieldsShape
  <2>3. Chain(r, job.fields, len, wire)
    BY <1>1, <1>2, <1>4
  <2>4. r[n+1] # <<>>
    BY <1>4, <2>1, <2>2, <2>3, ChainStep
  <2>5. back.known.data # <<>> /\ at # Len(job.fields)
    BY <1>3, <1>4, <1>6, <2>4
  <2> QED  BY <1>2, <1>3, <2>5 DEF Values
<1> QED  BY <1>5, <1>6

\* Whatever is packed, of whatever length, unpack and unpack_unknown both give
\* back value after value and nothing else, as long as every string's length
\* reads the same in both byte orders.
THEOREM FieldsRoundTrip == Spec => []RoundTrip
<1>1. Init => FieldsInv
  <2> SUFFICES ASSUME Init, job.what = "fields" PROVE FieldsInv
    BY DEF FieldsInv
  <2>1. JobInv
    BY DEF Init, JobInv
  <2>2. Len(job.fields) \in Nat \ {0}
    BY <2>1, FieldsShape
  <2>3. sent = 0 /\ at = 0 /\ wire = <<>>
    BY DEF Init
  <2>4. PICK r : Chain(r, job.fields, 0, <<>>)
    BY ChainStart
  <2> QED  BY <2>2, <2>3, <2>4 DEF FieldsInv
<1>2. JobInv /\ FieldsInv /\ [Next]_vars => FieldsInv'
  <2> SUFFICES ASSUME JobInv, FieldsInv, [Next]_vars PROVE FieldsInv'
    OBVIOUS
  <2>1. CASE Write
    <3>1. CASE job.what = "fields"
      BY <2>1, <3>1, WriteFields
    <3>2. CASE job.what # "fields"
      BY <2>1, <3>2 DEF Write, FieldsInv
    <3> QED  BY <3>1, <3>2
  <2>2. CASE ReadField
    BY <2>2, ReadFields
  <2>3. CASE ReadMessage
    BY <2>3 DEF ReadMessage, Whole, FieldsInv
  <2>4. CASE ReadPacket
    BY <2>4 DEF ReadPacket, Whole, FieldsInv
  <2>5. CASE ReadTrace
    BY <2>5 DEF ReadTrace, FieldsInv
  <2>6. CASE UNCHANGED vars
    BY <2>6 DEF vars, FieldsInv, Reached
  <2> QED  BY <2>1, <2>2, <2>3, <2>4, <2>5, <2>6 DEF Next
<1>3. JobInv /\ FieldsInv => RoundTrip
  BY FieldsInvSuffices
<1> QED  BY JobKept, <1>1, <1>2, <1>3, PTL DEF Spec

-----------------------------------------------------------------------------
(* The body of a message.                                                   *)

\* FlattenSeq concatenates from the left.
Flattens(v, seqs, n) ==
  v = [i \in 1..n |-> IF i = 1 THEN seqs[i] ELSE v[i-1] \o seqs[i]]

\* Such a function exists for every length.
LEMMA FlattensExists ==
  ASSUME NEW seqs, NEW n \in Nat
  PROVE  \E v : Flattens(v, seqs, n)
<1> DEFINE N == {k \in 0..n : \E v : Flattens(v, seqs, k)}
<1>1. 0 \in N
  <2>1. PICK v : v = [i \in 1..0 |-> 0]
    OBVIOUS
  <2>2. v = [i \in 1..0 |-> IF i = 1 THEN seqs[i] ELSE v[i-1] \o seqs[i]]
    BY <2>1
  <2>3. Flattens(v, seqs, 0)
    BY <2>2 DEF Flattens
  <2> QED  BY <2>3
<1>2. \A k \in 0..(n-1) : k \in N => k + 1 \in N
  <2> SUFFICES ASSUME NEW k \in 0..(n-1), k \in N PROVE k + 1 \in N
    OBVIOUS
  <2>1. PICK v : Flattens(v, seqs, k)
    OBVIOUS
  <2>2. \A i \in 1..k : v[i] = IF i = 1 THEN seqs[i] ELSE v[i-1] \o seqs[i]
    BY <2>1 DEF Flattens
  <2>3. PICK w : w = [i \in 1..(k+1) |-> IF i \in 1..k THEN v[i]
                                          ELSE IF i = 1 THEN seqs[i] ELSE v[i-1] \o seqs[i]]
    OBVIOUS
  <2>4. \A i \in 1..(k+1) : w[i] = IF i = 1 THEN seqs[i] ELSE w[i-1] \o seqs[i]
    <3> TAKE i \in 1..(k+1)
    <3>1. CASE i = 1
      BY <2>2, <2>3, <3>1
    <3>2. CASE i # 1
      <4>1. i - 1 \in 1..k /\ i - 1 \in 1..(k+1)
        BY <3>2
      <4>2. w[i-1] = v[i-1]
        BY <2>3, <4>1
      <4>3. w[i] = v[i-1] \o seqs[i]
        BY <2>2, <2>3, <3>2
      <4> QED  BY <3>2, <4>2, <4>3
    <3> QED  BY <3>1, <3>2
  <2>5. w = [i \in 1..(k+1) |-> w[i]]
    BY <2>3
  <2>6. w = [i \in 1..(k+1) |-> IF i = 1 THEN seqs[i] ELSE w[i-1] \o seqs[i]]
    BY <2>4, <2>5
  <2>7. Flattens(w, seqs, k + 1)
    BY <2>6 DEF Flattens
  <2>8. k + 1 \in 0..n
    OBVIOUS
  <2> QED  BY <2>7, <2>8
<1> HIDE DEF N
<1>3. n \in N
  BY <1>1, <1>2, Climb
<1> QED  BY <1>3 DEF N

\* What is packed is a chain of its fields.
LEMMA PackChain ==
  ASSUME NEW fields, NEW n \in Nat, Len(fields) = n,
         \A i \in 1..n : Packable(fields[i])
  PROVE  \E r : Chain(r, fields, n, pack(fields))
<1>1. PICK seqs : seqs = [i \in 1..n |-> pack_field(fields[i])]
  OBVIOUS
<1>2. pack(fields) = FlattenSeq(seqs) /\ Len(seqs) = n
  BY <1>1 DEF pack
<1>3. CASE n = 0
  <2>1. pack(fields) = <<>>
    BY <1>1, <1>2, <1>3 DEF FlattenSeq
  <2> QED  BY <1>3, <2>1, ChainStart
<1>4. CASE n # 0
  <2> DEFINE v == CHOOSE u : Flattens(u, seqs, n)
             P(k) == IF k = 0 THEN <<>> ELSE v[k]
             N == {k \in 0..n : \E r : Chain(r, fields, k, P(k))}
  <2>1. Flattens(v, seqs, n)
    BY FlattensExists
  <2>2. pack(fields) = v[n]
    <3>1. v = CHOOSE u : u = [i \in 1..Len(seqs) |-> IF i = 1 THEN seqs[i] ELSE u[i-1] \o seqs[i]]
      BY <1>2 DEF Flattens
    <3>2. ~(Len(seqs) = 0)
      BY <1>2, <1>4
    <3>3. FlattenSeq(seqs) = v[Len(seqs)]
      BY <3>1, <3>2, Zenon DEF FlattenSeq
    <3> QED  BY <1>2, <3>3
  <2> HIDE DEF v
  <2>3. \A i \in 1..n : v[i] = IF i = 1 THEN seqs[i] ELSE v[i-1] \o seqs[i]
    BY <2>1 DEF Flattens
  <2>4. 0 \in N
    BY ChainStart
  <2>5. \A k \in 0..(n-1) : k \in N => k + 1 \in N
    <3> SUFFICES ASSUME NEW k \in 0..(n-1), k \in N PROVE k + 1 \in N
      OBVIOUS
    <3>1. PICK r : Chain(r, fields, k, P(k))
      OBVIOUS
    <3>2. k \in Nat /\ k + 1 \in 1..n /\ k + 1 # 0 /\ (k + 1) - 1 = k
      OBVIOUS
    <3>3. \A i \in 1..(k+1) : Packable(fields[i])
      BY <3>2
    <3>4. PICK q : Chain(q, fields, k + 1, P(k) \o pack_field(fields[k+1]))
      BY <3>1, <3>2, <3>3, ChainGrows
    <3>5. seqs[k+1] = pack_field(fields[k+1])
      BY <1>1, <3>2
    <3>6. P(k + 1) = P(k) \o pack_field(fields[k+1])
      <4>1. CASE k = 0
        <5>1. Packable(fields[k+1])
          BY <3>2
        <5>2. pack_field(fields[k+1]) \in Seq(Nat)
          BY <5>1, FieldSeq
        <5>3. <<>> \o pack_field(fields[k+1]) = pack_field(fields[k+1])
          BY <5>2, ConcatEmptySeq
        <5>4. P(k + 1) = seqs[k+1]
          BY <2>3, <3>2, <4>1
        <5> QED  BY <3>5, <4>1, <5>3, <5>4
      <4>2. CASE k # 0
        <5>1. k + 1 # 1
          BY <4>2
        <5>2. v[k+1] = v[k] \o seqs[k+1]
          BY <2>3, <3>2, <5>1
        <5> QED  BY <3>2, <3>5, <4>2, <5>2
      <4> QED  BY <4>1, <4>2
    <3> HIDE DEF P
    <3>7. k + 1 \in 0..n
      OBVIOUS
    <3> QED  BY <3>4, <3>6, <3>7
  <2> HIDE DEF N
  <2>6. \A k \in 0..n : k \in N
    BY <2>4, <2>5, Climb
  <2>8. n \in N
    BY <2>6
  <2>7. P(n) = v[n]
    BY <1>4
  <2> QED  BY <2>2, <2>7, <2>8 DEF N
<1> QED  BY <1>3, <1>4

\* A chain has at least a byte for each field.
LEMMA ChainLong ==
  ASSUME NEW r, NEW fields, NEW n \in Nat, NEW data, Chain(r, fields, n, data),
         \A i \in 1..n : Packable(fields[i])
  PROVE  data \in Seq(Nat) /\ Len(data) \in Nat /\ n <= Len(data)
<1> DEFINE N == {k \in 0..n : Len(r[k+1]) + k <= Len(data)}
<1>1. \A i \in 1..(n+1) : r[i] \in Seq(Nat) /\ Len(r[i]) \in Nat
  <2>1. \A i \in 1..(n+1) : r[i] \in Seq(Nat)
    BY DEF Chain
  <2> QED  BY <2>1
<1>2. r[1] = data /\ 1 \in 1..(n+1)
  BY DEF Chain
<1>3. data \in Seq(Nat) /\ Len(data) \in Nat
  BY <1>1, <1>2
<1>4. 0 \in N
  <2>1. 0 + 1 = 1 /\ Len(data) + 0 <= Len(data) /\ 0 \in 0..n
    BY <1>3
  <2> QED  BY <1>2, <2>1
<1>5. \A k \in 0..(n-1) : k \in N => k + 1 \in N
  <2> SUFFICES ASSUME NEW k \in 0..(n-1), k \in N PROVE k + 1 \in N
    OBVIOUS
  <2>1. k + 1 \in 1..n /\ k + 1 \in 1..(n+1) /\ k + 2 \in 1..(n+1) /\ (k + 1) + 1 = k + 2
    OBVIOUS
  <2>2. PICK w : w = pack_field(fields[k+1])
    OBVIOUS
  <2>3. w \in Seq(Nat) /\ Len(w) \in Nat \ {0}
    <3>1. Packable(fields[k+1])
      BY <2>1
    <3> QED  BY <2>2, <3>1, FieldSeq
  <2>4. r[k+1] = w \o r[k+2]
    BY <2>1, <2>2 DEF Chain
  <2>5. r[k+2] \in Seq(Nat) /\ Len(r[k+2]) \in Nat /\ Len(r[k+1]) \in Nat
    BY <1>1, <2>1
  <2>6. Len(r[k+1]) = Len(w) + Len(r[k+2])
    BY <2>3, <2>4, <2>5, ConcatParts
  <2>7. Len(r[k+1]) + k <= Len(data)
    OBVIOUS
  <2>8. PICK a \in Nat \ {0}, b \in Nat, c \in Nat : a = Len(w) /\ b = Len(r[k+2]) /\ c = Len(data)
    BY <1>3, <2>3, <2>5
  <2>9. b + (k + 1) <= c
    <3>1. Len(r[k+1]) = a + b
      BY <2>6, <2>8
    <3>2. (a + b) + k <= c
      BY <2>7, <2>8, <3>1
    <3>3. \A x \in Nat \ {0}, y \in Nat, z \in Nat : (x + y) + k <= z => y + (k + 1) <= z
      OBVIOUS
    <3> QED  BY <3>2, <3>3
  <2>10. k + 1 \in 0..n
    OBVIOUS
  <2> QED  BY <2>1, <2>8, <2>9, <2>10
<1>6. \A k \in 0..n : k \in N
  <2> HIDE DEF N
  <2> QED  BY <1>4, <1>5, Climb
<1>7. Len(r[n+1]) + n <= Len(data)
  BY <1>6
<1>8. n + 1 \in 1..(n+1)
  OBVIOUS
<1>9. Len(r[n+1]) \in Nat
  BY <1>1, <1>8
<1> QED  BY <1>3, <1>7, <1>9

\* unpack_unknown walks along a chain to its end.
LEMMA UnpackChain ==
  ASSUME NEW r, NEW fields, NEW n \in Nat, NEW data, Chain(r, fields, n, data),
         \A i \in 1..n : Packable(fields[i]),
         \A i \in 1..n : Symmetric(fields[i])
  PROVE  unpack_unknown(data) = Running(<<>>, Values(fields, n))
<1>1. PICK len \in Nat : len = Len(data) /\ n <= len
  BY ChainLong
<1> DEFINE last == Running(<<>>, Values(fields, n))
           W(k) == IF k <= n THEN Running(r[k+1], Values(fields, k)) ELSE last
           v == CHOOSE f : f = [k \in 0..Len(data) |->
                                  IF k = 0 THEN Parser(data) ELSE unpack_while(f[k-1])]
           w == [k \in 0..len |-> W(k)]
<1>2. r[1] = data /\ r[n+1] = <<>>
  BY DEF Chain
<1>3. W(0) = Parser(data)
  <2>1. Values(fields, 0) = <<>>
    BY DEF Values
  <2>2. 0 <= n /\ 0 + 1 = 1
    OBVIOUS
  <2> QED  BY <1>2, <2>1, <2>2, RunningIs
<1>4. \A k \in 1..len : W(k) = unpack_while(W(k - 1))
  <2> TAKE k \in 1..len
  <2>1. CASE k <= n
    <3>1. k - 1 \in 0..(n-1) /\ k - 1 <= n /\ (k - 1) + 1 = k /\ (k - 1) + 2 = k + 1 /\ k \in 1..n
      BY <2>1
    <3>2. Packable(fields[k]) /\ Symmetric(fields[k])
      BY <3>1
    <3>3. PICK i \in 0..(n-1) : i = k - 1
      BY <3>1
    <3>4. i + 1 = k /\ i + 2 = k + 1 /\ i <= n
      BY <3>1, <3>3
    <3>5. /\ r[i+1] # <<>>
          /\ unpack_next(Running(r[i+1], Values(fields, i))) = Running(r[i+2], Values(fields, i + 1))
      BY <3>2, <3>4, ChainStep
    <3>6. unpack_while(Running(r[i+1], Values(fields, i))) = unpack_next(Running(r[i+1], Values(fields, i)))
      BY <3>5, RunningIs DEF unpack_while
    <3>7. W(k - 1) = Running(r[i+1], Values(fields, i))
      BY <3>3, <3>4
    <3>8. W(k) = Running(r[i+2], Values(fields, i + 1))
      BY <2>1, <3>4
    <3> QED  BY <3>5, <3>6, <3>7, <3>8
  <2>2. CASE ~(k <= n)
    <3>1. W(k) = last
      BY <2>2
    <3>2. W(k - 1) = last
      <4>1. CASE k - 1 = n
        <5>1. n <= n
          OBVIOUS
        <5>2. W(n) = Running(r[n+1], Values(fields, n))
          BY <5>1
        <5> QED  BY <1>2, <4>1, <5>2
      <4>2. CASE k - 1 # n
        <5>1. ~(k - 1 <= n)
          BY <2>2, <4>2
        <5> QED  BY <5>1
      <4> QED  BY <4>1, <4>2
    <3>3. unpack_while(last) = last
      BY RunningIs DEF unpack_while
    <3> QED  BY <3>1, <3>2, <3>3
  <2> QED  BY <2>1, <2>2
<1>10. W(len) = last
  <2>1. CASE len = n
    <3>1. W(n) = Running(r[n+1], Values(fields, n))
      OBVIOUS
    <3> QED  BY <1>2, <2>1, <3>1
  <2>2. CASE len # n
    <3>1. ~(len <= n)
      BY <1>1, <2>2
    <3> QED  BY <3>1
  <2> QED  BY <2>1, <2>2
<1> HIDE DEF last, W
<1>5. w = [k \in 0..Len(data) |-> IF k = 0 THEN Parser(data) ELSE unpack_while(w[k-1])]
  <2>1. \A k \in 0..len : w[k] = IF k = 0 THEN Parser(data) ELSE unpack_while(w[k-1])
    <3> TAKE k \in 0..len
    <3>1. CASE k = 0
      BY <1>3, <3>1
    <3>2. CASE k # 0
      <4>1. k \in 1..len /\ k - 1 \in 0..len
        BY <3>2
      <4>2. w[k] = W(k) /\ w[k-1] = W(k - 1)
        BY <4>1
      <4> QED  BY <1>4, <3>2, <4>1, <4>2
    <3> QED  BY <3>1, <3>2
  <2>2. w = [k \in 0..len |-> w[k]]
    OBVIOUS
  <2> HIDE DEF w
  <2> QED  BY <1>1, <2>1, <2>2
<1>6. v = [k \in 0..Len(data) |-> IF k = 0 THEN Parser(data) ELSE unpack_while(v[k-1])]
  <2> HIDE DEF w
  <2> QED  BY <1>5
<1>7. unpack_unknown(data) = v[Len(data)]
  BY Zenon DEF unpack_unknown
<1> HIDE DEF v
<1>8. \A k \in 0..len : v[k] = IF k = 0 THEN Parser(data) ELSE unpack_while(v[k-1])
  BY <1>1, <1>6
<1> DEFINE N == {k \in 0..len : v[k] = W(k)}
<1>9. \A k \in 0..len : k \in N
  <2>1. 0 \in N
    BY <1>3, <1>8
  <2>2. \A k \in 0..(len-1) : k \in N => k + 1 \in N
    <3> SUFFICES ASSUME NEW k \in 0..(len-1), k \in N PROVE k + 1 \in N
      OBVIOUS
    <3>1. k + 1 \in 1..len /\ k + 1 \in 0..len /\ k + 1 # 0 /\ (k + 1) - 1 = k
      OBVIOUS
    <3>2. v[k+1] = unpack_while(v[k]) /\ W(k + 1) = unpack_while(W(k))
      BY <1>4, <1>8, <3>1
    <3> QED  BY <3>1, <3>2
  <2> HIDE DEF N
  <2> QED  BY <2>1, <2>2, Climb
<1>11. len \in 0..len
  OBVIOUS
<1>12. v[len] = W(len)
  BY <1>9, <1>11
<1> QED  BY <1>1, <1>7, <1>10, <1>12 DEF last

-----------------------------------------------------------------------------
(* The frame of a message.                                                  *)

\* A piece of the first part of a concatenation.
LEMMA PieceBefore ==
  ASSUME NEW a \in Seq(Nat), NEW b \in Seq(Nat),
         NEW m \in Nat \ {0}, NEW n \in Nat, n <= Len(a)
  PROVE  SubSeq(a \o b, m, n) = SubSeq(a, m, n)
<1>1. PICK c : c = a \o b
  OBVIOUS
<1>2. /\ c \in Seq(Nat) /\ Len(c) = Len(a) + Len(b) /\ Len(a) \in Nat /\ Len(b) \in Nat
      /\ \A i \in 1..Len(a) : c[i] = a[i]
  BY <1>1, ConcatParts
<1>3. PICK s, t : s = SubSeq(c, m, n) /\ t = SubSeq(a, m, n)
  OBVIOUS
<1>4. n <= Len(c)
  <2>1. PICK la \in Nat, lb \in Nat : la = Len(a) /\ lb = Len(b)
    BY <1>2
  <2>2. n <= la + lb
    BY <2>1
  <2> QED  BY <1>2, <2>1, <2>2
<1>5. /\ s \in Seq(Nat) /\ Len(s) = IF m <= n THEN n - m + 1 ELSE 0
      /\ \A i \in 1..(n - m + 1) : s[i] = c[m + i - 1]
  <2>1. IsPiece(s, c, m, n)
    BY <1>2, <1>3, <1>4, Piece
  <2> QED  BY <1>2, <1>3, <1>4, <2>1 DEF IsPiece
<1>6. /\ t \in Seq(Nat) /\ Len(t) = IF m <= n THEN n - m + 1 ELSE 0
      /\ \A i \in 1..(n - m + 1) : t[i] = a[m + i - 1]
  <2>1. IsPiece(t, a, m, n)
    BY <1>3, Piece
  <2> QED  BY <1>3, <2>1 DEF IsPiece
<1>7. \A i \in 1..Len(s) : s[i] = t[i]
  <2> TAKE i \in 1..Len(s)
  <2>1. i \in 1..(n - m + 1) /\ m + i - 1 \in 1..n
    BY <1>5
  <2>2. m + i - 1 \in 1..Len(a)
    BY <1>2, <2>1
  <2> QED  BY <1>2, <1>5, <1>6, <2>1, <2>2
<1>8. s = t
  BY <1>5, <1>6, <1>7, SeqEqual
<1> QED  BY <1>1, <1>3, <1>8

\* The parts of a frame are found where handle_message looks for them.
IsFrame(w, total, code, tid, body) ==
  /\ w \in Seq(Nat) /\ Len(w) = Len(body) + 20
  /\ SubSeq(w, 1, 4) = LittleEndian(total, 4)
  /\ SubSeq(w, 5, 10) = asn_int(total, 4)
  /\ SubSeq(w, 7, 10) = BigEndian(total, 4)
  /\ SubSeq(w, 11, 16) = asn_int(code, 4)
  /\ SubSeq(w, 17, 20) = BigEndian(tid, 4)
  /\ SubSeq(w, 21, Len(w)) = body

\* The parts of a framed message are where handle_message looks for them.
LEMMA FrameIs ==
  ASSUME NEW total \in Nat, NEW code \in Nat, NEW tid \in Nat, NEW body, body \in Seq(Nat)
  PROVE  IsFrame(Framed(total, code, tid, body), total, code, tid, body)
<1>0. 4 \in 1..4 /\ 2 + 4 = 6
  OBVIOUS
<1>1. PICK a : a = LittleEndian(total, 4)
  OBVIOUS
<1>2. a \in Seq(Nat) /\ Len(a) = 4
  <2>1. BigEndian(total, 4) \in Seq(Nat) /\ Len(BigEndian(total, 4)) = 4
    BY <1>0, BigEndianSeq
  <2> QED  BY <1>1, <2>1, ReverseTwice DEF LittleEndian
<1>3. PICK b : b = asn_int(total, 4)
  OBVIOUS
<1>4. b \in Seq(Nat) /\ Len(b) = 6 /\ SubSeq(b, 3, 6) = BigEndian(total, 4)
  BY <1>0, <1>3, IntOnWire
<1>5. PICK c : c = asn_int(code, 4)
  OBVIOUS
<1>6. c \in Seq(Nat) /\ Len(c) = 6
  BY <1>0, <1>5, IntOnWire
<1>7. PICK d : d = BigEndian(tid, 4)
  OBVIOUS
<1>8. d \in Seq(Nat) /\ Len(d) = 4
  BY <1>0, <1>7, BigEndianSeq
<1>9. PICK x2 : x2 = a \o b
  OBVIOUS
<1>10. x2 \in Seq(Nat) /\ Len(x2) = 10 /\ SubSeq(x2, 1, 4) = a /\ SubSeq(x2, 5, 10) = b
  <2>1. /\ a \o b \in Seq(Nat) /\ Len(a \o b) = Len(a) + Len(b)
        /\ SubSeq(a \o b, 1, Len(a)) = a
        /\ SubSeq(a \o b, Len(a) + 1, Len(a) + Len(b)) = b
    BY <1>2, <1>4, ConcatParts
  <2>2. Len(a) + 1 = 5 /\ Len(a) + Len(b) = 10
    BY <1>2, <1>4
  <2> QED  BY <1>2, <1>9, <2>1, <2>2
<1>11. SubSeq(x2, 7, 10) = BigEndian(total, 4)
  <2>1. 3 \in Nat \ {0} /\ 6 \in Nat /\ 6 <= Len(b)
    BY <1>4
  <2>2. SubSeq(a \o b, Len(a) + 3, Len(a) + 6) = SubSeq(b, 3, 6)
    BY <1>2, <1>4, <2>1, PieceBehind
  <2>3. Len(a) + 3 = 7 /\ Len(a) + 6 = 10
    BY <1>2
  <2> QED  BY <1>4, <1>9, <2>2, <2>3
<1>12. PICK x3 : x3 = x2 \o c
  OBVIOUS
<1>13. x3 \in Seq(Nat) /\ Len(x3) = 16 /\ SubSeq(x3, 11, 16) = c
  <2>1. /\ x2 \o c \in Seq(Nat) /\ Len(x2 \o c) = Len(x2) + Len(c)
        /\ SubSeq(x2 \o c, Len(x2) + 1, Len(x2) + Len(c)) = c
    BY <1>6, <1>10, ConcatParts
  <2>2. Len(x2) + 1 = 11 /\ Len(x2) + Len(c) = 16
    BY <1>6, <1>10
  <2> QED  BY <1>12, <2>1, <2>2
<1>14. PICK x4 : x4 = x3 \o d
  OBVIOUS
<1>15. x4 \in Seq(Nat) /\ Len(x4) = 20 /\ SubSeq(x4, 17, 20) = d
  <2>1. /\ x3 \o d \in Seq(Nat) /\ Len(x3 \o d) = Len(x3) + Len(d)
        /\ SubSeq(x3 \o d, Len(x3) + 1, Len(x3) + Len(d)) = d
    BY <1>8, <1>13, ConcatParts
  <2>2. Len(x3) + 1 = 17 /\ Len(x3) + Len(d) = 20
    BY <1>8, <1>13
  <2> QED  BY <1>14, <2>1, <2>2
<1>16. PICK w : w = x4 \o body
  OBVIOUS
<1>17. PICK lb \in Nat : lb = Len(body)
  OBVIOUS
<1>18. w \in Seq(Nat) /\ Len(w) = lb + 20 /\ SubSeq(w, 21, Len(w)) = body
  <2>1. /\ x4 \o body \in Seq(Nat) /\ Len(x4 \o body) = Len(x4) + Len(body)
        /\ SubSeq(x4 \o body, Len(x4) + 1, Len(x4) + Len(body)) = body
    BY <1>15, ConcatParts
  <2>2. Len(x4) + 1 = 21 /\ Len(x4) + Len(body) = lb + 20
    BY <1>15, <1>17
  <2> QED  BY <1>16, <2>1, <2>2
<1>19. \A m \in 1..20, n \in 1..20 : SubSeq(w, m, n) = SubSeq(x4, m, n)
  <2> TAKE m \in 1..20, n \in 1..20
  <2>1. m \in Nat \ {0} /\ n \in Nat /\ n <= Len(x4)
    BY <1>15
  <2> QED  BY <1>15, <1>16, <2>1, PieceBefore
<1>20. \A m \in 1..16, n \in 1..16 : SubSeq(x4, m, n) = SubSeq(x3, m, n)
  <2> TAKE m \in 1..16, n \in 1..16
  <2>1. m \in Nat \ {0} /\ n \in Nat /\ n <= Len(x3)
    BY <1>13
  <2> QED  BY <1>8, <1>13, <1>14, <2>1, PieceBefore
<1>21. \A m \in 1..10, n \in 1..10 : SubSeq(x3, m, n) = SubSeq(x2, m, n)
  <2> TAKE m \in 1..10, n \in 1..10
  <2>1. m \in Nat \ {0} /\ n \in Nat /\ n <= Len(x2)
    BY <1>10
  <2> QED  BY <1>6, <1>10, <1>12, <2>1, PieceBefore
<1>22. /\ SubSeq(w, 17, 20) = SubSeq(x4, 17, 20)
       /\ SubSeq(w, 11, 16) = SubSeq(x3, 11, 16)
       /\ SubSeq(w, 1, 4) = SubSeq(x2, 1, 4)
       /\ SubSeq(w, 5, 10) = SubSeq(x2, 5, 10)
       /\ SubSeq(w, 7, 10) = SubSeq(x2, 7, 10)
  <2>1. /\ 1 \in 1..10 /\ 4 \in 1..10 /\ 5 \in 1..10 /\ 7 \in 1..10 /\ 10 \in 1..10
        /\ 11 \in 1..16 /\ 16 \in 1..16 /\ 17 \in 1..20 /\ 20 \in 1..20
    OBVIOUS
  <2>2. \A m \in 1..16 : m \in 1..20
    OBVIOUS
  <2>3. \A m \in 1..10 : m \in 1..16 /\ m \in 1..20
    OBVIOUS
  <2>4. \A m \in 1..16, n \in 1..16 : SubSeq(w, m, n) = SubSeq(x3, m, n)
    BY <1>19, <1>20, <2>2, Zenon
  <2>5. \A m \in 1..10, n \in 1..10 : SubSeq(w, m, n) = SubSeq(x2, m, n)
    BY <1>21, <2>3, <2>4, Zenon
  <2> QED  BY <1>19, <2>1, <2>4, <2>5, Zenon
<1>23. /\ SubSeq(w, 1, 4) = a /\ SubSeq(w, 5, 10) = b /\ SubSeq(w, 7, 10) = BigEndian(total, 4)
       /\ SubSeq(w, 11, 16) = c /\ SubSeq(w, 17, 20) = d
  BY <1>10, <1>11, <1>13, <1>15, <1>22
<1>24. Framed(total, code, tid, body) = (((a \o b) \o c) \o d) \o body
  BY <1>1, <1>3, <1>5, <1>7, Zenon DEF Framed, asn_int4
<1>25. Framed(total, code, tid, body) = w
  BY <1>9, <1>12, <1>14, <1>16, <1>24
<1> QED  BY <1>1, <1>3, <1>5, <1>7, <1>17, <1>18, <1>23, <1>25 DEF IsFrame

\* A code or a length of four bytes as handle_message takes it.
LEMMA Int4Is ==
  ASSUME NEW n \in Nat
  PROVE  /\ IsInt4(asn_int(n, 4))
         /\ SubSeq(asn_int(n, 4), 3, 6) = BigEndian(n, 4)
         /\ Fits(n, 4) => FromBigEndian(BigEndian(n, 4)) = n
<1>0. 4 \in 1..4 /\ 2 + 4 = 6
  OBVIOUS
<1>1. PICK a : a = asn_int(n, 4)
  OBVIOUS
<1>2. a \in Seq(Nat) /\ Len(a) = 6 /\ a[1] = 2 /\ a[2] = 4 /\ SubSeq(a, 3, 6) = BigEndian(n, 4)
  BY <1>0, <1>1, IntOnWire
<1>3. PICK h : h = <<2, 4>>
  OBVIOUS
<1>4. h \in Seq(Nat) /\ Len(h) = 2 /\ h[1] = 2 /\ h[2] = 4
  BY <1>3
<1>5. SubSeq(h, 1, 2) = SubSeq(a, 1, 2)
  <2>1. PICK s, t : s = SubSeq(h, 1, 2) /\ t = SubSeq(a, 1, 2)
    OBVIOUS
  <2>2. 1 \in Nat \ {0} /\ 2 \in Nat /\ 2 <= Len(h) /\ 2 <= Len(a) /\ 1 <= 2 /\ (2 - 1) + 1 = 2
    BY <1>2, <1>4
  <2>3. s \in Seq(Nat) /\ Len(s) = 2 /\ \A i \in 1..2 : s[i] = h[1 + i - 1]
    <3>1. IsPiece(s, h, 1, 2)
      BY <1>4, <2>1, <2>2, Piece
    <3> QED  BY <1>4, <2>1, <2>2, <3>1 DEF IsPiece
  <2>4. t \in Seq(Nat) /\ Len(t) = 2 /\ \A i \in 1..2 : t[i] = a[1 + i - 1]
    <3>1. IsPiece(t, a, 1, 2)
      BY <1>2, <2>1, <2>2, Piece
    <3> QED  BY <1>2, <2>1, <2>2, <3>1 DEF IsPiece
  <2>5. \A i \in 1..2 : s[i] = t[i]
    <3>1. \A i \in 1..2 : h[1 + i - 1] = a[1 + i - 1]
      BY <1>2, <1>4
    <3> QED  BY <2>3, <2>4, <3>1
  <2> QED  BY <2>1, <2>3, <2>4, <2>5, SeqEqual
<1>6. IsInt4(a)
  BY <1>2, <1>3, <1>4, <1>5 DEF IsInt4, IsPrefix
<1> QED  BY <1>0, <1>1, <1>2, <1>6, IntReads

\* What fits a word.
LEMMA WordFits == \A n \in Nat : n < K4 => Fits(n, 4)
<1> TAKE n \in Nat
<1>1. n < K4 => n \div K3 < 256
  BY DEF K3, K4
<1>2. 4 - 1 = 3
  OBVIOUS
<1> QED  BY <1>1, <1>2, Powers DEF Fits

\* Codes are small, and none is that of both a call and a callback.
LEMMA Codes ==
  /\ \A c \in call_ids : c \in Nat /\ c < AckCode /\ Fits(c, 4) /\ c \notin xmm7360_unsol
  /\ \A c \in xmm7360_unsol : c \in Nat /\ Fits(c, 4) /\ c \notin call_ids
<1>1. \A c \in call_ids : c \in 1..500
  BY DEF call_ids
<1>2. \A c \in xmm7360_unsol : c \in 1..500
  BY DEF xmm7360_unsol
<1>3. \A c \in call_ids : c \notin xmm7360_unsol
  BY SMTT(30) DEF call_ids, xmm7360_unsol
<1>4. \A c \in 1..500 : c \in Nat /\ c < AckCode /\ c < K4
  BY DEF AckCode, K4
<1>5. \A c \in 1..500 : Fits(c, 4)
  BY <1>4, WordFits
<1> QED  BY <1>1, <1>2, <1>3, <1>4, <1>5

\* The transaction words of requests.
LEMMA TidsAre ==
  /\ SyncTid \in Nat /\ AsyncTid \in Nat /\ SyncTid # AsyncTid
  /\ Fits(SyncTid, 4) /\ Fits(AsyncTid, 4)
  /\ AsyncTid - (AsyncTid % 256) = SyncTid
  /\ SyncTid - (SyncTid % 256) = SyncTid
<1>1. SyncTid < K4 /\ AsyncTid < K4 /\ SyncTid \in Nat /\ AsyncTid \in Nat
  BY DEF SyncTid, AsyncTid, K4
<1>2. SyncTid # AsyncTid
  BY DEF SyncTid, AsyncTid
<1>3. AsyncTid - (AsyncTid % 256) = SyncTid /\ SyncTid - (SyncTid % 256) = SyncTid
  BY DEF SyncTid, AsyncTid
<1> QED  BY <1>1, <1>2, <1>3, WordFits

\* The type of a message.
LEMMA Types ==
  /\ \A code : TypeOf(SyncTid, code) = "response"
  /\ \A code \in call_ids : TypeOf(AsyncTid, code) = "response"
  /\ \A code : \A tid \in CallbackTids :
       tid # SyncTid /\ Fits(tid, 4) /\ tid \in Nat /\ tid # AsyncTid /\ TypeOf(tid, code) = "unsolicited"
<1>1. \A code : TypeOf(SyncTid, code) = "response"
  BY DEF TypeOf
<1>2. ASSUME NEW code \in call_ids
      PROVE  TypeOf(AsyncTid, code) = "response"
  <2>1. ~(code >= AckCode)
    BY Codes DEF AckCode
  <2> QED  BY <2>1, TidsAre DEF TypeOf
<1>3. ASSUME NEW code, NEW tid \in CallbackTids
      PROVE  /\ tid # SyncTid /\ Fits(tid, 4) /\ tid \in Nat /\ tid # AsyncTid
             /\ TypeOf(tid, code) = "unsolicited"
  <2>1. Fits(tid, 4) /\ tid - (tid % 256) # SyncTid
    BY TidsAssumption
  <2>2. tid # SyncTid /\ tid # AsyncTid
    BY <2>1, TidsAre
  <2>3. tid \in Nat
    BY <2>1 DEF Fits
  <2> QED  BY <2>1, <2>2, <2>3 DEF TypeOf
<1> QED  BY <1>1, <1>2, <1>3

\* What handle_message looks at.
CodeOf(w) == FromBigEndian(SubSeq(SubSeq(w, 11, 16), 3, 6))
TidOf(w) == FromBigEndian(SubSeq(w, 17, 20))
BodyOf(w) == SubSeq(w, 21, Len(w))
Repeats(w) == TypeOf(TidOf(w), CodeOf(w)) = "response" /\ TidOf(w) # SyncTid
Accepts(w) ==
  /\ IsInt4(SubSeq(w, 5, 10)) /\ IsInt4(SubSeq(w, 11, 16)) /\ unpack_unknown(BodyOf(w)).ok
  /\ Repeats(w) => /\ unpack_unknown(BodyOf(w)).out # <<>>
                   /\ unpack_unknown(BodyOf(w)).out[1] = TidOf(w)
FramedWell(w) ==
  FromBigEndian(Reverse(SubSeq(w, 1, 4))) = FromBigEndian(SubSeq(w, 7, 10))
Reading(ok, type, tid, code, framed, body, content) ==
  [ok |-> ok, type |-> type, tid |-> tid, code |-> code,
   framed |-> framed, body |-> body, content |-> content]

\* What it makes of a message, part by part.
LEMMA HandleIs ==
  ASSUME NEW w
  PROVE  LET h == handle_message(w)
         IN /\ h.ok = Accepts(w) /\ h.framed = FramedWell(w)
            /\ h.tid = TidOf(w) /\ h.code = CodeOf(w)
            /\ h.type = TypeOf(TidOf(w), CodeOf(w))
            /\ Repeats(w) => /\ h.body = SubSeq(BodyOf(w), 7, Len(BodyOf(w)))
                             /\ h.content = Tail(unpack_unknown(BodyOf(w)).out)
            /\ ~Repeats(w) => /\ h.body = BodyOf(w)
                              /\ h.content = unpack_unknown(BodyOf(w)).out
<1> DEFINE body == IF Repeats(w) THEN SubSeq(BodyOf(w), 7, Len(BodyOf(w))) ELSE BodyOf(w)
           content == IF Repeats(w) THEN Tail(unpack_unknown(BodyOf(w)).out)
                      ELSE unpack_unknown(BodyOf(w)).out
<1>1. handle_message(w) = Reading(Accepts(w), TypeOf(TidOf(w), CodeOf(w)), TidOf(w), CodeOf(w),
                                  FramedWell(w), body, content)
  BY Zenon DEF handle_message, Reading, Accepts, FramedWell, Repeats, TidOf, CodeOf, BodyOf
<1>2. \A ok, type, tid, code, framed, b, c :
        LET h == Reading(ok, type, tid, code, framed, b, c)
        IN /\ h.ok = ok /\ h.framed = framed /\ h.tid = tid /\ h.code = code /\ h.type = type
           /\ h.body = b /\ h.content = c
  BY DEF Reading
<1> HIDE DEF body, content
<1>3. /\ handle_message(w).ok = Accepts(w) /\ handle_message(w).framed = FramedWell(w)
      /\ handle_message(w).tid = TidOf(w) /\ handle_message(w).code = CodeOf(w)
      /\ handle_message(w).type = TypeOf(TidOf(w), CodeOf(w))
      /\ handle_message(w).body = body /\ handle_message(w).content = content
  <2>1. \A h : h = Reading(Accepts(w), TypeOf(TidOf(w), CodeOf(w)), TidOf(w), CodeOf(w),
                          FramedWell(w), body, content) =>
          /\ h.ok = Accepts(w) /\ h.framed = FramedWell(w) /\ h.tid = TidOf(w)
          /\ h.code = CodeOf(w) /\ h.type = TypeOf(TidOf(w), CodeOf(w))
          /\ h.body = body /\ h.content = content
    BY <1>2
  <2> QED  BY <1>1, <2>1, Zenon
<1> QED  BY <1>3, Zenon DEF body, content

\* The shape of a frame with a body of a given chain.
LEMMA FrameReads ==
  ASSUME NEW w, NEW total \in Nat, NEW code, NEW tid, NEW body, Fits(code, 4), Fits(tid, 4),
         IsFrame(w, total, code, tid, body)
  PROVE  /\ FramedWell(w) /\ CodeOf(w) = code /\ TidOf(w) = tid /\ BodyOf(w) = body
         /\ Accepts(w) = /\ unpack_unknown(body).ok
                         /\ Repeats(w) => /\ unpack_unknown(body).out # <<>>
                                          /\ unpack_unknown(body).out[1] = tid
<1>0. code \in Nat /\ tid \in Nat /\ 4 \in 1..4
  BY DEF Fits
<1>1. BodyOf(w) = body
  BY DEF BodyOf, IsFrame
<1>2. TidOf(w) = tid
  BY <1>0, Int4Is DEF TidOf, IsFrame
<1>3. CodeOf(w) = code
  <2>1. SubSeq(w, 11, 16) = asn_int(code, 4)
    BY DEF IsFrame
  <2>2. SubSeq(asn_int(code, 4), 3, 6) = BigEndian(code, 4) /\ FromBigEndian(BigEndian(code, 4)) = code
    BY <1>0, Int4Is
  <2> QED  BY <2>1, <2>2 DEF CodeOf
<1>4. FramedWell(w)
  <2>1. SubSeq(w, 1, 4) = Reverse(BigEndian(total, 4)) /\ SubSeq(w, 7, 10) = BigEndian(total, 4)
    BY DEF IsFrame, LittleEndian
  <2>2. BigEndian(total, 4) \in Seq(Nat)
    BY <1>0, BigEndianSeq
  <2>3. Reverse(Reverse(BigEndian(total, 4))) = BigEndian(total, 4)
    BY <2>2, ReverseTwice
  <2> QED  BY <2>1, <2>3 DEF FramedWell
<1>5. IsInt4(SubSeq(w, 5, 10)) /\ IsInt4(SubSeq(w, 11, 16))
  <2>1. SubSeq(w, 5, 10) = asn_int(total, 4) /\ SubSeq(w, 11, 16) = asn_int(code, 4)
    BY DEF IsFrame
  <2>2. IsInt4(asn_int(total, 4)) /\ IsInt4(asn_int(code, 4))
    BY <1>0, Int4Is
  <2> QED  BY <2>1, <2>2
<1>6. Accepts(w) = /\ unpack_unknown(body).ok
                   /\ Repeats(w) => /\ unpack_unknown(body).out # <<>>
                                    /\ unpack_unknown(body).out[1] = tid
  <2>1. Accepts(w) = /\ TRUE /\ TRUE /\ unpack_unknown(body).ok
                     /\ Repeats(w) => /\ unpack_unknown(body).out # <<>>
                                      /\ unpack_unknown(body).out[1] = tid
    BY <1>1, <1>2, <1>5, Zenon DEF Accepts
  <2> QED  BY <2>1, Zenon
<1> QED  BY <1>1, <1>2, <1>3, <1>4, <1>6, Zenon

\* A body as it is sent, and what unpack_unknown makes of it.
LEMMA PlainBody ==
  ASSUME NEW fields, NEW n \in Nat, Len(fields) = n, \A i \in 1..n : Packable(fields[i])
  PROVE  /\ pack(fields) \in Seq(Nat)
         /\ (\A i \in 1..n : Symmetric(fields[i])) =>
              unpack_unknown(pack(fields)) = Running(<<>>, Values(fields, n))
<1>1. PICK r : Chain(r, fields, n, pack(fields))
  BY PackChain
<1>2. pack(fields) \in Seq(Nat)
  BY <1>1, ChainLong
<1>3. ASSUME \A i \in 1..n : Symmetric(fields[i])
      PROVE  unpack_unknown(pack(fields)) = Running(<<>>, Values(fields, n))
  BY <1>1, <1>3, UnpackChain
<1> QED  BY <1>2, <1>3

\* A transaction word in front of it is the first value.
LEMMA RepeatedBody ==
  ASSUME NEW fields, NEW n \in Nat, Len(fields) = n, \A i \in 1..n : Packable(fields[i])
  PROVE  /\ asn_int(AsyncTid, 4) \o pack(fields) \in Seq(Nat)
         /\ Len(asn_int(AsyncTid, 4) \o pack(fields)) = Len(pack(fields)) + 6
         /\ SubSeq(asn_int(AsyncTid, 4) \o pack(fields), 7,
                   Len(asn_int(AsyncTid, 4) \o pack(fields))) = pack(fields)
         /\ (\A i \in 1..n : Symmetric(fields[i])) =>
              \E out : /\ unpack_unknown(asn_int(AsyncTid, 4) \o pack(fields)) = Running(<<>>, out)
                       /\ out # <<>> /\ out[1] = AsyncTid /\ Tail(out) = Values(fields, n)
<1>1. PICK a : a = asn_int(AsyncTid, 4)
  OBVIOUS
<1>2. a \in Seq(Nat) /\ Len(a) = 6
  <2>1. 4 \in 1..4 /\ 2 + 4 = 6
    OBVIOUS
  <2>2. AsyncTid \in Nat
    BY TidsAre
  <2>3. asn_int(AsyncTid, 4) \in Seq(Nat) /\ Len(asn_int(AsyncTid, 4)) = 2 + 4
    BY <2>1, <2>2, IntOnWire
  <2> QED  BY <1>1, <2>1, <2>3
<1>3. PICK b : b = pack(fields)
  OBVIOUS
<1>4. b \in Seq(Nat) /\ Len(b) \in Nat
  <2>1. b \in Seq(Nat)
    BY <1>3, PlainBody
  <2> QED  BY <2>1
<1>5. PICK d : d = a \o b
  OBVIOUS
<1>6. /\ d \in Seq(Nat) /\ Len(d) = Len(a) + Len(b)
      /\ SubSeq(d, Len(a) + 1, Len(a) + Len(b)) = b
  BY <1>2, <1>4, <1>5, ConcatParts
<1>7. Len(d) = Len(b) + 6 /\ SubSeq(d, 7, Len(d)) = b
  <2>1. Len(a) + 1 = 7 /\ Len(a) + Len(b) = Len(b) + 6
    BY <1>2, <1>4
  <2> QED  BY <1>6, <2>1
<1>8. ASSUME \A i \in 1..n : Symmetric(fields[i])
      PROVE  \E out : /\ unpack_unknown(d) = Running(<<>>, out)
                      /\ out # <<>> /\ out[1] = AsyncTid /\ Tail(out) = Values(fields, n)
  <2>1. PICK r : Chain(r, fields, n, b)
    BY <1>3, PackChain
  <2>2. PICK f : f = Num("L", AsyncTid)
    OBVIOUS
  <2>3. f.kind = "L" /\ f.val = AsyncTid /\ f = [kind |-> f.kind, val |-> f.val]
    BY <2>2 DEF Num
  <2>4. f.kind \in DOMAIN IntWidth /\ IntWidth[f.kind] = 4
    BY <2>3 DEF IntWidth
  <2>5. Packable(f) /\ Symmetric(f)
    <3>1. Fits(f.val, IntWidth[f.kind])
      BY <2>3, <2>4, TidsAre
    <3> QED  BY <2>3, <2>4, <3>1 DEF Packable, Symmetric
  <2>6. pack_field(f) = a /\ Value(f) = AsyncTid
    BY <1>1, <2>3, <2>4 DEF pack_field, Value
  <2>7. PICK g : g = [i \in 1..(n+1) |-> IF i = 1 THEN f ELSE fields[i-1]]
    OBVIOUS
  <2>8. g[1] = f /\ \A i \in 1..n : g[i+1] = fields[i]
    <3>1. 1 \in 1..(n+1)
      OBVIOUS
    <3>2. \A i \in 1..n : i + 1 \in 1..(n+1) /\ i + 1 # 1 /\ (i + 1) - 1 = i
      OBVIOUS
    <3> QED  BY <2>7, <3>1, <3>2
  <2>9. \A i \in 1..(n+1) : i = 1 \/ (i - 1 \in 1..n /\ g[i] = fields[i-1])
    BY <2>7
  <2>10. \A i \in 1..(n+1) : Packable(g[i]) /\ Symmetric(g[i])
    BY <1>8, <2>5, <2>8, <2>9
  <2>11. PICK q : q = [i \in 1..(n+2) |-> IF i = 1 THEN d ELSE r[i-1]]
    OBVIOUS
  <2>12. q[1] = d /\ \A i \in 1..(n+1) : q[i+1] = r[i]
    <3>1. 1 \in 1..(n+2)
      OBVIOUS
    <3>2. \A i \in 1..(n+1) : i + 1 \in 1..(n+2) /\ i + 1 # 1 /\ (i + 1) - 1 = i
      OBVIOUS
    <3> QED  BY <2>11, <3>1, <3>2
  <2>13. Chain(q, g, n + 1, d)
    <3>1. \A i \in 1..(n+1) : r[i] \in Seq(Nat)
      BY <2>1 DEF Chain
    <3>2. r[1] = b /\ r[n+1] = <<>> /\ \A i \in 1..n : r[i] = pack_field(fields[i]) \o r[i+1]
      BY <2>1 DEF Chain
    <3>3. \A i \in 1..((n+1)+1) : i = 1 \/ (i - 1 \in 1..(n+1) /\ q[i] = r[i-1])
      BY <2>11
    <3>4. \A i \in 1..((n+1)+1) : q[i] \in Seq(Nat)
      BY <1>6, <2>12, <3>1, <3>3
    <3>5. q[(n+1)+1] = <<>>
      <4>1. n + 1 \in 1..(n+1)
        OBVIOUS
      <4> QED  BY <2>12, <3>2, <4>1
    <3>6. \A i \in 1..(n+1) : q[i] = pack_field(g[i]) \o q[i+1]
      <4> TAKE i \in 1..(n+1)
      <4>1. CASE i = 1
        <5>1. 1 \in 1..(n+1)
          OBVIOUS
        <5>2. q[1+1] = b
          BY <2>12, <3>2, <5>1
        <5> QED  BY <1>5, <2>6, <2>8, <2>12, <4>1, <5>2
      <4>2. CASE i # 1
        <5>1. PICK k \in 1..n : k = i - 1 /\ i = k + 1
          BY <4>2
        <5>2. k \in 1..(n+1) /\ k + 1 \in 1..(n+1)
          OBVIOUS
        <5>3. q[k+1] = r[k] /\ q[(k+1)+1] = r[k+1] /\ g[k+1] = fields[k]
          BY <2>8, <2>12, <5>2
        <5> QED  BY <3>2, <5>1, <5>3
      <4> QED  BY <4>1, <4>2
    <3> QED  BY <2>12, <3>4, <3>5, <3>6 DEF Chain
  <2>14. PICK out : out = Values(g, n + 1)
    OBVIOUS
  <2>15. unpack_unknown(d) = Running(<<>>, out)
    <3>1. n + 1 \in Nat
      OBVIOUS
    <3>2. unpack_unknown(d) = Running(<<>>, Values(g, n + 1))
      BY <2>10, <2>13, <3>1, UnpackChain
    <3> QED  BY <2>14, <3>2
  <2>16. PICK S : S = {Value(g[i]) : i \in 1..(n+1)}
    OBVIOUS
  <2>17. out \in Seq(S) /\ Len(out) = n + 1 /\ \A i \in 1..(n+1) : out[i] = Value(g[i])
    BY <2>14, <2>16 DEF Values
  <2>18. out # <<>> /\ out[1] = AsyncTid
    <3>1. 1 \in 1..(n+1) /\ n + 1 # 0 /\ Len(<<>>) = 0
      OBVIOUS
    <3> QED  BY <2>6, <2>8, <2>17, <3>1
  <2>19. Tail(out) = Values(fields, n)
    <3>1. PICK t : t = Tail(out)
      OBVIOUS
    <3>2. t \in Seq(S) /\ Len(t) = Len(out) - 1 /\ \A i \in 1..Len(t) : t[i] = out[i+1]
      BY <2>17, <2>18, <3>1, HeadTailProperties
    <3>3. Len(t) = n
      BY <2>17, <3>2
    <3>4. PICK v : v = Values(fields, n)
      OBVIOUS
    <3>5. \A i \in 1..n : out[i+1] = Value(fields[i])
      <4> TAKE i \in 1..n
      <4>1. i + 1 \in 1..(n+1)
        OBVIOUS
      <4> QED  BY <2>8, <2>17, <4>1
    <3>6. v = [i \in 1..n |-> Value(fields[i])]
      BY <3>4 DEF Values
    <3>7. t = [i \in 1..n |-> t[i]]
      BY <3>2, <3>3
    <3>8. \A i \in 1..n : t[i] = Value(fields[i])
      BY <3>2, <3>3, <3>5
    <3> QED  BY <3>1, <3>4, <3>6, <3>7, <3>8
  <2> QED  BY <2>15, <2>18, <2>19
<1> QED  BY <1>1, <1>3, <1>5, <1>6, <1>7, <1>8

-----------------------------------------------------------------------------
(* What is sent is read as what it is.                                      *)

Sent(j) ==
  IF j.txid \in {SyncTid, AsyncTid}
  THEN Request(j.code, pack(j.body), j.txid = AsyncTid)
  ELSE Callback(j.code, pack(j.body), j.txid)

\* FramesAgree of a message read, without its type.
Readable(code, tid, fields, w, h) ==
  /\ Len(w) = TotalLength(pack(fields), tid = AsyncTid) + 4
  /\ Len(w) \in Nat \ {0}
  /\ h.framed /\ h.code = code /\ h.tid = tid
  /\ h.type = TypeOf(tid, code)
  /\ h.body = pack(fields)
  /\ (\A i \in 1..Len(fields) : Symmetric(fields[i])) =>
       h.ok /\ h.content = Values(fields, Len(fields))

\* The body of a message.
LEMMA BodyShape ==
  ASSUME NEW j, Message(j)
  PROVE  Len(j.body) \in Nat /\ \A i \in 1..Len(j.body) : Packable(j.body[i])
<1>1. j.body \in Bodies
  BY DEF Message
<1>2. j.body \in Seq(ToSet(j.body)) /\ \A i \in 1..Len(j.body) : Packable(j.body[i])
  BY <1>1, FieldsAssumption
<1> QED  BY <1>2

\* A message that does not repeat its transaction word.
LEMMA PlainReads ==
  ASSUME NEW fields, NEW n \in Nat, Len(fields) = n, \A i \in 1..n : Packable(fields[i]),
         NEW code, NEW tid, Fits(code, 4), Fits(tid, 4), tid # AsyncTid,
         ~(TypeOf(tid, code) = "response" /\ tid # SyncTid),
         NEW w, w = Framed(TotalLength(pack(fields), FALSE), code, tid, pack(fields))
  PROVE  Readable(code, tid, fields, w, handle_message(w))
<1>1. PICK b : b = pack(fields)
  OBVIOUS
<1>2. b \in Seq(Nat)
  BY <1>1, PlainBody
<1>3. PICK total \in Nat : total = TotalLength(b, FALSE) /\ total = Len(b) + 16
  <2>1. PICK lb \in Nat : lb = Len(b)
    BY <1>2
  <2>2. TotalLength(b, FALSE) = lb + 16 + 0
    BY <2>1 DEF TotalLength
  <2>3. lb + 16 + 0 = lb + 16 /\ lb + 16 \in Nat
    OBVIOUS
  <2> QED  BY <2>1, <2>2, <2>3
<1>4. code \in Nat /\ tid \in Nat
  BY DEF Fits
<1>5. w = Framed(total, code, tid, b)
  BY <1>1, <1>3
<1>6. IsFrame(w, total, code, tid, b)
  BY <1>2, <1>4, <1>5, FrameIs
<1>7. /\ FramedWell(w) /\ CodeOf(w) = code /\ TidOf(w) = tid /\ BodyOf(w) = b
      /\ Accepts(w) = /\ unpack_unknown(b).ok
                      /\ Repeats(w) => unpack_unknown(b).out # <<>> /\ unpack_unknown(b).out[1] = tid
  BY <1>6, FrameReads
<1>8. ~Repeats(w)
  BY <1>7 DEF Repeats
<1>9. PICK h : h = handle_message(w)
  OBVIOUS
<1>10. /\ h.ok = Accepts(w) /\ h.framed = FramedWell(w)
       /\ h.tid = TidOf(w) /\ h.code = CodeOf(w) /\ h.type = TypeOf(TidOf(w), CodeOf(w))
       /\ h.body = BodyOf(w) /\ h.content = unpack_unknown(BodyOf(w)).out
  BY <1>8, <1>9, HandleIs, Zenon
<1>11. ASSUME \A i \in 1..Len(fields) : Symmetric(fields[i])
       PROVE  h.ok /\ h.content = Values(fields, Len(fields))
  <2>1. unpack_unknown(b) = Running(<<>>, Values(fields, n))
    BY <1>1, <1>11, PlainBody
  <2>2. unpack_unknown(b).ok /\ unpack_unknown(b).out = Values(fields, n)
    BY <2>1, RunningIs
  <2> QED  BY <1>7, <1>8, <1>10, <2>2, Zenon
<1>12. Len(w) = TotalLength(b, FALSE) + 4 /\ Len(w) \in Nat \ {0}
  <2>1. PICK lb \in Nat : lb = Len(b)
    BY <1>2
  <2>2. Len(w) = lb + 20
    BY <1>6, <2>1 DEF IsFrame
  <2>3. lb + 20 = (lb + 16) + 4 /\ lb + 20 \in Nat \ {0}
    OBVIOUS
  <2> QED  BY <1>3, <2>1, <2>2, <2>3
<1>13. (tid = AsyncTid) = FALSE
  OBVIOUS
<1>14. Len(w) = TotalLength(pack(fields), tid = AsyncTid) + 4
  BY <1>1, <1>12, <1>13
<1>15. h.framed
  BY <1>7, <1>10, Zenon
<1> QED  BY <1>1, <1>7, <1>9, <1>10, <1>11, <1>12, <1>14, <1>15, Zenon DEF Readable

\* An asynchronous request, which does.
LEMMA AsyncReads ==
  ASSUME NEW fields, NEW n \in Nat, Len(fields) = n, \A i \in 1..n : Packable(fields[i]),
         NEW code \in call_ids,
         NEW w, w = Request(code, pack(fields), TRUE)
  PROVE  Readable(code, AsyncTid, fields, w, handle_message(w))
<1>1. PICK b : b = pack(fields)
  OBVIOUS
<1>2. PICK a : a = asn_int(AsyncTid, 4) \o b
  OBVIOUS
<1>3. PICK lb \in Nat : lb = Len(b)
  <2>1. b \in Seq(Nat)
    BY <1>1, PlainBody
  <2> QED  BY <2>1
<1>4. a \in Seq(Nat) /\ Len(a) = lb + 6 /\ SubSeq(a, 7, Len(a)) = b
  BY <1>1, <1>2, <1>3, RepeatedBody
<1>5. PICK total \in Nat : total = TotalLength(b, TRUE) /\ total = lb + 22
  <2>1. TotalLength(b, TRUE) = lb + 16 + 6
    BY <1>3 DEF TotalLength
  <2>2. lb + 16 + 6 = lb + 22 /\ lb + 22 \in Nat
    OBVIOUS
  <2> QED  BY <2>1, <2>2
<1>6. code \in Nat /\ Fits(code, 4) /\ AsyncTid \in Nat /\ Fits(AsyncTid, 4) /\ AsyncTid # SyncTid
  BY Codes, TidsAre
<1>7. w = Framed(total, code, AsyncTid, a)
  <2>1. TidWord(TRUE) = AsyncTid
    BY DEF TidWord
  <2>2. Request(code, b, TRUE) = Framed(TotalLength(b, TRUE), code, TidWord(TRUE), asn_int(AsyncTid, 4) \o b)
    BY Zenon DEF Request, asn_int4
  <2> QED  BY <1>1, <1>2, <1>5, <2>1, <2>2
<1>8. IsFrame(w, total, code, AsyncTid, a)
  BY <1>4, <1>6, <1>7, FrameIs
<1>9. /\ FramedWell(w) /\ CodeOf(w) = code /\ TidOf(w) = AsyncTid /\ BodyOf(w) = a
      /\ Accepts(w) = /\ unpack_unknown(a).ok
                      /\ Repeats(w) => unpack_unknown(a).out # <<>> /\ unpack_unknown(a).out[1] = AsyncTid
  BY <1>6, <1>8, FrameReads
<1>10. TypeOf(AsyncTid, code) = "response"
  BY Types
<1>11. Repeats(w)
  BY <1>6, <1>9, <1>10 DEF Repeats
<1>12. PICK h : h = handle_message(w)
  OBVIOUS
<1>13. /\ h.ok = Accepts(w) /\ h.framed = FramedWell(w)
       /\ h.tid = TidOf(w) /\ h.code = CodeOf(w) /\ h.type = TypeOf(TidOf(w), CodeOf(w))
       /\ h.body = SubSeq(BodyOf(w), 7, Len(BodyOf(w)))
       /\ h.content = Tail(unpack_unknown(BodyOf(w)).out)
  BY <1>11, <1>12, HandleIs, Zenon
<1>14. ASSUME \A i \in 1..Len(fields) : Symmetric(fields[i])
       PROVE  h.ok /\ h.content = Values(fields, Len(fields))
  <2>1. PICK out : /\ unpack_unknown(a) = Running(<<>>, out)
                   /\ out # <<>> /\ out[1] = AsyncTid /\ Tail(out) = Values(fields, n)
    BY <1>1, <1>2, <1>14, RepeatedBody
  <2>2. unpack_unknown(a).ok /\ unpack_unknown(a).out = out
    BY <2>1, RunningIs
  <2> QED  BY <1>9, <1>11, <1>13, <2>1, <2>2, Zenon
<1>15. Len(w) = TotalLength(b, TRUE) + 4 /\ Len(w) \in Nat \ {0}
  <2>1. Len(w) = (lb + 6) + 20
    BY <1>4, <1>8 DEF IsFrame
  <2>2. (lb + 6) + 20 = (lb + 22) + 4 /\ (lb + 6) + 20 \in Nat \ {0}
    OBVIOUS
  <2> QED  BY <1>5, <2>1, <2>2
<1>16. (AsyncTid = AsyncTid) = TRUE
  OBVIOUS
<1>17. Len(w) = TotalLength(pack(fields), AsyncTid = AsyncTid) + 4
  BY <1>1, <1>15, <1>16
<1>18. h.framed /\ h.body = b
  BY <1>4, <1>9, <1>13, Zenon
<1> QED  BY <1>1, <1>9, <1>12, <1>13, <1>14, <1>15, <1>17, <1>18, Zenon DEF Readable

\* Whatever is sent.
LEMMA SentReads ==
  ASSUME NEW j, Message(j)
  PROVE  Readable(j.code, j.txid, j.body, Sent(j), handle_message(Sent(j)))
<1>0. PICK fields : fields = j.body
  OBVIOUS
<1>1. PICK n \in Nat : fields = j.body /\ n = Len(fields) /\ \A i \in 1..n : Packable(fields[i])
  BY <1>0, BodyShape
<1>2. PICK w : w = Sent(j)
  OBVIOUS
<1>3. CASE j.txid = SyncTid
  <2>1. j.code \in call_ids
    BY <1>3, Types DEF Message
  <2>2. /\ Fits(j.code, 4) /\ Fits(SyncTid, 4) /\ SyncTid # AsyncTid
    BY <2>1, Codes, TidsAre
  <2>3. w = Framed(TotalLength(pack(fields), FALSE), j.code, SyncTid, pack(fields))
    <3>1. (SyncTid = AsyncTid) = FALSE
      BY <2>2
    <3>2. w = Request(j.code, pack(fields), SyncTid = AsyncTid)
      BY <1>1, <1>2, <1>3 DEF Sent
    <3>3. w = Request(j.code, pack(fields), FALSE)
      BY <3>1, <3>2
    <3>4. <<>> \o pack(fields) = pack(fields)
      <4>1. pack(fields) \in Seq(Nat)
        BY <1>1, PlainBody
      <4> QED  BY <4>1, ConcatEmptySeq
    <3>5. Request(j.code, pack(fields), FALSE)
            = Framed(TotalLength(pack(fields), FALSE), j.code, SyncTid, <<>> \o pack(fields))
      BY Zenon DEF Request, TidWord
    <3> QED  BY <3>3, <3>4, <3>5
  <2>4. Readable(j.code, SyncTid, fields, w, handle_message(w))
    BY <1>1, <2>2, <2>3, PlainReads
  <2> QED  BY <1>1, <1>2, <1>3, <2>4
<1>4. CASE j.txid = AsyncTid
  <2>1. j.code \in call_ids
    BY <1>4, Types DEF Message
  <2>2. w = Request(j.code, pack(fields), TRUE)
    <3>1. (AsyncTid = AsyncTid) = TRUE
      OBVIOUS
    <3>2. w = Request(j.code, pack(fields), AsyncTid = AsyncTid)
      BY <1>1, <1>2, <1>4 DEF Sent
    <3> QED  BY <3>1, <3>2
  <2>3. Readable(j.code, AsyncTid, fields, w, handle_message(w))
    BY <1>1, <2>1, <2>2, AsyncReads
  <2> QED  BY <1>1, <1>2, <1>4, <2>3
<1>5. CASE j.txid \notin {SyncTid, AsyncTid}
  <2>1. j.code \in xmm7360_unsol /\ j.txid \in CallbackTids
    BY <1>5 DEF Message
  <2>2. /\ Fits(j.code, 4) /\ Fits(j.txid, 4) /\ j.txid # AsyncTid
        /\ TypeOf(j.txid, j.code) = "unsolicited"
    BY <2>1, Codes, Types
  <2>3. w = Framed(TotalLength(pack(fields), FALSE), j.code, j.txid, pack(fields))
    BY <1>1, <1>2, <1>5 DEF Sent, Callback
  <2>4. ~(TypeOf(j.txid, j.code) = "response" /\ j.txid # SyncTid)
    BY <2>2
  <2>5. Readable(j.code, j.txid, fields, w, handle_message(w))
    BY <1>1, <2>2, <2>3, <2>4, PlainReads
  <2> QED  BY <1>1, <1>2, <2>5
<1> QED  BY <1>3, <1>4, <1>5

\* A message is written in one step and read in another.
MessageInv ==
  job.what = "message" =>
    /\ sent \in {0, 1}
    /\ sent = 0 => at = 0
    /\ sent # 0 => /\ wire = Sent(job)
                   /\ at = 0 \/ back = handle_message(wire)

\* The invariant says what FramesAgree says.
LEMMA MessageInvSuffices ==
  ASSUME JobInv, MessageInv
  PROVE  FramesAgree
<1> SUFFICES ASSUME HasRead("message")
             PROVE  /\ Len(wire) = TotalLength(pack(job.body), job.txid = AsyncTid) + 4
                    /\ back.framed
                    /\ back.code = job.code /\ back.tid = job.txid
                    /\ back.body = pack(job.body)
                    /\ (\A i \in 1..Len(job.body) : Symmetric(job.body[i])) =>
                         /\ back.ok
                         /\ back.content = [i \in 1..Len(job.body) |-> Value(job.body[i])]
                    /\ back.type = (IF job.code \in call_ids THEN "response" ELSE "unsolicited")
                    /\ (back.code \in xmm7360_unsol) = (back.type = "unsolicited")
  BY DEF FramesAgree
<1>1. job.what = "message" /\ sent = 1 /\ at = Len(wire)
  BY DEF HasRead, Written
<1>2. Message(job)
  BY <1>1, JobIs DEF JobInv
<1>3. Readable(job.code, job.txid, job.body, Sent(job), handle_message(Sent(job)))
  BY <1>2, SentReads
<1>4. wire = Sent(job) /\ (at = 0 \/ back = handle_message(wire))
  BY <1>1 DEF MessageInv
<1>5. at # 0
  BY <1>1, <1>3, <1>4 DEF Readable
<1>6. Readable(job.code, job.txid, job.body, wire, back)
  BY <1>3, <1>4, <1>5
<1>7. /\ Len(wire) = TotalLength(pack(job.body), job.txid = AsyncTid) + 4
      /\ back.framed
      /\ back.code = job.code /\ back.tid = job.txid
      /\ back.body = pack(job.body)
      /\ (\A i \in 1..Len(job.body) : Symmetric(job.body[i])) =>
           back.ok /\ back.content = [i \in 1..Len(job.body) |-> Value(job.body[i])]
      /\ back.type = TypeOf(job.txid, job.code)
  BY <1>6, Zenon DEF Readable, Values
<1>8. \/ /\ job.code \in call_ids /\ job.code \notin xmm7360_unsol
         /\ TypeOf(job.txid, job.code) = "response"
      \/ /\ job.code \notin call_ids /\ job.code \in xmm7360_unsol
         /\ TypeOf(job.txid, job.code) = "unsolicited"
  BY <1>2, Codes, Types DEF Message
<1>9. back.type = (IF job.code \in call_ids THEN "response" ELSE "unsolicited")
  BY <1>7, <1>8
<1>10. (back.code \in xmm7360_unsol) = (back.type = "unsolicited")
  BY <1>7, <1>8
<1> QED  BY <1>7, <1>9, <1>10, Zenon

\* Whatever execute sends, and whatever callback the modem sends, handle_message
\* takes for what it is and finds the same code, transaction word and body in.
THEOREM FramesAgreeAlways == Spec => []FramesAgree
<1>1. Init => MessageInv
  BY DEF Init, MessageInv
<1>2. MessageInv /\ [Next]_vars => MessageInv'
  <2> SUFFICES ASSUME MessageInv, [Next]_vars, job.what = "message" PROVE MessageInv'
    BY DEF MessageInv, Next, vars, Write, ReadField, ReadMessage, ReadPacket, ReadTrace
  <2>1. CASE Write
    <3>1. sent # 1 /\ job' = job /\ at' = at /\ sent' = sent + 1
      BY <2>1 DEF Write, Written
    <3>2. job' = job /\ at' = 0 /\ sent' = 1
      BY <3>1 DEF MessageInv
    <3>3. wire' = Sent(job)
      BY <2>1 DEF Write, Sent
    <3> QED  BY <3>2, <3>3 DEF MessageInv
  <2>2. CASE ReadField
    BY <2>2 DEF ReadField, MessageInv
  <2>3. CASE ReadMessage
    <3>1. sent = 1 /\ job' = job /\ sent' = sent /\ wire' = wire /\ back' = handle_message(wire)
      BY <2>3 DEF ReadMessage, Whole, Written
    <3> QED  BY <3>1 DEF MessageInv
  <2>4. CASE ReadPacket
    BY <2>4 DEF ReadPacket, Whole, MessageInv
  <2>5. CASE ReadTrace
    BY <2>5 DEF ReadTrace, MessageInv
  <2>6. CASE UNCHANGED vars
    BY <2>6 DEF vars, MessageInv
  <2> QED  BY <2>1, <2>2, <2>3, <2>4, <2>5, <2>6 DEF Next
<1>3. JobInv /\ MessageInv => FramesAgree
  BY MessageInvSuffices
<1> QED  BY JobKept, <1>1, <1>2, <1>3, PTL DEF Spec

-----------------------------------------------------------------------------
(* Frames of mux.py.                                                        *)

\* The bytes of a number, from its last one.
LEMMA LEIs ==
  ASSUME NEW n \in Nat
  PROVE  /\ M!LE(n, 4) \in Seq(Nat) /\ Len(M!LE(n, 4)) = 4
         /\ M!LE(n, 4)[1] = n % 256 /\ M!LE(n, 4)[2] = (n \div 256) % 256
         /\ M!LE(n, 4)[3] = (n \div K2) % 256 /\ M!LE(n, 4)[4] = (n \div K3) % 256
         /\ M!LE(n, 2) \in Seq(Nat) /\ Len(M!LE(n, 2)) = 2
         /\ M!LE(n, 2)[1] = n % 256 /\ M!LE(n, 2)[2] = (n \div 256) % 256
<1> DEFINE Pow(k) == 256^k
<1>1. Pow(0) = 1 /\ Pow(1) = 256 /\ Pow(2) = K2 /\ Pow(3) = K3
  BY Powers
<1>2. \A width : M!LE(n, width) = [i \in 1..width |-> (n \div Pow(i - 1)) % 256]
  BY DEF M!LE
<1> HIDE DEF Pow
<1>3. n \div 1 = n /\ n % 256 \in Nat /\ (n \div 256) % 256 \in Nat
  BY LastByte
<1>4. (n \div K2) % 256 \in Nat /\ (n \div K3) % 256 \in Nat
  BY DivOn, LastByte
<1>5. ASSUME NEW width \in {2, 4}
      PROVE  /\ M!LE(n, width) \in Seq(Nat) /\ Len(M!LE(n, width)) = width
             /\ M!LE(n, width)[1] = n % 256 /\ M!LE(n, width)[2] = (n \div 256) % 256
             /\ width = 4 => /\ M!LE(n, width)[3] = (n \div K2) % 256
                             /\ M!LE(n, width)[4] = (n \div K3) % 256
  <2>1. PICK b : b = M!LE(n, width)
    OBVIOUS
  <2>2. b = [i \in 1..width |-> (n \div Pow(i - 1)) % 256]
    BY <1>2, <2>1
  <2>3. \A i \in 1..width : b[i] = (n \div Pow(i - 1)) % 256
    BY <2>2
  <2>4. 1 \in 1..width /\ 2 \in 1..width /\ 1 - 1 = 0 /\ 2 - 1 = 1
    OBVIOUS
  <2>5. b[1] = (n \div Pow(0)) % 256 /\ b[2] = (n \div Pow(1)) % 256
    BY <2>3, <2>4
  <2>6. width = 4 => 3 \in 1..width /\ 4 \in 1..width /\ 3 - 1 = 2 /\ 4 - 1 = 3
    OBVIOUS
  <2>7. width = 4 => b[3] = (n \div Pow(2)) % 256 /\ b[4] = (n \div Pow(3)) % 256
    BY <2>3, <2>6
  <2>8. b[1] = n % 256 /\ b[2] = (n \div 256) % 256
    BY <1>1, <1>3, <2>5
  <2>9. width = 4 => b[3] = (n \div K2) % 256 /\ b[4] = (n \div K3) % 256
    BY <1>1, <2>7
  <2>10. \A i \in 1..width : i = 1 \/ i = 2 \/ (width = 4 /\ (i = 3 \/ i = 4))
    OBVIOUS
  <2>11. \A i \in 1..width : b[i] \in Nat
    BY <1>3, <1>4, <2>8, <2>9, <2>10
  <2>12. b = [i \in 1..width |-> b[i]]
    BY <2>2
  <2>13. b \in Seq(Nat) /\ Len(b) = width
    BY <2>11, <2>12
  <2> QED  BY <2>1, <2>8, <2>9, <2>13
<1> QED  BY <1>5

\* A word is read as it was written.
LEMMA WordReads ==
  ASSUME NEW f, NEW at0, NEW n \in Nat, n < K4,
         \A i \in 1..4 : f[at0 + i] = M!LE(n, 4)[i]
  PROVE  M!Word(f, at0) = n
<1>1. /\ f[at0 + 1] = n % 256 /\ f[at0 + 2] = (n \div 256) % 256
      /\ f[at0 + 3] = (n \div K2) % 256 /\ f[at0 + 4] = (n \div K3) % 256
  <2>1. 1 \in 1..4 /\ 2 \in 1..4 /\ 3 \in 1..4 /\ 4 \in 1..4
    OBVIOUS
  <2> QED  BY <2>1, LEIs
<1>2. PICK n1 \in Nat, n2 \in Nat, n3 \in Nat : n1 = n \div 256 /\ n2 = n \div K2 /\ n3 = n \div K3
  BY LastByte, DivOn, ZenonT(60)
<1>3. n2 = n1 \div 256 /\ n3 = n2 \div 256
  BY <1>2, DivOn
<1>4. PICK b0, b1, b2, b3 : b0 = n % 256 /\ b1 = n1 % 256 /\ b2 = n2 % 256 /\ b3 = n3 % 256
  OBVIOUS
<1>5. n = 256 * n1 + b0 /\ n1 = 256 * n2 + b1 /\ n2 = 256 * n3 + b2
  BY <1>2, <1>3, <1>4, LastByte
<1>6. b0 \in Nat /\ b1 \in Nat /\ b2 \in Nat /\ b3 \in Nat
  BY <1>4, LastByte
<1>7. n3 < 256 /\ b3 = n3
  BY <1>2, <1>4 DEF K3, K4
<1>8. M!Word(f, at0) = b0 + 256 * b1 + 65536 * b2 + 16777216 * b3
  BY <1>1, <1>2, <1>4 DEF M!Word
<1>9. \A c0 \in Nat, c1 \in Nat, c2 \in Nat, c3 \in Nat :
        256 * (256 * (256 * c3 + c2) + c1) + c0 = c0 + 256 * c1 + 65536 * c2 + 16777216 * c3
  OBVIOUS
<1>10. n = 256 * (256 * (256 * b3 + b2) + b1) + b0
  BY <1>5, <1>7
<1> QED  BY <1>6, <1>8, <1>9, <1>10

\* Bytes(s, n): n bytes.  (What the provers need not look into.)
Bytes(s, n) == s \in Seq(Nat) /\ Len(s) = n

\* s is a of n bytes, but for the w bytes of field behind the first ones.
Patched(s, a, n, at0, field, w) ==
  /\ Bytes(s, n)
  /\ \A i \in 1..at0 : s[i] = a[i]
  /\ \A i \in 1..w : s[at0 + i] = field[i]
  /\ \A i \in (at0 + w + 1)..n : s[i] = a[i]

\* What Patch changes and what not.
LEMMA PatchIs ==
  ASSUME NEW a, a \in Seq(Nat), NEW field, field \in Seq(Nat), NEW at0 \in Nat, NEW w \in Nat,
         Len(field) = w, at0 + w <= Len(a)
  PROVE  Patched(M!Patch(a, at0, field), a, Len(a), at0, field, w)
<1>1. PICK n \in Nat : n = Len(a) /\ at0 + w <= n
  OBVIOUS
<1>2. PICK s : s = SubSeq(a, 1, at0)
  OBVIOUS
<1>3. PICK t : t = SubSeq(a, at0 + w + 1, n)
  OBVIOUS
<1>4. s \in Seq(Nat) /\ Len(s) = at0 /\ \A i \in 1..at0 : s[i] = a[i]
  <2>1. at0 <= Len(a) /\ 1 \in Nat \ {0} /\ (at0 - 1) + 1 = at0
    BY <1>1
  <2>2. /\ s \in Seq(Nat) /\ Len(s) = IF 1 <= at0 THEN at0 - 1 + 1 ELSE 0
        /\ \A i \in 1..(at0 - 1 + 1) : s[i] = a[1 + i - 1]
    <3>1. IsPiece(s, a, 1, at0)
      BY <1>2, <2>1, Piece
    <3> QED  BY <1>2, <2>1, <3>1 DEF IsPiece
  <2>3. Len(s) = at0
    BY <2>2
  <2> QED  BY <2>2, <2>3
<1>5. t \in Seq(Nat) /\ Len(t) = n - (at0 + w) /\ \A i \in 1..(n - (at0 + w)) : t[i] = a[(at0 + w) + i]
  <2>1. PICK m \in Nat \ {0} : m = at0 + w + 1
    OBVIOUS
  <2>2. t = SubSeq(a, m, n) /\ n <= Len(a)
    BY <1>1, <1>3, <2>1
  <2>3. /\ t \in Seq(Nat) /\ Len(t) = IF m <= n THEN n - m + 1 ELSE 0
        /\ \A i \in 1..(n - m + 1) : t[i] = a[m + i - 1]
    <3>1. IsPiece(t, a, m, n)
      BY <2>2, Piece
    <3> QED  BY <2>2, <3>1 DEF IsPiece
  <2>4. Len(t) = n - (at0 + w)
    BY <1>1, <2>1, <2>3
  <2>5. \A i \in 1..(n - (at0 + w)) : i \in 1..(n - m + 1) /\ m + i - 1 = (at0 + w) + i
    BY <1>1, <2>1
  <2> QED  BY <2>3, <2>4, <2>5
<1>6. PICK sf : sf = s \o field
  OBVIOUS
<1>7. /\ sf \in Seq(Nat) /\ Len(sf) = at0 + w
      /\ \A i \in 1..at0 : sf[i] = s[i]
      /\ \A i \in 1..w : sf[at0 + i] = field[i]
  BY <1>4, <1>6, ConcatParts
<1>8. PICK p : p = sf \o t
  OBVIOUS
<1>9. /\ p \in Seq(Nat) /\ Len(p) = Len(sf) + Len(t)
      /\ \A i \in 1..Len(sf) : p[i] = sf[i]
      /\ \A i \in 1..Len(t) : p[Len(sf) + i] = t[i]
  BY <1>5, <1>7, <1>8, ConcatParts, ZenonT(60)
<1>10. p = M!Patch(a, at0, field)
  <2>1. M!Patch(a, at0, field) = (SubSeq(a, 1, at0) \o field) \o SubSeq(a, at0 + Len(field) + 1, Len(a))
    BY Zenon DEF M!Patch
  <2> QED  BY <1>1, <1>2, <1>3, <1>6, <1>8, <2>1
<1>11. Len(p) = n
  BY <1>1, <1>5, <1>7, <1>9
<1>12. \A i \in 1..at0 : p[i] = a[i]
  <2> TAKE i \in 1..at0
  <2>1. i \in 1..(at0 + w)
    OBVIOUS
  <2> QED  BY <1>4, <1>7, <1>9, <2>1
<1>13. \A i \in 1..w : p[at0 + i] = field[i]
  <2> TAKE i \in 1..w
  <2>1. at0 + i \in 1..(at0 + w)
    OBVIOUS
  <2> QED  BY <1>7, <1>9, <2>1
<1>14. \A i \in (at0 + w + 1)..n : p[i] = a[i]
  <2> TAKE i \in (at0 + w + 1)..n
  <2>1. PICK k : k = i - (at0 + w)
    OBVIOUS
  <2>2. k \in 1..(n - (at0 + w)) /\ (at0 + w) + k = i
    BY <1>1, <2>1
  <2> QED  BY <1>5, <1>7, <1>9, <2>2
<1>15. p \in Seq(Nat)
  BY <1>9
<1>16. Patched(p, a, n, at0, field, w)
  BY <1>11, <1>12, <1>13, <1>14, <1>15, Zenon DEF Bytes, Patched
<1> QED  BY <1>1, <1>10, <1>16, Zenon

\* A frame in the making.
Build(seq, packet, fwd_pointer) == [seq |-> seq, packet |-> packet, fwd_pointer |-> fwd_pointer]

\* Its parts.
LEMMA BuildIs ==
  ASSUME NEW seq, NEW a, NEW ptr
  PROVE  /\ Build(seq, a, ptr).seq = seq /\ Build(seq, a, ptr).packet = a
         /\ Build(seq, a, ptr).fwd_pointer = ptr
BY DEF Build

\* Its first state.
LEMMA BuildStart == ASSUME NEW seq PROVE M!MuxPacket(seq) = Build(seq, <<>>, 0)
BY Zenon DEF Build, M!MuxPacket

\* A longer one.
Longer(p, b, q) == [p EXCEPT !.packet = b, !.fwd_pointer = q]

\* It has the same sequence number.
LEMMA BuildNext ==
  ASSUME NEW seq, NEW a, NEW ptr, NEW b, NEW q
  PROVE  Longer(Build(seq, a, ptr), b, q) = Build(seq, b, q)
<1>1. PICK r : r = [Build(seq, a, ptr) EXCEPT !.packet = b, !.fwd_pointer = q]
  OBVIOUS
<1>2. DOMAIN r = {"seq", "packet", "fwd_pointer"}
  BY <1>1 DEF Build
<1>3. r.seq = seq /\ r.packet = b /\ r.fwd_pointer = q
  BY <1>1 DEF Build
<1>4. r = [seq |-> seq, packet |-> b, fwd_pointer |-> q]
  BY <1>1 DEF Build
<1> QED  BY <1>1, <1>4 DEF Build, Longer

\* The header of a tag: its name, which in the first one holds the sequence
\* number, its length, and the place of a pointer.
Header(name, len) == ((name \o M!LE(len, 2)) \o M!LE(0, 2)) \o M!LE(0, 4)
FirstName(tag, seq) == (tag \o M!LE(0, 2)) \o M!LE(seq, 2)

\* It begins with its name and is eight bytes longer.
LEMMA HeaderIs ==
  ASSUME NEW name, name \in Seq(Nat), NEW k \in Nat, Len(name) = k, NEW len \in Nat
  PROVE  /\ Header(name, len) \in Seq(Nat) /\ Len(Header(name, len)) = k + 8
         /\ \A i \in 1..k : Header(name, len)[i] = name[i]
<1>1. PICK b : b = M!LE(len, 2)
  OBVIOUS
<1>2. PICK c : c = M!LE(0, 2)
  OBVIOUS
<1>3. PICK d : d = M!LE(0, 4)
  OBVIOUS
<1>4. b \in Seq(Nat) /\ Len(b) = 2 /\ c \in Seq(Nat) /\ Len(c) = 2 /\ d \in Seq(Nat) /\ Len(d) = 4
  BY <1>1, <1>2, <1>3, LEIs
<1>5. PICK x : x = name \o b
  OBVIOUS
<1>6. x \in Seq(Nat) /\ Len(x) = Len(name) + Len(b) /\ \A i \in 1..Len(name) : x[i] = name[i]
  BY <1>4, <1>5, ConcatParts
<1>7. PICK y : y = x \o c
  OBVIOUS
<1>8. y \in Seq(Nat) /\ Len(y) = Len(x) + Len(c) /\ \A i \in 1..Len(x) : y[i] = x[i]
  <2>1. x \in Seq(Nat)
    BY <1>6
  <2>2. c \in Seq(Nat)
    BY <1>4
  <2> QED  BY <1>7, <2>1, <2>2, ConcatParts
<1>9. PICK z : z = y \o d
  OBVIOUS
<1>10. z \in Seq(Nat) /\ Len(z) = Len(y) + Len(d) /\ \A i \in 1..Len(y) : z[i] = y[i]
  <2>1. y \in Seq(Nat)
    BY <1>8
  <2>2. d \in Seq(Nat)
    BY <1>4
  <2> QED  BY <1>9, <2>1, <2>2, ConcatParts
<1>11. Len(x) = k + 2 /\ Len(y) = k + 4 /\ Len(z) = k + 8
  BY <1>4, <1>6, <1>8, <1>10
<1>12. \A i \in 1..k : i \in 1..(k+2) /\ i \in 1..(k+4)
  OBVIOUS
<1>13. \A i \in 1..k : z[i] = name[i]
  BY <1>6, <1>8, <1>10, <1>11, <1>12
<1>14. z = Header(name, len)
  BY <1>1, <1>2, <1>3, <1>5, <1>7, <1>9 DEF Header
<1> QED  BY <1>10, <1>11, <1>13, <1>14

\* The name of the first tag is followed by a zero and the sequence number.
LEMMA FirstNameIs ==
  ASSUME NEW tag, tag \in Seq(Nat), Len(tag) = 4, NEW seq \in 0..255
  PROVE  /\ FirstName(tag, seq) \in Seq(Nat) /\ Len(FirstName(tag, seq)) = 8
         /\ \A i \in 1..4 : FirstName(tag, seq)[i] = tag[i]
         /\ FirstName(tag, seq)[5] = 0 /\ FirstName(tag, seq)[6] = 0
         /\ FirstName(tag, seq)[7] = seq /\ FirstName(tag, seq)[8] = 0
<1>1. PICK b : b = M!LE(0, 2)
  OBVIOUS
<1>2. PICK c : c = M!LE(seq, 2)
  OBVIOUS
<1>3. b \in Seq(Nat) /\ Len(b) = 2 /\ b[1] = 0 /\ b[2] = 0
  <2>1. 0 % 256 = 0 /\ (0 \div 256) % 256 = 0 /\ 0 \in Nat
    OBVIOUS
  <2> QED  BY <1>1, <2>1, LEIs
<1>4. c \in Seq(Nat) /\ Len(c) = 2 /\ c[1] = seq /\ c[2] = 0
  <2>1. seq % 256 = seq /\ (seq \div 256) % 256 = 0 /\ seq \in Nat
    OBVIOUS
  <2> QED  BY <1>2, <2>1, LEIs, ZenonT(60)
<1>5. PICK x : x = tag \o b
  OBVIOUS
<1>6. /\ x \in Seq(Nat) /\ Len(x) = Len(tag) + Len(b)
      /\ \A i \in 1..Len(tag) : x[i] = tag[i]
      /\ \A i \in 1..Len(b) : x[Len(tag) + i] = b[i]
  BY <1>3, <1>5, ConcatParts
<1>7. Len(x) = 6 /\ (\A i \in 1..4 : x[i] = tag[i]) /\ x[5] = 0 /\ x[6] = 0
  <2>1. x[4+1] = b[1] /\ x[4+2] = b[2]
    BY <1>3, <1>6
  <2> QED  BY <1>3, <1>6, <2>1
<1>8. PICK y : y = x \o c
  OBVIOUS
<1>9. /\ y \in Seq(Nat) /\ Len(y) = Len(x) + Len(c)
      /\ \A i \in 1..Len(x) : y[i] = x[i]
      /\ \A i \in 1..Len(c) : y[Len(x) + i] = c[i]
  BY <1>4, <1>6, <1>8, ConcatParts, ZenonT(60)
<1>10. y[7] = seq /\ y[8] = 0 /\ Len(y) = 8
  <2>1. y[6+1] = c[1] /\ y[6+2] = c[2]
    BY <1>4, <1>7, <1>9
  <2> QED  BY <1>4, <1>7, <1>9, <2>1
<1>11. \A i \in 1..6 : y[i] = x[i]
  BY <1>7, <1>9
<1>12. y[5] = 0 /\ y[6] = 0 /\ \A i \in 1..4 : y[i] = tag[i]
  BY <1>7, <1>11
<1>13. y = FirstName(tag, seq)
  BY <1>1, <1>2, <1>5, <1>8 DEF FirstName
<1> QED  BY <1>9, <1>10, <1>12, <1>13

\* The packet with another tag.
Tagged(seq, a, ptr, tag, data) ==
  LET aligned == M!Padded(a)
      before == M!Patch(aligned, ptr, M!LE(Len(aligned), 4))
      hdr == Header(tag, Len(tag) + 8 + Len(data))
  IN Build(seq, (before \o hdr) \o data, Len(before) + Len(hdr) - 4)

\* The two kinds of append_tag.
LEMMA AppendTagIs ==
  ASSUME NEW seq, NEW tag, NEW data
  PROVE  /\ M!append_tag(M!MuxPacket(seq), tag, data, 0)
              = LET hdr == Header(FirstName(tag, seq), Len(FirstName(tag, seq)) + 8 + Len(data))
                IN Build(seq, (<<>> \o hdr) \o data, Len(<<>>) + Len(hdr) - 4)
         /\ \A a, ptr : a # <<>> =>
              M!append_tag(Build(seq, a, ptr), tag, data, 0) = Tagged(seq, a, ptr, tag, data)
<1>1. \A p : M!append_tag(p, tag, data, 0)
        = LET before == IF p.packet = <<>> THEN <<>>
                        ELSE M!Patch(M!Padded(p.packet), p.fwd_pointer, M!LE(Len(M!Padded(p.packet)), 4))
              name == IF p.packet = <<>> THEN FirstName(tag, p.seq) ELSE tag
              hdr == Header(name, Len(name) + 8 + Len(data))
          IN Longer(p, (before \o hdr) \o data, Len(before) + Len(hdr) - 4)
  BY Zenon DEF M!append_tag, Longer, Header, FirstName
<1>2. \A p : p.packet = <<>> => M!append_tag(p, tag, data, 0)
        = LET hdr == Header(FirstName(tag, p.seq), Len(FirstName(tag, p.seq)) + 8 + Len(data))
          IN Longer(p, (<<>> \o hdr) \o data, Len(<<>>) + Len(hdr) - 4)
  BY <1>1, Zenon
<1>3. \A p : p.packet # <<>> => M!append_tag(p, tag, data, 0)
        = LET before == M!Patch(M!Padded(p.packet), p.fwd_pointer, M!LE(Len(M!Padded(p.packet)), 4))
              hdr == Header(tag, Len(tag) + 8 + Len(data))
          IN Longer(p, (before \o hdr) \o data, Len(before) + Len(hdr) - 4)
  BY <1>1, Zenon
<1>4. M!append_tag(Build(seq, <<>>, 0), tag, data, 0)
        = LET hdr == Header(FirstName(tag, seq), Len(FirstName(tag, seq)) + 8 + Len(data))
          IN Build(seq, (<<>> \o hdr) \o data, Len(<<>>) + Len(hdr) - 4)
  <2>1. Build(seq, <<>>, 0).packet = <<>> /\ Build(seq, <<>>, 0).seq = seq
    BY BuildIs
  <2>2. \A b, q : Longer(Build(seq, <<>>, 0), b, q) = Build(seq, b, q)
    BY BuildNext
  <2> QED  BY <1>2, <2>1, <2>2, Zenon
<1>5. ASSUME NEW a, NEW ptr, a # <<>>
      PROVE  M!append_tag(Build(seq, a, ptr), tag, data, 0) = Tagged(seq, a, ptr, tag, data)
  <2>1. /\ Build(seq, a, ptr).packet = a /\ Build(seq, a, ptr).fwd_pointer = ptr
    BY BuildIs
  <2>2. \A b, q : Longer(Build(seq, a, ptr), b, q) = Build(seq, b, q)
    BY BuildNext
  <2> QED  BY <1>3, <1>5, <2>1, <2>2, Zenon DEF Tagged
<1>6. M!MuxPacket(seq) = Build(seq, <<>>, 0)
  BY BuildStart
<1> QED  BY <1>4, <1>5, <1>6, Zenon

\* Where everything is in a frame of two tags: the second one behind the first
\* one's data, at the next word.
Laid(f, tag, seq, d1, up, tag2, d2) ==
  /\ f \in Seq(Nat) /\ Len(f) = up + 12 + Len(d2)
  /\ \A i \in 1..4 : f[i] = tag[i]
  /\ f[5] = 0 /\ f[6] = 0 /\ f[7] = seq /\ f[8] = 0
  /\ \A i \in 1..4 : f[8 + i] = M!LE(Len(f), 4)[i]
  /\ \A i \in 1..4 : f[12 + i] = M!LE(up, 4)[i]
  /\ \A i \in 1..Len(d1) : f[16 + i] = d1[i]
  /\ \A i \in 1..4 : f[up + i] = tag2[i]
  /\ \A i \in 1..Len(d2) : f[(up + 12) + i] = d2[i]

\* Padding makes a length a multiple of four.
LEMMA PaddedIs ==
  ASSUME NEW a, a \in Seq(Nat), NEW n \in Nat, Len(a) = n
  PROVE  /\ M!Padded(a) \in Seq(Nat) /\ Len(M!Padded(a)) = K!Align(n)
         /\ K!Align(n) \in Nat /\ n <= K!Align(n)
         /\ \A i \in 1..n : M!Padded(a)[i] = a[i]
<1>1. PICK k \in Nat : k = (4 - (n % 4)) % 4
  OBVIOUS
<1>2. K!Align(n) = n + k
  BY <1>1 DEF K!Align
<1>3. PICK z : z = M!Nulls(k)
  OBVIOUS
<1>4. z \in Seq(Nat) /\ Len(z) = k
  BY <1>3 DEF M!Nulls
<1>5. M!Padded(a) = a \o z
  BY <1>1, <1>3 DEF M!Padded
<1>6. a \o z \in Seq(Nat) /\ Len(a \o z) = Len(a) + Len(z) /\ \A i \in 1..Len(a) : (a \o z)[i] = a[i]
  BY <1>4, ConcatParts
<1>7. n + k \in Nat /\ n <= n + k
  OBVIOUS
<1> QED  BY <1>2, <1>4, <1>5, <1>6, <1>7

\* s is a of n bytes and then b of m.
Joined(s, a, n, b, m) ==
  /\ Bytes(s, n + m)
  /\ \A i \in 1..n : s[i] = a[i]
  /\ \A i \in 1..m : s[n + i] = b[i]

\* Bytes behind bytes.
LEMMA JoinBytes ==
  \A n \in Nat, m \in Nat : \A a, b : Bytes(a, n) /\ Bytes(b, m) => Joined(a \o b, a, n, b, m)
<1> SUFFICES ASSUME NEW n \in Nat, NEW m \in Nat, NEW a, NEW b, Bytes(a, n), Bytes(b, m)
             PROVE  Joined(a \o b, a, n, b, m)
  OBVIOUS
<1>1. a \in Seq(Nat)
  BY DEF Bytes
<1>2. b \in Seq(Nat)
  BY DEF Bytes
<1>3. Len(a) = n /\ Len(b) = m
  BY DEF Bytes
<1>4. /\ a \o b \in Seq(Nat) /\ Len(a \o b) = Len(a) + Len(b)
      /\ \A i \in 1..Len(a) : (a \o b)[i] = a[i]
      /\ \A i \in 1..Len(b) : (a \o b)[Len(a) + i] = b[i]
  BY <1>1, <1>2, ConcatParts
<1> QED  BY <1>3, <1>4, Zenon DEF Bytes, Joined

\* The bytes of a number.
LEMMA LEBytes == \A n \in Nat : Bytes(M!LE(n, 4), 4) /\ Bytes(M!LE(n, 2), 2)
BY LEIs, ZenonT(60) DEF Bytes

\* A header of bytes.
LEMMA HeaderBytes ==
  ASSUME NEW name, NEW k \in Nat, Bytes(name, k), NEW len \in Nat, NEW w, w = k + 8
  PROVE  Bytes(Header(name, len), w) /\ \A i \in 1..k : Header(name, len)[i] = name[i]
<1>1. name \in Seq(Nat)
  BY DEF Bytes
<1>2. Len(name) = k
  BY DEF Bytes
<1>3. /\ Header(name, len) \in Seq(Nat) /\ Len(Header(name, len)) = k + 8
      /\ \A i \in 1..k : Header(name, len)[i] = name[i]
  BY <1>1, <1>2, HeaderIs
<1> QED  BY <1>3, Zenon DEF Bytes

\* Bytes among bytes.
LEMMA PatchBytes ==
  \A n \in Nat, w \in Nat, at0 \in Nat : \A a, field :
    at0 + w <= n /\ Bytes(a, n) /\ Bytes(field, w)
      => Patched(M!Patch(a, at0, field), a, n, at0, field, w)
<1> SUFFICES ASSUME NEW n \in Nat, NEW w \in Nat, NEW at0 \in Nat, NEW a, NEW field,
                    at0 + w <= n, Bytes(a, n), Bytes(field, w)
             PROVE  Patched(M!Patch(a, at0, field), a, n, at0, field, w)
  OBVIOUS
<1>1. a \in Seq(Nat)
  BY DEF Bytes
<1>2. field \in Seq(Nat)
  BY DEF Bytes
<1>3. Len(a) = n /\ Len(field) = w
  BY DEF Bytes
<1>4. at0 + w <= Len(a)
  BY <1>3
<1>5. at0 \in Nat /\ w \in Nat /\ Len(field) = w
  BY <1>3
<1>6. Patched(M!Patch(a, at0, field), a, Len(a), at0, field, w)
  BY <1>1, <1>2, <1>4, <1>5, PatchIs
<1> QED  BY <1>3, <1>6, Zenon

\* Padded bytes.
LEMMA PaddedBytes ==
  ASSUME NEW n \in Nat, NEW a, Bytes(a, n)
  PROVE  /\ Bytes(M!Padded(a), K!Align(n)) /\ K!Align(n) \in Nat /\ n <= K!Align(n)
         /\ \A i \in 1..n : M!Padded(a)[i] = a[i]
<1>1. a \in Seq(Nat)
  BY DEF Bytes
<1>2. Len(a) = n
  BY DEF Bytes
<1>3. /\ M!Padded(a) \in Seq(Nat) /\ Len(M!Padded(a)) = K!Align(n)
      /\ K!Align(n) \in Nat /\ n <= K!Align(n)
      /\ \A i \in 1..n : M!Padded(a)[i] = a[i]
  BY <1>1, <1>2, PaddedIs
<1> QED  BY <1>3, Zenon DEF Bytes

\* p is the first tag: its name, twelve bytes of lengths and pointers, its data.
FirstOf(p, tag, seq, n, d1) ==
  /\ M!append_tag(M!MuxPacket(seq), tag, d1, 0) = Build(seq, p, 12)
  /\ Bytes(p, 16 + n)
  /\ \A i \in 1..8 : p[i] = FirstName(tag, seq)[i]
  /\ \A i \in 1..n : p[16 + i] = d1[i]

\* append_tag makes one.
LEMMA FirstTag ==
  ASSUME NEW tag, Bytes(tag, 4), NEW seq \in 0..255, NEW n \in Nat, NEW d1, Bytes(d1, n)
  PROVE  \E p : FirstOf(p, tag, seq, n, d1)
<1>1. PICK name : name = FirstName(tag, seq)
  OBVIOUS
<1>2. Bytes(name, 8)
  <2>1. tag \in Seq(Nat)
    BY DEF Bytes
  <2>2. Len(tag) = 4
    BY DEF Bytes
  <2> QED  BY <1>1, <2>1, <2>2, FirstNameIs DEF Bytes
<1>3. Len(d1) = n /\ Len(name) = 8
  BY <1>2 DEF Bytes
<1>4. PICK len \in Nat : len = Len(name) + 8 + Len(d1)
  BY <1>3
<1>5. PICK h : h = Header(name, len)
  OBVIOUS
<1>6. Bytes(h, 16) /\ \A i \in 1..8 : h[i] = name[i]
  <2>1. 8 \in Nat /\ 16 = 8 + 8
    OBVIOUS
  <2> QED  BY <1>2, <1>5, <2>1, HeaderBytes
<1>7. PICK p : p = h \o d1
  OBVIOUS
<1>8. /\ Bytes(p, 16 + n)
      /\ \A i \in 1..16 : p[i] = h[i]
      /\ \A i \in 1..n : p[16 + i] = d1[i]
  <2>1. 16 \in Nat
    OBVIOUS
  <2>2. Joined(h \o d1, h, 16, d1, n)
    BY <1>6, <2>1, JoinBytes
  <2> QED  BY <1>7, <2>2 DEF Joined
<1>9. \A i \in 1..8 : p[i] = name[i]
  <2>1. \A i \in 1..8 : i \in 1..16
    OBVIOUS
  <2> QED  BY <1>6, <1>8, <2>1
<1>10. M!append_tag(M!MuxPacket(seq), tag, d1, 0) = Build(seq, p, 12)
  <2>1. h \in Seq(Nat)
    BY <1>6 DEF Bytes
  <2>2. <<>> \o h = h
    BY <2>1, ConcatEmptySeq
  <2>3. Len(h) = 16 /\ Len(<<>>) = 0
    BY <1>6 DEF Bytes
  <2>4. 0 + 16 - 4 = 12
    OBVIOUS
  <2>5. M!append_tag(M!MuxPacket(seq), tag, d1, 0)
          = Build(seq, (<<>> \o h) \o d1, Len(<<>>) + Len(h) - 4)
    BY <1>1, <1>4, <1>5, AppendTagIs, Zenon
  <2> QED  BY <1>7, <2>2, <2>3, <2>4, <2>5, Zenon
<1> QED  BY <1>1, <1>8, <1>9, <1>10, Zenon DEF FirstOf

\* q has a second tag behind p: the first one's data is padded and its pointer
\* set.
SecondOf(q, ptr, p, seq, n, tag2, m, d2, up) ==
  /\ M!append_tag(Build(seq, p, 12), tag2, d2, 0) = Build(seq, q, ptr)
  /\ up \in Nat /\ 16 + n <= up /\ Bytes(q, (up + 12) + m)
  /\ \A i \in 1..12 : q[i] = p[i]
  /\ \A i \in 1..4 : q[12 + i] = M!LE(up, 4)[i]
  /\ \A i \in 17..(16 + n) : q[i] = p[i]
  /\ \A i \in 1..4 : q[up + i] = tag2[i]
  /\ \A i \in 1..m : q[(up + 12) + i] = d2[i]

\* append_tag adds one.
LEMMA SecondTag ==
  ASSUME NEW seq, NEW n \in Nat, NEW p, Bytes(p, 16 + n), NEW tag2, Bytes(tag2, 4),
         NEW m \in Nat, NEW d2, Bytes(d2, m), NEW up, up = K!Align(16 + n)
  PROVE  \E q, ptr : SecondOf(q, ptr, p, seq, n, tag2, m, d2, up)
<1>1. PICK k \in Nat : k = 16 + n
  OBVIOUS
<1>2. PICK al : al = M!Padded(p)
  OBVIOUS
<1>3. /\ Bytes(al, up) /\ up \in Nat /\ k <= up
      /\ \A i \in 1..k : al[i] = p[i]
  BY <1>1, <1>2, PaddedBytes, Zenon
<1>4. 16 <= k /\ 16 <= up /\ up + 12 \in Nat /\ (up + 12) + m \in Nat
  BY <1>1, <1>3
<1>5. PICK le : le = M!LE(up, 4)
  OBVIOUS
<1>6. Bytes(le, 4)
  BY <1>3, <1>5, LEBytes
<1>7. PICK be : be = M!Patch(al, 12, le)
  OBVIOUS
<1>8. /\ Bytes(be, up)
      /\ \A i \in 1..12 : be[i] = al[i]
      /\ \A i \in 1..4 : be[12 + i] = le[i]
      /\ \A i \in (12 + 4 + 1)..up : be[i] = al[i]
  <2>1. 12 \in Nat /\ 4 \in Nat /\ 12 + 4 <= up
    BY <1>3, <1>4
  <2>2. Patched(M!Patch(al, 12, le), al, up, 12, le, 4)
    BY <1>3, <1>6, <2>1, PatchBytes
  <2> QED  BY <1>7, <2>2, Zenon DEF Patched
<1>9. Len(tag2) = 4 /\ Len(d2) = m
  BY DEF Bytes
<1>10. PICK len \in Nat : len = Len(tag2) + 8 + Len(d2)
  BY <1>9
<1>11. PICK h : h = Header(tag2, len)
  OBVIOUS
<1>12. Bytes(h, 12) /\ \A i \in 1..4 : h[i] = tag2[i]
  <2>1. 4 \in Nat /\ 12 = 4 + 8
    OBVIOUS
  <2> QED  BY <1>11, <2>1, HeaderBytes, Zenon
<1>13. PICK bh : bh = be \o h
  OBVIOUS
<1>14. /\ Bytes(bh, up + 12)
       /\ \A i \in 1..up : bh[i] = be[i]
       /\ \A i \in 1..12 : bh[up + i] = h[i]
  <2>1. 12 \in Nat
    OBVIOUS
  <2>2. Joined(be \o h, be, up, h, 12)
    BY <1>3, <1>8, <1>12, <2>1, JoinBytes
  <2> QED  BY <1>13, <2>2, Zenon DEF Joined
<1>15. PICK q : q = bh \o d2
  OBVIOUS
<1>16. /\ Bytes(q, (up + 12) + m)
       /\ \A i \in 1..(up + 12) : q[i] = bh[i]
       /\ \A i \in 1..m : q[(up + 12) + i] = d2[i]
  <2>1. Joined(bh \o d2, bh, up + 12, d2, m)
    BY <1>4, <1>14, JoinBytes
  <2> QED  BY <1>15, <2>1, Zenon DEF Joined
<1>17. \A i \in 1..up : q[i] = be[i]
  <2>1. \A i \in 1..up : i \in 1..(up + 12)
    BY <1>3
  <2> QED  BY <1>14, <1>16, <2>1, Zenon
<1>18. \A i \in 1..12 : q[i] = p[i]
  <2>1. \A i \in 1..12 : i \in 1..up /\ i \in 1..k
    BY <1>3, <1>4
  <2> QED  BY <1>3, <1>8, <1>17, <2>1, Zenon
<1>19. \A i \in 1..4 : q[12 + i] = le[i]
  <2>1. \A i \in 1..4 : 12 + i \in 1..up
    BY <1>3, <1>4
  <2> QED  BY <1>8, <1>17, <2>1, Zenon
<1>20. \A i \in 17..k : q[i] = p[i]
  <2>1. \A i \in 17..k : i \in 1..up /\ i \in 1..k /\ i \in (12 + 4 + 1)..up
    BY <1>3, <1>4
  <2> QED  BY <1>3, <1>8, <1>17, <2>1, Zenon
<1>21. \A i \in 1..4 : q[up + i] = tag2[i]
  <2>1. \A i \in 1..4 : i \in 1..12 /\ up + i \in 1..(up + 12)
    BY <1>3
  <2> QED  BY <1>12, <1>14, <1>16, <2>1, Zenon
<1>22. PICK ptr : ptr = Len(be) + Len(h) - 4
  OBVIOUS
<1>23. M!append_tag(Build(seq, p, 12), tag2, d2, 0) = Build(seq, q, ptr)
  <2>1. p # <<>>
    <3>1. 0 # 16 + n /\ Len(<<>>) = 0
      OBVIOUS
    <3> QED  BY <3>1, Zenon DEF Bytes
  <2>2. M!append_tag(Build(seq, p, 12), tag2, d2, 0)
          = LET aligned == M!Padded(p)
                before == M!Patch(aligned, 12, M!LE(Len(aligned), 4))
                hdr == Header(tag2, Len(tag2) + 8 + Len(d2))
            IN Build(seq, (before \o hdr) \o d2, Len(before) + Len(hdr) - 4)
    <3>1. M!append_tag(Build(seq, p, 12), tag2, d2, 0) = Tagged(seq, p, 12, tag2, d2)
      BY <2>1, AppendTagIs, ZenonT(60)
    <3> QED  BY <3>1, Zenon DEF Tagged
  <2>3. Len(al) = up
    BY <1>3 DEF Bytes
  <2> QED  BY <1>2, <1>5, <1>7, <1>10, <1>11, <1>13, <1>15, <1>22, <2>2, <2>3, Zenon
<1>24. SecondOf(q, ptr, p, seq, n, tag2, m, d2, up)
  BY <1>1, <1>3, <1>5, <1>12, <1>16, <1>18, <1>19, <1>20, <1>21, <1>23, Zenon DEF SecondOf
<1> QED  BY <1>24, Zenon

\* Such a frame is what append_tag twice and get_packet make.
LEMMA LaidOut ==
  ASSUME NEW tag, Bytes(tag, 4), NEW tag2, Bytes(tag2, 4), NEW seq \in 0..255,
         NEW n \in Nat, NEW d1, Bytes(d1, n), NEW m \in Nat, NEW d2, Bytes(d2, m)
  PROVE  Laid(M!get_packet(M!append_tag(M!append_tag(M!MuxPacket(seq), tag, d1, 0), tag2, d2, 0)),
              tag, seq, d1, K!Align(16 + n), tag2, d2)
<1>0. PICK p : FirstOf(p, tag, seq, n, d1)
  BY FirstTag
<1>1. /\ M!append_tag(M!MuxPacket(seq), tag, d1, 0) = Build(seq, p, 12)
      /\ Bytes(p, 16 + n)
      /\ \A i \in 1..8 : p[i] = FirstName(tag, seq)[i]
      /\ \A i \in 1..n : p[16 + i] = d1[i]
  BY <1>0, Zenon DEF FirstOf
<1>2. PICK up : up = K!Align(16 + n)
  OBVIOUS
<1>a. PICK q, ptr : SecondOf(q, ptr, p, seq, n, tag2, m, d2, up)
  BY <1>1, <1>2, SecondTag
<1>3.      /\ M!append_tag(Build(seq, p, 12), tag2, d2, 0) = Build(seq, q, ptr)
           /\ up \in Nat /\ 16 + n <= up /\ Bytes(q, (up + 12) + m)
           /\ \A i \in 1..12 : q[i] = p[i]
           /\ \A i \in 1..4 : q[12 + i] = M!LE(up, 4)[i]
           /\ \A i \in 17..(16 + n) : q[i] = p[i]
           /\ \A i \in 1..4 : q[up + i] = tag2[i]
           /\ \A i \in 1..m : q[(up + 12) + i] = d2[i]
  BY <1>a, Zenon DEF SecondOf
<1>4. PICK k \in Nat : k = (up + 12) + m /\ 28 <= k
  BY <1>3
<1>5. PICK f : f = M!Patch(q, 8, M!LE(k, 4))
  OBVIOUS
<1>6. /\ Bytes(f, k)
      /\ \A i \in 1..8 : f[i] = q[i]
      /\ \A i \in 1..4 : f[8 + i] = M!LE(k, 4)[i]
      /\ \A i \in (8 + 4 + 1)..k : f[i] = q[i]
  <2>1. 8 \in Nat /\ 4 \in Nat /\ 8 + 4 <= k
    BY <1>4
  <2>2. Bytes(M!LE(k, 4), 4) /\ Bytes(q, k)
    BY <1>3, <1>4, LEBytes
  <2>3. Patched(M!Patch(q, 8, M!LE(k, 4)), q, k, 8, M!LE(k, 4), 4)
    BY <1>4, <2>1, <2>2, PatchBytes
  <2> QED  BY <1>5, <2>3, Zenon DEF Patched
<1>7. f = M!get_packet(M!append_tag(M!append_tag(M!MuxPacket(seq), tag, d1, 0), tag2, d2, 0))
  <2>1. Build(seq, q, ptr).packet = q
    BY BuildIs
  <2>2. Len(q) = k
    BY <1>3, <1>4 DEF Bytes
  <2> QED  BY <1>1, <1>3, <1>5, <2>1, <2>2, Zenon DEF M!get_packet
<1>8. \A i \in 1..8 : f[i] = FirstName(tag, seq)[i]
  <2>1. \A i \in 1..8 : i \in 1..12
    OBVIOUS
  <2> QED  BY <1>1, <1>3, <1>6, <2>1, Zenon
<1>9. /\ \A i \in 1..4 : f[i] = tag[i]
      /\ f[5] = 0 /\ f[6] = 0 /\ f[7] = seq /\ f[8] = 0
  <2>1. tag \in Seq(Nat)
    BY DEF Bytes
  <2>2. Len(tag) = 4
    BY DEF Bytes
  <2>3. /\ \A i \in 1..4 : FirstName(tag, seq)[i] = tag[i]
        /\ FirstName(tag, seq)[5] = 0 /\ FirstName(tag, seq)[6] = 0
        /\ FirstName(tag, seq)[7] = seq /\ FirstName(tag, seq)[8] = 0
    BY <2>1, <2>2, FirstNameIs
  <2>4. /\ \A i \in 1..4 : i \in 1..8
        /\ 5 \in 1..8 /\ 6 \in 1..8 /\ 7 \in 1..8 /\ 8 \in 1..8
    OBVIOUS
  <2> QED  BY <1>8, <2>3, <2>4, Zenon
<1>10. \A i \in 1..4 : f[12 + i] = M!LE(up, 4)[i]
  <2>1. \A i \in 1..4 : 12 + i \in (8 + 4 + 1)..k
    BY <1>4
  <2> QED  BY <1>3, <1>6, <2>1, Zenon
<1>11. \A i \in 1..n : f[16 + i] = d1[i]
  <2>1. \A i \in 1..n : 16 + i \in (8 + 4 + 1)..k /\ 16 + i \in 17..(16 + n)
    BY <1>3, <1>4
  <2> QED  BY <1>1, <1>3, <1>6, <2>1, ZenonT(60)
<1>12. \A i \in 1..4 : f[up + i] = tag2[i]
  <2>1. \A i \in 1..4 : up + i \in (8 + 4 + 1)..k
    BY <1>3, <1>4
  <2> QED  BY <1>3, <1>6, <2>1, Zenon
<1>13. \A i \in 1..m : f[(up + 12) + i] = d2[i]
  <2>1. \A i \in 1..m : (up + 12) + i \in (8 + 4 + 1)..k
    BY <1>3, <1>4
  <2> QED  BY <1>3, <1>6, <2>1, Zenon
<1>14. Len(d1) = n /\ Len(d2) = m
  BY DEF Bytes
<1>15. f \in Seq(Nat) /\ Len(f) = k
  BY <1>6 DEF Bytes
<1>16. Len(f) = up + 12 + Len(d2)
  BY <1>4, <1>14, <1>15
<1>17. \A i \in 1..4 : f[8 + i] = M!LE(Len(f), 4)[i]
  BY <1>6, <1>15, Zenon
<1>18. Laid(f, tag, seq, d1, up, tag2, d2)
  BY <1>9, <1>10, <1>11, <1>12, <1>13, <1>14, <1>15, <1>16, <1>17, Zenon DEF Laid
<1> QED  BY <1>2, <1>7, <1>18, Zenon

\* Bytes that are the same one by one are the same.
LEMMA SameBytes ==
  \A n \in Nat : \A a, b : Bytes(a, n) /\ Bytes(b, n) /\ (\A i \in 1..n : a[i] = b[i]) => a = b
<1> SUFFICES ASSUME NEW n \in Nat, NEW a, NEW b, Bytes(a, n), Bytes(b, n), \A i \in 1..n : a[i] = b[i]
             PROVE  a = b
  OBVIOUS
<1>1. a \in Seq(Nat) /\ Len(a) = n
  BY DEF Bytes
<1>2. a = [i \in 1..n |-> a[i]]
  BY <1>1
<1>3. b \in Seq(Nat) /\ Len(b) = n
  BY DEF Bytes
<1>4. b = [i \in 1..n |-> b[i]]
  BY <1>3
<1> QED  BY <1>2, <1>4

\* s is the n bytes of f behind the first ones.
Part(s, f, from, n) == Bytes(s, n) /\ \A i \in 1..n : s[i] = f[from + i]

\* SubSeq takes a part of a frame.
LEMMA PartBytes ==
  \A k \in Nat, from \in Nat, n \in Nat : \A f :
    from + n <= k /\ Bytes(f, k) => Part(SubSeq(f, from + 1, from + n), f, from, n)
<1> SUFFICES ASSUME NEW k \in Nat, NEW from \in Nat, NEW n \in Nat, NEW f,
                    from + n <= k, Bytes(f, k)
             PROVE  Part(SubSeq(f, from + 1, from + n), f, from, n)
  OBVIOUS
<1>1. PICK m \in Nat \ {0} : m = from + 1
  OBVIOUS
<1>2. PICK e \in Nat : e = from + n
  OBVIOUS
<1>3. f \in Seq(Nat)
  BY DEF Bytes
<1>4. e <= Len(f)
  BY <1>2 DEF Bytes
<1>5. PICK s : s = SubSeq(f, m, e)
  OBVIOUS
<1>6. /\ s \in Seq(Nat) /\ Len(s) = IF m <= e THEN e - m + 1 ELSE 0
      /\ \A i \in 1..(e - m + 1) : s[i] = f[m + i - 1]
  <2>1. IsPiece(s, f, m, e)
    BY <1>3, <1>4, <1>5, Piece
  <2> QED  BY <1>3, <1>4, <1>5, <2>1 DEF IsPiece
<1>7. (IF m <= e THEN e - m + 1 ELSE 0) = n /\ e - m + 1 = n
  BY <1>1, <1>2
<1>8. \A i \in 1..n : m + i - 1 = from + i
  BY <1>1
<1>9. Bytes(s, n)
  BY <1>6, <1>7, Zenon DEF Bytes
<1>10. \A i \in 1..n : s[i] = f[from + i]
  BY <1>6, <1>7, <1>8
<1>11. Part(s, f, from, n)
  BY <1>9, <1>10, Zenon DEF Part
<1> QED  BY <1>1, <1>2, <1>5, <1>11

\* A part is what it holds one by one.
LEMMA PartIs ==
  \A k \in Nat, from \in Nat, n \in Nat : \A f, d :
    /\ from + n <= k /\ Bytes(f, k) /\ Bytes(d, n)
    /\ \A i \in 1..n : f[from + i] = d[i]
    => SubSeq(f, from + 1, from + n) = d
<1> SUFFICES ASSUME NEW k \in Nat, NEW from \in Nat, NEW n \in Nat, NEW f, NEW d,
                    from + n <= k, Bytes(f, k), Bytes(d, n), \A i \in 1..n : f[from + i] = d[i]
             PROVE  SubSeq(f, from + 1, from + n) = d
  OBVIOUS
<1>1. PICK s : s = SubSeq(f, from + 1, from + n)
  OBVIOUS
<1>2. Bytes(s, n) /\ \A i \in 1..n : s[i] = f[from + i]
  BY <1>1, PartBytes DEF Part
<1>3. \A i \in 1..n : s[i] = d[i]
  BY <1>2
<1> QED  BY <1>1, <1>2, <1>3, SameBytes

\* A name is that of a frame if it is its first bytes.
LEMMA PrefixIs ==
  \A k \in Nat : \A f, tag :
    4 <= k /\ Bytes(f, k) /\ Bytes(tag, 4) =>
      (M!IsPrefix(tag, f) <=> \A i \in 1..4 : f[i] = tag[i])
<1> SUFFICES ASSUME NEW k \in Nat, NEW f, NEW tag, 4 <= k, Bytes(f, k), Bytes(tag, 4)
             PROVE  M!IsPrefix(tag, f) <=> \A i \in 1..4 : f[i] = tag[i]
  OBVIOUS
<1>1. Len(tag) = 4 /\ Len(f) = k
  BY DEF Bytes
<1>2. M!IsPrefix(tag, f) <=> SubSeq(tag, 1, 4) = SubSeq(f, 1, 4)
  BY <1>1 DEF M!IsPrefix
<1>3. 0 \in Nat /\ 4 \in Nat /\ 0 + 1 = 1 /\ 0 + 4 = 4 /\ 4 <= 4
  OBVIOUS
<1>4. PICK s : s = SubSeq(f, 1, 4)
  OBVIOUS
<1>5. Bytes(s, 4) /\ \A i \in 1..4 : s[i] = f[i]
  <2>1. /\ Bytes(SubSeq(f, 0 + 1, 0 + 4), 4)
        /\ \A i \in 1..4 : SubSeq(f, 0 + 1, 0 + 4)[i] = f[0 + i]
    BY <1>3, PartBytes DEF Part
  <2>2. \A i \in 1..4 : 0 + i = i
    OBVIOUS
  <2> QED  BY <1>3, <1>4, <2>1, <2>2
<1>6. SubSeq(tag, 1, 4) = tag
  <2>1. \A i \in 1..4 : tag[0 + i] = tag[i]
    OBVIOUS
  <2>2. SubSeq(tag, 0 + 1, 0 + 4) = tag
    BY <1>3, <2>1, PartIs
  <2> QED  BY <1>3, <2>2
<1>7. s = tag <=> \A i \in 1..4 : s[i] = tag[i]
  BY <1>5, SameBytes
<1> QED  BY <1>2, <1>4, <1>5, <1>6, <1>7

\* The four names.
LEMMA Names ==
  /\ Bytes(M!ADBH, 4) /\ Bytes(M!ADTH, 4) /\ Bytes(M!ACBH, 4) /\ Bytes(M!CMDH, 4)
  /\ M!ADBH[2] # M!ACBH[2]
<1>1. Bytes(M!ADBH, 4)
  BY DEF Bytes, M!ADBH
<1>2. Bytes(M!ADTH, 4)
  BY DEF Bytes, M!ADTH
<1>3. Bytes(M!ACBH, 4)
  BY DEF Bytes, M!ACBH
<1>4. Bytes(M!CMDH, 4)
  BY DEF Bytes, M!CMDH
<1>5. M!ADBH[2] # M!ACBH[2]
  BY DEF M!ADBH, M!ACBH
<1> QED  BY <1>1, <1>2, <1>3, <1>4, <1>5

\* The words of a first header.
Words(f, seq, k, up) == M!Word(f, 4) = 65536 * seq /\ M!Word(f, 8) = k /\ M!Word(f, 12) = up

\* A frame laid out has them.
LEMMA LaidWords ==
  \A seq \in 0..255, up \in Nat, k \in Nat : \A f, tag, d1, tag2, d2 :
    Laid(f, tag, seq, d1, up, tag2, d2) /\ Len(f) = k /\ up < K4 /\ k < K4 =>
      Words(f, seq, k, up)
<1> SUFFICES ASSUME NEW seq \in 0..255, NEW up \in Nat, NEW k \in Nat,
                    NEW f, NEW tag, NEW d1, NEW tag2, NEW d2,
                    Laid(f, tag, seq, d1, up, tag2, d2), Len(f) = k, up < K4, k < K4
             PROVE  Words(f, seq, k, up)
  BY ZenonT(60)
<1>1. M!Word(f, 4) = 65536 * seq
  <2>1. f[5] = 0 /\ f[6] = 0 /\ f[7] = seq /\ f[8] = 0
    BY Zenon DEF Laid
  <2>2. 4 + 1 = 5 /\ 4 + 2 = 6 /\ 4 + 3 = 7 /\ 4 + 4 = 8
    OBVIOUS
  <2>3. M!Word(f, 4) = f[4 + 1] + 256 * f[4 + 2] + 65536 * f[4 + 3] + 16777216 * f[4 + 4]
    BY DEF M!Word
  <2>4. M!Word(f, 4) = 0 + 256 * 0 + 65536 * seq + 16777216 * 0
    BY <2>1, <2>2, <2>3
  <2> QED  BY <2>4
<1>2. M!Word(f, 8) = k
  <2>1. \A i \in 1..4 : f[8 + i] = M!LE(k, 4)[i]
    BY Zenon DEF Laid
  <2>2. 8 \in Nat
    OBVIOUS
  <2> QED  BY <2>1, <2>2, WordReads
<1>3. M!Word(f, 12) = up
  <2>1. \A i \in 1..4 : f[12 + i] = M!LE(up, 4)[i]
    BY Zenon DEF Laid
  <2>2. 12 \in Nat
    OBVIOUS
  <2> QED  BY <2>1, <2>2, WordReads
<1> QED  BY <1>1, <1>2, <1>3 DEF Words

\* The bounds of a frame of one packet: where it begins and how long it is.
Bounds(n) == (M!LE(0, 4) \o M!LE(16, 4)) \o M!LE(n, 4)

\* They are three words.
LEMMA BoundsIs ==
  ASSUME NEW n \in Nat
  PROVE  /\ Bytes(Bounds(n), 12)
         /\ \A i \in 1..4 : Bounds(n)[4 + i] = M!LE(16, 4)[i]
         /\ \A i \in 1..4 : Bounds(n)[8 + i] = M!LE(n, 4)[i]
<1>1. PICK x : x = M!LE(0, 4)
  OBVIOUS
<1>2. PICK y : y = M!LE(16, 4)
  OBVIOUS
<1>3. PICK z : z = M!LE(n, 4)
  OBVIOUS
<1>4. Bytes(x, 4) /\ Bytes(y, 4) /\ Bytes(z, 4)
  BY <1>1, <1>2, <1>3, LEBytes
<1>5. PICK xy : xy = x \o y
  OBVIOUS
<1>6. Bytes(xy, 8) /\ \A i \in 1..4 : xy[4 + i] = y[i]
  <2>1. 4 \in Nat /\ 4 + 4 = 8
    OBVIOUS
  <2>2. Joined(x \o y, x, 4, y, 4)
    BY <1>4, <2>1, JoinBytes
  <2> QED  BY <1>5, <2>1, <2>2 DEF Joined
<1>7. PICK b : b = xy \o z
  OBVIOUS
<1>8. /\ Bytes(b, 12)
      /\ \A i \in 1..8 : b[i] = xy[i]
      /\ \A i \in 1..4 : b[8 + i] = z[i]
  <2>1. 4 \in Nat /\ 8 \in Nat /\ 8 + 4 = 12
    OBVIOUS
  <2>2. Joined(xy \o z, xy, 8, z, 4)
    BY <1>4, <1>6, <2>1, JoinBytes
  <2> QED  BY <1>7, <2>1, <2>2 DEF Joined
<1>9. \A i \in 1..4 : b[4 + i] = y[i]
  <2>1. \A i \in 1..4 : 4 + i \in 1..8
    OBVIOUS
  <2> QED  BY <1>6, <1>8, <2>1
<1>10. b = Bounds(n)
  BY <1>1, <1>2, <1>3, <1>5, <1>7 DEF Bounds
<1> QED  BY <1>2, <1>3, <1>8, <1>9, <1>10

\* The packet read_mux takes from a frame by its bounds.
Puk(f, bounds, i) ==
  SubSeq(f, M!Word(bounds, 8 * (i - 1)) + 1,
         M!Word(bounds, 8 * (i - 1)) + M!Word(bounds, 8 * (i - 1) + 4))

\* What read_mux makes of a frame with the second tag and the bounds it finds.
SecondTagOf(f) == SubSeq(f, M!Word(f, 12) + 1, Len(f))
BoundsOf(f) == SubSeq(SecondTagOf(f), 17, Len(SecondTagOf(f)))
PuksOf(f, tail, bounds) ==
  IF M!IsPrefix(M!ADBH, f) /\ M!IsPrefix(M!ADTH, tail)
  THEN [i \in 1..(Len(bounds) \div 8) |-> Puk(f, bounds, i)]
  ELSE <<>>

\* That is all it does.
LEMMA ReadMuxIs ==
  ASSUME NEW f, Len(f) <= M!ReadSize
  PROVE  M!read_mux(f) = PuksOf(f, SecondTagOf(f), BoundsOf(f))
<1>1. M!os_read(f) = f
  BY DEF M!os_read
<1> QED  BY <1>1, Zenon DEF M!read_mux, PuksOf, SecondTagOf, BoundsOf, Puk

\* A frame of one packet is read as that packet.
LEMMA PacketReads ==
  ASSUME NEW f, NEW seq, NEW n \in Nat, NEW d1, Bytes(d1, n), NEW up \in Nat,
         Laid(f, M!ADBH, seq, d1, up, M!ADTH, Bounds(n)),
         M!Word(f, 12) = up, 16 + n <= up, n < K4, Len(f) <= M!ReadSize
  PROVE  M!read_mux(f) = <<d1>>
<1>1. PICK k \in Nat : k = up + 24 /\ Bytes(f, k)
  <2>1. f \in Seq(Nat) /\ Len(f) = up + 12 + Len(Bounds(n))
    BY Zenon DEF Laid
  <2>2. Len(Bounds(n)) = 12
    BY BoundsIs DEF Bytes
  <2>3. Len(f) = up + 24
    BY <2>1, <2>2
  <2>4. Bytes(f, up + 24)
    BY <2>1, <2>3, Zenon DEF Bytes
  <2>5. up + 24 \in Nat
    OBVIOUS
  <2> QED  BY <2>4, <2>5, Zenon
<1>2. Len(f) = k
  BY <1>1 DEF Bytes
<1>3. PICK tail : tail = SubSeq(f, up + 1, up + 24)
  OBVIOUS
<1>4. Bytes(tail, 24) /\ \A i \in 1..24 : tail[i] = f[up + i]
  <2>1. 24 \in Nat /\ up + 24 <= k
    BY <1>1
  <2>2. Part(SubSeq(f, up + 1, up + 24), f, up, 24)
    BY <1>1, <2>1, PartBytes
  <2> QED  BY <1>3, <2>2, Zenon DEF Part
<1>5. PICK bounds : bounds = SubSeq(tail, 17, 24)
  OBVIOUS
<1>6. Bytes(bounds, 8) /\ \A i \in 1..8 : bounds[i] = tail[16 + i]
  <2>1. 16 \in Nat /\ 8 \in Nat /\ 24 \in Nat /\ 16 + 8 <= 24 /\ 16 + 1 = 17 /\ 16 + 8 = 24
    OBVIOUS
  <2>2. Part(SubSeq(tail, 16 + 1, 16 + 8), tail, 16, 8)
    BY <1>4, <2>1, PartBytes
  <2> QED  BY <1>5, <2>1, <2>2 DEF Part
<1>7. \A i \in 1..8 : bounds[i] = Bounds(n)[4 + i]
  <2> TAKE i \in 1..8
  <2>1. 16 + i \in 1..24 /\ up + (16 + i) = (up + 12) + (4 + i) /\ 4 + i \in 1..12
    OBVIOUS
  <2>2. Len(Bounds(n)) = 12
    BY BoundsIs DEF Bytes
  <2>3. \A j \in 1..Len(Bounds(n)) : f[(up + 12) + j] = Bounds(n)[j]
    BY Zenon DEF Laid
  <2>4. f[(up + 12) + (4 + i)] = Bounds(n)[4 + i]
    BY <2>1, <2>2, <2>3
  <2>5. bounds[i] = f[up + (16 + i)]
    BY <1>4, <1>6, <2>1
  <2> QED  BY <2>1, <2>4, <2>5
<1>8. M!Word(bounds, 0) = 16
  <2>1. \A i \in 1..4 : 0 + i \in 1..8 /\ 0 + i = i
    OBVIOUS
  <2>2. \A i \in 1..4 : bounds[0 + i] = M!LE(16, 4)[i]
    BY <1>7, <2>1, BoundsIs
  <2>3. 16 \in Nat /\ 16 < K4 /\ 0 \in Nat
    BY DEF K4
  <2> QED  BY <2>2, <2>3, WordReads
<1>9. M!Word(bounds, 4) = n
  <2>1. \A i \in 1..4 : 4 + i \in 1..8 /\ 4 + (4 + i) = 8 + i
    OBVIOUS
  <2>2. \A i \in 1..4 : bounds[4 + i] = M!LE(n, 4)[i]
    BY <1>7, <2>1, BoundsIs
  <2>3. 4 \in Nat
    OBVIOUS
  <2> QED  BY <2>2, <2>3, WordReads
<1>10. Puk(f, bounds, 1) = d1
  <2>1. 8 * (1 - 1) = 0 /\ 0 + 4 = 4
    OBVIOUS
  <2>2. Puk(f, bounds, 1) = SubSeq(f, M!Word(bounds, 0) + 1, M!Word(bounds, 0) + M!Word(bounds, 4))
    BY <2>1 DEF Puk
  <2>3. Puk(f, bounds, 1) = SubSeq(f, 16 + 1, 16 + n)
    BY <1>8, <1>9, <2>2
  <2>4. Len(d1) = n
    BY DEF Bytes
  <2>5. \A i \in 1..Len(d1) : f[16 + i] = d1[i]
    BY Zenon DEF Laid
  <2>6. \A i \in 1..n : f[16 + i] = d1[i]
    BY <2>4, <2>5
  <2>7. 16 \in Nat /\ 16 + n <= k
    BY <1>1
  <2>8. SubSeq(f, 16 + 1, 16 + n) = d1
    BY <1>1, <2>6, <2>7, PartIs
  <2> QED  BY <2>3, <2>8
<1>11. M!IsPrefix(M!ADBH, f)
  <2>1. \A i \in 1..4 : f[i] = M!ADBH[i]
    BY Zenon DEF Laid
  <2>2. 4 <= k
    BY <1>1
  <2> QED  BY <1>1, <2>1, <2>2, Names, PrefixIs
<1>12. M!IsPrefix(M!ADTH, tail)
  <2>1. \A i \in 1..4 : f[up + i] = M!ADTH[i]
    BY Zenon DEF Laid
  <2>2. 4 <= 24 /\ 24 \in Nat /\ \A i \in 1..4 : i \in 1..24
    OBVIOUS
  <2>3. \A i \in 1..4 : tail[i] = M!ADTH[i]
    BY <1>4, <2>1, <2>2
  <2> QED  BY <1>4, <2>2, <2>3, Names, PrefixIs
<1>13. M!read_mux(f) = [i \in 1..(Len(bounds) \div 8) |-> Puk(f, bounds, i)]
  <2>1. Len(f) = up + 24
    BY <1>1, <1>2
  <2>2. tail = SecondTagOf(f)
    BY <1>3, <2>1 DEF SecondTagOf
  <2>3. Len(tail) = 24
    BY <1>4 DEF Bytes
  <2>4. bounds = BoundsOf(f)
    BY <1>5, <2>2, <2>3 DEF BoundsOf
  <2>5. M!read_mux(f) = PuksOf(f, tail, bounds)
    BY <2>2, <2>4, ReadMuxIs
  <2> QED  BY <1>11, <1>12, <2>5, Zenon DEF PuksOf
<1>14. Len(bounds) \div 8 = 1
  BY <1>6 DEF Bytes
<1>15. [i \in 1..1 |-> Puk(f, bounds, i)] = <<d1>>
  <2> DEFINE e(i) == Puk(f, bounds, i)
  <2>1. e(1) = d1
    BY <1>10
  <2> HIDE DEF e
  <2>2. [i \in 1..1 |-> e(i)] = <<d1>>
    BY <2>1
  <2> QED  BY <2>2 DEF e
<1> QED  BY <1>13, <1>14, <1>15

\* What is read of a frame of one packet, laid out as the driver lays it out.
PacketRead(seq, packet, f) ==
  LET adth == K!Align(K!TagEnd(0, 0) + K!Pad + Len(packet))
  IN /\ Len(f) <= M!ReadSize => M!read_mux(f) = <<M!Nulls(K!Pad) \o packet>>
     /\ M!Word(f, 4) = 65536 * ((seq + 1) % 256)
     /\ M!Word(f, 12) = adth
     /\ M!Word(f, 8) = Len(f)
     /\ Len(f) = K!TagEnd(K!TagEnd(0, 0) + K!Pad + Len(packet), K!AdthWord + K!BoundsSize)

\* The driver's sizes, as the numbers they are.
LEMMA DriverSizes ==
  /\ K!TagEnd(0, 0) = 16 /\ K!Pad = 16 /\ K!AdthWord + K!BoundsSize = 12
  /\ K!TagEnd(16, K!CmdhArgs) = 44 /\ K!Align(16) = 16
  /\ \A n \in Nat : n # 0 => K!TagEnd(n, 12) = K!Align(n) + 12 + 12
  /\ \A n \in Nat : K!Align(n) \in Nat /\ n <= K!Align(n) /\ K!Align(n) <= n + 3
<1>1. K!Align(0) = 0 /\ K!Align(16) = 16
  BY DEF K!Align
<1>2. K!TagEnd(0, 0) = 16 /\ K!TagEnd(16, K!CmdhArgs) = 44
  BY <1>1 DEF K!TagEnd, K!HeaderSize, K!FirstHeader, K!NextHeader, K!CmdhArgs
<1>3. K!Pad = 16 /\ K!AdthWord + K!BoundsSize = 12
  BY DEF K!Pad, K!AdthWord, K!BoundsSize
<1>4. \A n \in Nat : K!Align(n) \in Nat /\ n <= K!Align(n) /\ K!Align(n) <= n + 3
  BY DEF K!Align
<1>5. ASSUME NEW n \in Nat, n # 0 PROVE K!TagEnd(n, 12) = K!Align(n) + 12 + 12
  BY <1>4, <1>5 DEF K!TagEnd, K!HeaderSize, K!NextHeader
<1> QED  BY <1>1, <1>2, <1>3, <1>4, <1>5

\* A sequence over a set is one over a larger set.
LEMMA WiderSeq ==
  \A S, W, s : (\A x \in S : x \in W) /\ s \in Seq(S) => s \in Seq(W)
<1> SUFFICES ASSUME NEW S, NEW W, NEW s, \A x \in S : x \in W, s \in Seq(S)
             PROVE  s \in Seq(W)
  OBVIOUS
<1>1. PICK n \in Nat : n = Len(s)
  OBVIOUS
<1>2. s = [i \in 1..n |-> s[i]]
  BY <1>1
<1>3. \A i \in 1..n : s[i] \in S
  BY <1>1
<1>4. \A i \in 1..n : s[i] \in W
  BY <1>3
<1>5. [i \in 1..n |-> s[i]] \in Seq(W)
  BY <1>4
<1> QED  BY <1>2, <1>5

\* package makes a frame of its packet that read_mux reads.
LEMMA PackageReads ==
  ASSUME NEW packet \in Packets, NEW seq \in Seqs
  PROVE  PacketRead(seq, packet, M!package(seq, packet)) /\ Len(M!package(seq, packet)) # 0
<1>1. PICK l \in Nat : Bytes(packet, l) /\ l + 32 < 65536
  <2>1. packet \in Seq(0..255) /\ Len(packet) + 32 < 65536
    BY PacketsAssumption
  <2>2. Len(packet) \in Nat
    BY <2>1
  <2>3. packet \in Seq(Nat)
    <3>1. PICK S : S = 0..255
      OBVIOUS
    <3>2. PICK N : N = Nat
      OBVIOUS
    <3>3. \A x \in S : x \in N
      BY <3>1, <3>2
    <3>4. packet \in Seq(S)
      BY <2>1, <3>1
    <3>5. packet \in Seq(N)
      BY <3>3, <3>4, WiderSeq, Zenon
    <3> QED  BY <3>2, <3>5
  <2> QED  BY <2>1, <2>2, <2>3 DEF Bytes
<1>2. PICK s \in 0..255 : s = (seq + 1) % 256 /\ s = M!NextSeq(seq)
  <2>1. seq \in 0..255
    BY SeqsAssumption
  <2>2. (seq + 1) % 256 \in 0..255
    BY <2>1
  <2> QED  BY <2>2 DEF M!NextSeq
<1>3. PICK n \in Nat : n = 16 + l /\ n < K4 /\ n + 16 + 27 < K4
  BY <1>1 DEF K4
<1>4. PICK d1 : d1 = M!Nulls(16) \o packet
  OBVIOUS
<1>5. Bytes(d1, n)
  <2>1. Bytes(M!Nulls(16), 16) /\ 16 \in Nat
    <3>1. PICK k \in Nat : k = 16
      OBVIOUS
    <3>2. M!Nulls(k) \in Seq(Nat) /\ Len(M!Nulls(k)) = k
      BY DEF M!Nulls
    <3>3. Bytes(M!Nulls(k), k)
      BY <3>2 DEF Bytes
    <3> QED  BY <3>1, <3>3
  <2>2. Joined(M!Nulls(16) \o packet, M!Nulls(16), 16, packet, l)
    BY <1>1, <2>1, JoinBytes
  <2> QED  BY <1>3, <1>4, <2>2 DEF Joined
<1>6. PICK up \in Nat : up = K!Align(16 + n) /\ 16 + n <= up /\ up <= 16 + n + 3
  <2>1. 16 + n \in Nat
    OBVIOUS
  <2> QED  BY <2>1, DriverSizes
<1>7. PICK f : f = M!package(seq, packet)
  OBVIOUS
<1>8. Laid(f, M!ADBH, s, d1, up, M!ADTH, Bounds(n))
  <2>1. Len(d1) = n
    BY <1>5 DEF Bytes
  <2>2. f = M!get_packet(M!append_tag(M!append_tag(M!MuxPacket(M!NextSeq(seq)), M!ADBH, d1, 0),
                                      M!ADTH, (M!LE(0, 4) \o M!LE(16, 4)) \o M!LE(Len(d1), 4), 0))
    BY <1>4, <1>7, Zenon DEF M!package
  <2>3. f = M!get_packet(M!append_tag(M!append_tag(M!MuxPacket(s), M!ADBH, d1, 0), M!ADTH, Bounds(n), 0))
    BY <1>2, <2>1, <2>2 DEF Bounds
  <2>4. Bytes(M!ADBH, 4) /\ Bytes(M!ADTH, 4) /\ Bytes(Bounds(n), 12) /\ 12 \in Nat
    BY Names, BoundsIs
  <2>5. Laid(M!get_packet(M!append_tag(M!append_tag(M!MuxPacket(s), M!ADBH, d1, 0), M!ADTH, Bounds(n), 0)),
             M!ADBH, s, d1, K!Align(16 + n), M!ADTH, Bounds(n))
    BY <1>5, <2>4, LaidOut
  <2> QED  BY <1>6, <2>3, <2>5
<1>9. PICK k \in Nat : k = up + 12 + 12 /\ Len(f) = k
  <2>1. Len(f) = up + 12 + Len(Bounds(n))
    BY <1>8, Zenon DEF Laid
  <2>2. Len(Bounds(n)) = 12
    BY BoundsIs DEF Bytes
  <2> QED  BY <2>1, <2>2
<1>10. M!Word(f, 4) = 65536 * s /\ M!Word(f, 8) = k /\ M!Word(f, 12) = up
  <2>1. up < K4 /\ k < K4
    BY <1>3, <1>6, <1>9 DEF K4
  <2>2. Len(f) = k
    BY <1>9
  <2>3. Words(f, s, k, up)
    BY <1>8, <2>1, <2>2, LaidWords
  <2> QED  BY <2>3 DEF Words
<1>11. Len(f) <= M!ReadSize => M!read_mux(f) = <<d1>>
  BY <1>3, <1>5, <1>6, <1>8, <1>10, PacketReads
<1>12. Len(packet) = l /\ K!TagEnd(0, 0) + K!Pad + Len(packet) = 16 + n
  <2>1. Len(packet) = l
    BY <1>1 DEF Bytes
  <2> QED  BY <1>3, <2>1, DriverSizes
<1>13. k = K!TagEnd(16 + n, K!AdthWord + K!BoundsSize)
  <2>1. 16 + n \in Nat /\ 16 + n # 0
    OBVIOUS
  <2> QED  BY <1>6, <1>9, <2>1, DriverSizes
<1>14. PacketRead(seq, packet, f)
  <2>1. Len(f) <= M!ReadSize => M!read_mux(f) = <<M!Nulls(K!Pad) \o packet>>
    BY <1>4, <1>11, DriverSizes
  <2>2. K!Align(K!TagEnd(0, 0) + K!Pad + Len(packet)) = up
    BY <1>6, <1>12
  <2>3. /\ M!Word(f, 4) = 65536 * ((seq + 1) % 256)
        /\ M!Word(f, 12) = up
        /\ M!Word(f, 8) = Len(f)
    BY <1>2, <1>9, <1>10
  <2>4. Len(f) = K!TagEnd(K!TagEnd(0, 0) + K!Pad + Len(packet), K!AdthWord + K!BoundsSize)
    <3>1. K!TagEnd(0, 0) + K!Pad + Len(packet) = 16 + n
      BY <1>12
    <3>2. Len(f) = k
      BY <1>9
    <3> QED  BY <1>13, <3>1, <3>2, Zenon
  <2> QED  BY <2>1, <2>2, <2>3, <2>4 DEF PacketRead
<1> QED  BY <1>7, <1>9, <1>14

\* What is read of the open command, as long as the driver's.
OpenRead(f) ==
  /\ M!read_mux(f) = <<>>
  /\ M!Word(f, 8) = Len(f) /\ Len(f) = K!TagEnd(K!TagEnd(0, 0), K!CmdhArgs)

\* __init__'s open command is not taken for a frame of packets.
LEMMA OpenReads == OpenRead(M!OpenCommand) /\ Len(M!OpenCommand) # 0
<1>1. PICK f : f = M!OpenCommand
  OBVIOUS
<1>2. PICK args : args = M!LE(1, 4) \o M!Nulls(12)
  OBVIOUS
<1>3. Bytes(args, 16)
  <2>1. PICK k \in Nat : k = 12
    OBVIOUS
  <2>2. M!Nulls(k) \in Seq(Nat) /\ Len(M!Nulls(k)) = k
    BY DEF M!Nulls
  <2>3. Bytes(M!Nulls(k), k)
    BY <2>2 DEF Bytes
  <2>4. Bytes(M!LE(1, 4), 4) /\ 4 \in Nat /\ 4 + k = 16
    BY <2>1, LEBytes
  <2>5. Joined(M!LE(1, 4) \o M!Nulls(k), M!LE(1, 4), 4, M!Nulls(k), k)
    BY <2>3, <2>4, JoinBytes
  <2>6. Bytes(M!LE(1, 4) \o M!Nulls(k), 4 + k)
    BY <2>5 DEF Joined
  <2> QED  BY <1>2, <2>1, <2>4, <2>6
<1>4. PICK none : none = <<>>
  OBVIOUS
<1>5. Bytes(none, 0)
  BY <1>4 DEF Bytes
<1>6. Laid(f, M!ACBH, 0, none, 16, M!CMDH, args)
  <2>1. f = M!get_packet(M!append_tag(M!append_tag(M!MuxPacket(0), M!ACBH, none, 0), M!CMDH, args, 0))
    BY <1>1, <1>2, <1>4, Zenon DEF M!OpenCommand
  <2>2. 0 \in Nat /\ 0 \in 0..255 /\ 16 \in Nat /\ 16 + 0 = 16
    OBVIOUS
  <2>3. Laid(M!get_packet(M!append_tag(M!append_tag(M!MuxPacket(0), M!ACBH, none, 0), M!CMDH, args, 0)),
             M!ACBH, 0, none, K!Align(16 + 0), M!CMDH, args)
    BY <1>3, <1>5, <2>2, Names, LaidOut
  <2> QED  BY <2>1, <2>2, <2>3, DriverSizes
<1>7. f \in Seq(Nat) /\ Len(f) = 44
  <2>1. f \in Seq(Nat) /\ Len(f) = 16 + 12 + Len(args)
    BY <1>6, Zenon DEF Laid
  <2>2. Len(args) = 16
    BY <1>3 DEF Bytes
  <2> QED  BY <2>1, <2>2
<1>8. Bytes(f, 44)
  BY <1>7, Zenon DEF Bytes
<1>9. M!Word(f, 8) = 44
  <2>1. 0 \in 0..255 /\ 16 \in Nat /\ 44 \in Nat /\ 16 < K4 /\ 44 < K4
    BY DEF K4
  <2>2. Len(f) = 44
    BY <1>7
  <2>3. Words(f, 0, 44, 16)
    BY <1>6, <2>1, <2>2, LaidWords
  <2> QED  BY <2>3 DEF Words
<1>10. ~M!IsPrefix(M!ADBH, f)
  <2>1. \A i \in 1..4 : f[i] = M!ACBH[i]
    BY <1>6, Zenon DEF Laid
  <2>2. 2 \in 1..4 /\ 44 \in Nat /\ 4 <= 44
    OBVIOUS
  <2>3. f[2] # M!ADBH[2]
    BY <2>1, <2>2, Names
  <2>4. Bytes(M!ADBH, 4)
    BY Names
  <2>5. M!IsPrefix(M!ADBH, f) <=> \A i \in 1..4 : f[i] = M!ADBH[i]
    BY <1>8, <2>2, <2>4, PrefixIs
  <2> QED  BY <2>2, <2>3, <2>5
<1>11. M!read_mux(f) = <<>>
  <2>1. M!read_mux(f) = PuksOf(f, SecondTagOf(f), BoundsOf(f))
    <3>1. Len(f) <= M!ReadSize
      BY <1>7 DEF M!ReadSize
    <3> QED  BY <3>1, ReadMuxIs
  <2> QED  BY <1>10, <2>1, Zenon DEF PuksOf
<1>12. K!TagEnd(K!TagEnd(0, 0), K!CmdhArgs) = 44
  BY DriverSizes
<1>13. OpenRead(f)
  BY <1>7, <1>9, <1>11, <1>12 DEF OpenRead
<1> QED  BY <1>1, <1>7, <1>13

\* What mux.py makes of a job.
Framing(j) == IF j.what = "packet" THEN M!package(j.seq, j.packet) ELSE M!OpenCommand

\* A frame is made in one step and read in another.
FrameInv ==
  job.what \in {"packet", "open"} =>
    /\ sent \in {0, 1}
    /\ sent = 0 => at = 0
    /\ sent # 0 => /\ wire = Framing(job)
                   /\ at = 0 \/ back = [ok |-> TRUE, packets |-> M!read_mux(wire)]

\* The invariant says what MuxReadable says.
LEMMA FrameInvSuffices ==
  ASSUME JobInv, FrameInv
  PROVE  MuxReadable
<1>1. ASSUME HasRead("packet")
      PROVE  PacketRead(job.seq, job.packet, wire) /\ back.packets = M!read_mux(wire)
  <2>1. job.what = "packet" /\ sent = 1 /\ at = Len(wire)
    BY <1>1 DEF HasRead, Written
  <2>2. job.packet \in Packets /\ job.seq \in Seqs
    BY <2>1, JobIs DEF JobInv, Packet
  <2>a. wire = M!package(job.seq, job.packet)
    BY <2>1 DEF FrameInv, Framing
  <2>3. PacketRead(job.seq, job.packet, wire) /\ Len(wire) # 0
    BY <2>2, <2>a, PackageReads
  <2>4. back = [ok |-> TRUE, packets |-> M!read_mux(wire)]
    BY <2>1, <2>3 DEF FrameInv
  <2>5. back.packets = M!read_mux(wire)
    BY <2>4
  <2> QED  BY <2>3, <2>5
<1>2. ASSUME HasRead("open")
      PROVE  OpenRead(wire) /\ back.packets = M!read_mux(wire)
  <2>1. job.what = "open" /\ sent = 1 /\ at = Len(wire)
    BY <1>2 DEF HasRead, Written
  <2>2. wire = M!OpenCommand
    BY <2>1 DEF FrameInv, Framing
  <2>3. OpenRead(wire) /\ Len(wire) # 0
    BY <2>2, OpenReads
  <2>4. back = [ok |-> TRUE, packets |-> M!read_mux(wire)]
    BY <2>1, <2>3 DEF FrameInv
  <2>5. back.packets = M!read_mux(wire)
    BY <2>4
  <2> QED  BY <2>3, <2>5
<1>3. ASSUME HasRead("packet")
      PROVE  LET start == K!TagEnd(0, 0)
                 adth == K!Align(start + K!Pad + Len(job.packet))
             IN /\ Len(wire) <= M!ReadSize =>
                     back.packets = <<M!Nulls(K!Pad) \o job.packet>>
                /\ M!Word(wire, 4) = 65536 * ((job.seq + 1) % 256)
                /\ M!Word(wire, 12) = adth
                /\ M!Word(wire, 8) = Len(wire)
                /\ Len(wire) = K!TagEnd(start + K!Pad + Len(job.packet), K!AdthWord + K!BoundsSize)
  <2>1. PacketRead(job.seq, job.packet, wire) /\ back.packets = M!read_mux(wire)
    BY <1>1, <1>3
  <2>2. Len(wire) <= M!ReadSize => back.packets = <<M!Nulls(K!Pad) \o job.packet>>
    BY <2>1 DEF PacketRead
  <2> QED  BY <2>1, <2>2 DEF PacketRead
<1>4. ASSUME HasRead("open")
      PROVE  /\ back.packets = <<>>
             /\ M!Word(wire, 8) = Len(wire) /\ Len(wire) = K!TagEnd(K!TagEnd(0, 0), K!CmdhArgs)
  BY <1>2, <1>4 DEF OpenRead
<1> QED  BY <1>3, <1>4 DEF MuxReadable

\* Whatever packet fits a tag, and whatever the sequence number, the frame
\* package makes of it is laid out as the driver's, and if one read can take
\* the frame, read_mux finds exactly the packet in it; the open command is not
\* taken for packets.
THEOREM MuxReadableAlways == Spec => []MuxReadable
<1>1. Init => FrameInv
  BY DEF Init, FrameInv
<1>2. FrameInv /\ [Next]_vars => FrameInv'
  <2> SUFFICES ASSUME FrameInv, [Next]_vars PROVE FrameInv'
    OBVIOUS
  <2>a. job' = job
    BY DEF Next, vars, Write, ReadField, ReadMessage, ReadPacket, ReadTrace
  <2>c. SUFFICES ASSUME job.what \in {"packet", "open"}
                 PROVE  /\ sent' \in {0, 1}
                        /\ sent' = 0 => at' = 0
                        /\ sent' # 0 => /\ wire' = Framing(job)
                                        /\ \/ at' = 0
                                           \/ back' = [ok |-> TRUE, packets |-> M!read_mux(wire')]
    BY <2>a DEF FrameInv, Framing
  <2>d. /\ sent \in {0, 1}
        /\ sent = 0 => at = 0
        /\ sent # 0 => /\ wire = Framing(job)
                       /\ at = 0 \/ back = [ok |-> TRUE, packets |-> M!read_mux(wire)]
    BY <2>c DEF FrameInv
  <2>1. CASE Write
    <3>1. sent # 1 /\ at' = at /\ sent' = sent + 1
      BY <2>1, <2>c DEF Write, Written
    <3>2. at' = 0 /\ sent' = 1
      BY <2>d, <3>1
    <3>3. wire' = Framing(job)
      BY <2>1, <2>c DEF Write, Framing
    <3> QED  BY <3>2, <3>3
  <2>2. CASE ReadField
    BY <2>2, <2>c DEF ReadField
  <2>3. CASE ReadMessage
    BY <2>3, <2>c DEF ReadMessage, Whole
  <2>4. CASE ReadPacket
    <3>1. sent = 1 /\ sent' = sent /\ wire' = wire
          /\ back' = [ok |-> TRUE, packets |-> M!read_mux(wire)]
      BY <2>4 DEF ReadPacket, Whole, Written
    <3> QED  BY <2>d, <3>1
  <2>5. CASE ReadTrace
    BY <2>5, <2>c DEF ReadTrace
  <2>6. CASE UNCHANGED vars
    BY <2>6, <2>d DEF vars
  <2> QED  BY <2>1, <2>2, <2>3, <2>4, <2>5, <2>6 DEF Next
<1>3. JobInv /\ FrameInv => MuxReadable
  BY FrameInvSuffices
<1> QED  BY JobKept, <1>1, <1>2, <1>3, PTL DEF Spec

-----------------------------------------------------------------------------
(* The trace of the modem.                                                  *)

\* Two ways of flattening the same sequences agree.
LEMMA FlattensAlike ==
  ASSUME NEW n \in Nat, NEW s, NEW t, NEW v, NEW w, Flattens(v, s, n), Flattens(w, t, n),
         \A i \in 1..n : s[i] = t[i]
  PROVE  \A i \in 1..n : v[i] = w[i]
<1> DEFINE N == {i \in 0..n : i = 0 \/ v[i] = w[i]}
<1>1. \A i \in 1..n : v[i] = IF i = 1 THEN s[i] ELSE v[i-1] \o s[i]
  BY DEF Flattens
<1>2. \A i \in 1..n : w[i] = IF i = 1 THEN t[i] ELSE w[i-1] \o t[i]
  BY DEF Flattens
<1>3. 0 \in N
  OBVIOUS
<1>4. \A i \in 0..(n-1) : i \in N => i + 1 \in N
  <2> SUFFICES ASSUME NEW i \in 0..(n-1), i \in N PROVE i + 1 \in N
    OBVIOUS
  <2>1. i + 1 \in 1..n /\ i + 1 \in 0..n /\ (i + 1) - 1 = i
    OBVIOUS
  <2>2. v[i+1] = w[i+1]
    <3>1. CASE i = 0
      BY <1>1, <1>2, <2>1, <3>1
    <3>2. CASE i # 0
      <4>1. v[i] = w[i] /\ i + 1 # 1
        BY <3>2
      <4>2. v[i+1] = v[i] \o s[i+1] /\ w[i+1] = w[i] \o t[i+1]
        BY <1>1, <1>2, <2>1, <4>1
      <4> QED  BY <2>1, <4>1, <4>2
    <3> QED  BY <3>1, <3>2
  <2> QED  BY <2>1, <2>2
<1> HIDE DEF N
<1>5. \A i \in 0..n : i \in N
  BY <1>3, <1>4, Climb
<1>6. \A i \in 1..n : i \in 0..n /\ i # 0
  OBVIOUS
<1> QED  BY <1>5, <1>6 DEF N

\* What flattening some sequences comes to.
LEMMA FlattenIs ==
  ASSUME NEW s, NEW n \in Nat, Len(s) = n
  PROVE  /\ n = 0 => FlattenSeq(s) = s
         /\ n # 0 => \E v : Flattens(v, s, n) /\ FlattenSeq(s) = v[n]
<1>1. n = 0 => FlattenSeq(s) = s
  BY Zenon DEF FlattenSeq
<1>2. ASSUME n # 0 PROVE \E v : Flattens(v, s, n) /\ FlattenSeq(s) = v[n]
  <2> DEFINE v == CHOOSE u : Flattens(u, s, n)
  <2>1. Flattens(v, s, n)
    BY FlattensExists
  <2>2. v = CHOOSE u : u = [i \in 1..Len(s) |-> IF i = 1 THEN s[i] ELSE u[i-1] \o s[i]]
    BY DEF Flattens
  <2>3. ~(Len(s) = 0)
    BY <1>2
  <2>4. FlattenSeq(s) = v[Len(s)]
    BY <2>2, <2>3, Zenon DEF FlattenSeq
  <2> HIDE DEF v
  <2> QED  BY <2>1, <2>4
<1> QED  BY <1>1, <1>2

\* The first k of some sequences, flattened.
Flat(s, k) == FlattenSeq([i \in 1..k |-> s[i]])

\* One more is put behind.
LEMMA FlatGrows ==
  ASSUME NEW S, NEW s, NEW k \in Nat, s[k+1] \in Seq(S)
  PROVE  Flat(s, 0) = <<>> /\ Flat(s, k + 1) = Flat(s, k) \o s[k+1]
<1>1. ASSUME NEW j \in Nat
      PROVE  /\ Len([i \in 1..j |-> s[i]]) = j
             /\ \A i \in 1..j : [h \in 1..j |-> s[h]][i] = s[i]
  OBVIOUS
<1>2. Flat(s, 0) = <<>>
  <2>1. PICK a : a = [i \in 1..0 |-> s[i]]
    OBVIOUS
  <2>2. Len(a) = 0 /\ a = <<>>
    BY <2>1
  <2>3. FlattenSeq(a) = a
    BY <2>2, FlattenIs
  <2> QED  BY <2>1, <2>2, <2>3 DEF Flat
<1>3. PICK a : a = [i \in 1..k |-> s[i]]
  OBVIOUS
<1>4. PICK b : b = [i \in 1..(k+1) |-> s[i]]
  OBVIOUS
<1>5. k + 1 \in Nat /\ k + 1 # 0 /\ k + 1 \in 1..(k+1) /\ (k + 1) - 1 = k
  OBVIOUS
<1>6. /\ Len(a) = k /\ Len(b) = k + 1
      /\ (\A i \in 1..k : a[i] = s[i]) /\ (\A i \in 1..(k+1) : b[i] = s[i])
  BY <1>1, <1>3, <1>4, <1>5
<1>7. PICK w : Flattens(w, b, k + 1) /\ FlattenSeq(b) = w[k+1]
  BY <1>5, <1>6, FlattenIs
<1>8. \A i \in 1..(k+1) : w[i] = IF i = 1 THEN b[i] ELSE w[i-1] \o b[i]
  BY <1>7 DEF Flattens
<1>9. FlattenSeq(b) = FlattenSeq(a) \o s[k+1]
  <2>1. CASE k = 0
    <3>1. FlattenSeq(a) = <<>>
      BY <1>2, <1>3, <2>1 DEF Flat
    <3>2. w[k+1] = s[k+1]
      BY <1>5, <1>6, <1>8, <2>1
    <3>3. <<>> \o s[k+1] = s[k+1]
      BY ConcatEmptySeq
    <3> QED  BY <1>7, <3>1, <3>2, <3>3
  <2>2. CASE k # 0
    <3>1. PICK v : Flattens(v, a, k) /\ FlattenSeq(a) = v[k]
      BY <1>6, <2>2, FlattenIs
    <3>2. PICK u : u = [i \in 1..k |-> w[i]]
      OBVIOUS
    <3>3. Flattens(u, b, k)
      <4>1. \A i \in 1..k : u[i] = IF i = 1 THEN b[i] ELSE u[i-1] \o b[i]
        <5> TAKE i \in 1..k
        <5>1. i \in 1..(k+1) /\ u[i] = w[i]
          BY <3>2
        <5>2. CASE i = 1
          BY <1>8, <5>1, <5>2
        <5>3. CASE i # 1
          <6>1. i - 1 \in 1..k
            BY <5>3
          <6>2. u[i-1] = w[i-1]
            BY <3>2, <6>1
          <6>3. w[i] = w[i-1] \o b[i]
            BY <1>8, <5>1, <5>3
          <6> QED  BY <5>1, <5>3, <6>2, <6>3
        <5> QED  BY <5>2, <5>3
      <4>2. u = [i \in 1..k |-> u[i]]
        BY <3>2
      <4>3. u = [i \in 1..k |-> IF i = 1 THEN b[i] ELSE u[i-1] \o b[i]]
        BY <4>1, <4>2
      <4> QED  BY <4>3 DEF Flattens
    <3>4. \A i \in 1..k : a[i] = b[i]
      <4>1. \A i \in 1..k : i \in 1..(k+1)
        OBVIOUS
      <4> QED  BY <1>6, <4>1
    <3>5. \A i \in 1..k : v[i] = u[i]
      BY <3>1, <3>3, <3>4, FlattensAlike
    <3>6. k \in 1..k /\ k + 1 # 1
      BY <2>2
    <3>7. u[k] = w[k] /\ v[k] = u[k]
      BY <3>2, <3>5, <3>6
    <3>8. w[k+1] = w[k] \o b[k+1]
      BY <1>5, <1>8, <3>6
    <3>9. b[k+1] = s[k+1]
      BY <1>5, <1>6
    <3> QED  BY <1>7, <3>1, <3>7, <3>8, <3>9
  <2> QED  BY <2>1, <2>2
<1> QED  BY <1>2, <1>3, <1>4, <1>9 DEF Flat

\* What is flattened is a sequence over the same set.
LEMMA FlatSeq ==
  ASSUME NEW S, NEW s, NEW n \in Nat, \A i \in 1..n : s[i] \in Seq(S)
  PROVE  \A k \in 0..n : Flat(s, k) \in Seq(S)
<1> DEFINE N == {k \in 0..n : Flat(s, k) \in Seq(S)}
<1>1. 0 \in N
  <2>1. PICK a : a = [i \in 1..0 |-> s[i]]
    OBVIOUS
  <2>2. Len(a) = 0 /\ a = <<>>
    BY <2>1
  <2>3. FlattenSeq(a) = a
    BY <2>2, FlattenIs
  <2>4. <<>> \in Seq(S)
    OBVIOUS
  <2>5. Flat(s, 0) \in Seq(S)
    BY <2>1, <2>2, <2>3, <2>4 DEF Flat
  <2> QED  BY <2>5
<1>2. \A k \in 0..(n-1) : k \in N => k + 1 \in N
  <2> SUFFICES ASSUME NEW k \in 0..(n-1), k \in N PROVE k + 1 \in N
    OBVIOUS
  <2>1. k \in Nat /\ k + 1 \in 1..n /\ k + 1 \in 0..n
    OBVIOUS
  <2>2. s[k+1] \in Seq(S)
    BY <2>1
  <2>3. Flat(s, k + 1) = Flat(s, k) \o s[k+1]
    BY <2>1, <2>2, FlatGrows
  <2>4. Flat(s, k) \in Seq(S)
    OBVIOUS
  <2>5. Flat(s, k + 1) \in Seq(S)
    BY <2>2, <2>3, <2>4, ConcatProperties
  <2> QED  BY <2>1, <2>5
<1> HIDE DEF N
<1>3. \A k \in 0..n : k \in N
  BY <1>1, <1>2, Climb
<1> QED  BY <1>3 DEF N

\* The bytes of a frame are not flags.
LEMMA FrameParts ==
  ASSUME NEW f \in Frames
  PROVE  /\ Len(f.raw) \in Nat /\ Bytes(f.raw, Len(f.raw))
         /\ \A i \in 1..Len(f.raw) : f.raw[i] # T!Flag
<1>1. f.raw \in Seq(0..255) /\ \A i \in 1..Len(f.raw) : f.raw[i] # T!Flag
  BY FramesAssumption
<1>2. PICK S : S = 0..255
  OBVIOUS
<1>3. PICK N : N = Nat
  OBVIOUS
<1>4. \A x \in S : x \in N
  BY <1>2, <1>3
<1>5. f.raw \in Seq(S)
  BY <1>1, <1>2
<1>6. f.raw \in Seq(N)
  BY <1>4, <1>5, WiderSeq, Zenon
<1>7. Len(f.raw) \in Nat
  BY <1>1
<1> QED  BY <1>1, <1>3, <1>6, <1>7 DEF Bytes

\* The first k frames, each behind a flag.
Flagged(frames, n) == [i \in 1..n |-> <<T!Flag>> \o frames[i].raw]

\* What Upto is made of.
LEMMA UptoIs ==
  ASSUME NEW frames, NEW lead, NEW n \in Nat, NEW k \in 0..n
  PROVE  Upto(k, frames, lead) = (lead \o Flat(Flagged(frames, n), k)) \o <<T!Flag>>
<1>1. PICK x : x = [i \in 1..k |-> frames[i]]
  OBVIOUS
<1>2. Len(x) = k /\ \A i \in 1..k : x[i] = frames[i]
  BY <1>1
<1>3. PICK s : s = Flagged(frames, n)
  OBVIOUS
<1>4. \A i \in 1..k : s[i] = <<T!Flag>> \o x[i].raw
  <2> TAKE i \in 1..k
  <2>1. i \in 1..n
    OBVIOUS
  <2> QED  BY <1>2, <1>3, <2>1 DEF Flagged
<1>5. [i \in 1..k |-> <<T!Flag>> \o x[i].raw] = [i \in 1..k |-> s[i]]
  BY <1>4
<1>6. Upto(k, frames, lead)
        = (lead \o FlattenSeq([i \in 1..Len(x) |-> <<T!Flag>> \o x[i].raw])) \o <<T!Flag>>
  <2>1. Upto(k, frames, lead) = Stream(x, lead)
    BY <1>1 DEF Upto
  <2>2. Stream(x, lead)
          = (lead \o FlattenSeq([i \in 1..Len(x) |-> <<T!Flag>> \o x[i].raw])) \o <<T!Flag>>
    BY Zenon DEF Stream
  <2> QED  BY <2>1, <2>2
<1> QED  BY <1>2, <1>3, <1>5, <1>6 DEF Flat

\* The flags of the stream are where frames end: e[k] is the flag behind frame k.
TraceIs(f, e, frames, n) ==
  /\ Bytes(f, e[n])
  /\ \A k \in 0..n : e[k] \in Nat \ {0} /\ f[e[k]] = T!Flag
  /\ \A k \in 0..(n-1) : e[k+1] = (e[k] + Len(frames[k+1].raw)) + 1
  /\ \A k \in 0..(n-1) : \A i \in 1..Len(frames[k+1].raw) : f[e[k] + i] = frames[k+1].raw[i]
  /\ \A i \in 1..(e[0] - 1) : f[i] # T!Flag

\* What comes before the first frame.
LeadIs(lead, l) == Bytes(lead, l) /\ \A i \in 1..l : lead[i] # T!Flag

\* A flag is a byte.
LEMMA FlagByte == Bytes(<<T!Flag>>, 1) /\ <<T!Flag>>[1] = T!Flag
BY DEF Bytes, T!Flag

\* The stream before the first frame ends.
LEMMA UptoStart ==
  ASSUME NEW frames, NEW n \in Nat, NEW lead, NEW l \in Nat, LeadIs(lead, l), NEW e, e[0] = l + 1
  PROVE  TraceIs(Upto(0, frames, lead), e, frames, 0)
<1>1. PICK f : f = Upto(0, frames, lead)
  OBVIOUS
<1>2. f = lead \o <<T!Flag>>
  <2>1. PICK s : s = Flagged(frames, 1)
    OBVIOUS
  <2>2. 1 \in Nat /\ 0 \in 0..1 /\ 0 \in Nat /\ 0 + 1 = 1 /\ 1 \in 1..1
    OBVIOUS
  <2>3. f = (lead \o Flat(s, 0)) \o <<T!Flag>>
    BY <1>1, <2>1, <2>2, UptoIs
  <2>4. Flat(s, 0) = <<>>
    <3>1. PICK a : a = [i \in 1..0 |-> s[i]]
      OBVIOUS
    <3>2. Len(a) = 0 /\ a = <<>>
      BY <3>1
    <3>3. FlattenSeq(a) = a
      BY <3>2, FlattenIs
    <3> QED  BY <3>1, <3>2, <3>3 DEF Flat
  <2>5. lead \in Seq(Nat)
    BY DEF LeadIs, Bytes
  <2>6. lead \o <<>> = lead
    BY <2>5, ConcatEmptySeq
  <2> QED  BY <2>3, <2>4, <2>6
<1>3. /\ Bytes(f, l + 1)
      /\ \A i \in 1..l : f[i] = lead[i]
      /\ f[l + 1] = T!Flag
  <2>1. 1 \in Nat /\ 1 \in 1..1 /\ Bytes(lead, l)
    BY DEF LeadIs
  <2>2. Joined(lead \o <<T!Flag>>, lead, l, <<T!Flag>>, 1)
    BY <2>1, FlagByte, JoinBytes
  <2> QED  BY <1>2, <2>1, <2>2, FlagByte DEF Joined
<1>4. \A i \in 1..l : f[i] # T!Flag
  BY <1>3 DEF LeadIs
<1>5. e[0] - 1 = l /\ e[0] \in Nat \ {0}
  OBVIOUS
<1>6. \A i \in 1..(e[0] - 1) : f[i] # T!Flag
  BY <1>4, <1>5
<1>7. \A k \in 0..0 : e[k] \in Nat \ {0} /\ f[e[k]] = T!Flag
  BY <1>3, <1>5
<1>8. 0..(0-1) = {}
  OBVIOUS
<1>9. Bytes(f, e[0])
  BY <1>3
<1>10. TraceIs(f, e, frames, 0)
  BY <1>6, <1>7, <1>8, <1>9, Zenon DEF TraceIs
<1> QED  BY <1>1, <1>10

\* Another frame and its flag.
LEMMA UptoGrows ==
  ASSUME NEW frames, NEW n \in Nat, \A i \in 1..n : frames[i] \in Frames,
         NEW lead, NEW l \in Nat, LeadIs(lead, l), NEW k \in 0..(n-1)
  PROVE  Upto(k + 1, frames, lead) = (Upto(k, frames, lead) \o frames[k+1].raw) \o <<T!Flag>>
<1>1. k \in 0..n /\ k + 1 \in 0..n /\ k + 1 \in 1..n /\ k \in Nat
  OBVIOUS
<1>2. PICK s : s = Flagged(frames, n)
  OBVIOUS
<1>3. PICK a : a = Flat(s, k)
  OBVIOUS
<1>4. PICK raw : raw = frames[k+1].raw
  OBVIOUS
<1>5. raw \in Seq(Nat)
  <2>1. frames[k+1] \in Frames
    BY <1>1
  <2> QED  BY <1>4, <2>1, FrameParts DEF Bytes
<1>6. <<T!Flag>> \in Seq(Nat)
  BY FlagByte DEF Bytes
<1>7. s[k+1] = <<T!Flag>> \o raw
  BY <1>1, <1>2, <1>4 DEF Flagged
<1>8. s[k+1] \in Seq(Nat)
  BY <1>5, <1>6, <1>7, ConcatParts
<1>9. Flat(s, k + 1) = a \o s[k+1]
  BY <1>1, <1>3, <1>8, FlatGrows
<1>10. Upto(k, frames, lead) = (lead \o a) \o <<T!Flag>>
  BY <1>1, <1>2, <1>3, UptoIs
<1>11. Upto(k + 1, frames, lead) = (lead \o (a \o (<<T!Flag>> \o raw))) \o <<T!Flag>>
  <2>1. Upto(k + 1, frames, lead) = (lead \o Flat(s, k + 1)) \o <<T!Flag>>
    BY <1>1, <1>2, UptoIs
  <2> QED  BY <1>7, <1>9, <2>1
<1>12. a \in Seq(Nat)
  <2>1. \A i \in 1..n : s[i] \in Seq(Nat)
    <3> TAKE i \in 1..n
    <3>1. frames[i] \in Frames
      OBVIOUS
    <3>2. frames[i].raw \in Seq(Nat)
      BY <3>1, FrameParts DEF Bytes
    <3>3. s[i] = <<T!Flag>> \o frames[i].raw
      BY <1>2 DEF Flagged
    <3> QED  BY <1>6, <3>2, <3>3, ConcatParts
  <2> QED  BY <1>1, <1>3, <2>1, FlatSeq
<1>13. lead \in Seq(Nat)
  BY DEF LeadIs, Bytes
<1>14. lead \o a \in Seq(Nat)
  BY <1>12, <1>13, ConcatParts
<1>15. <<T!Flag>> \o raw \in Seq(Nat)
  BY <1>5, <1>6, ConcatParts
<1>16. lead \o (a \o (<<T!Flag>> \o raw)) = (lead \o a) \o (<<T!Flag>> \o raw)
  BY <1>12, <1>13, <1>15, Assoc
<1>17. (lead \o a) \o (<<T!Flag>> \o raw) = ((lead \o a) \o <<T!Flag>>) \o raw
  BY <1>5, <1>6, <1>14, Assoc
<1> QED  BY <1>4, <1>10, <1>11, <1>16, <1>17

\* Where the flags of the first frames are.
Ends(e, frames, lead, n) == \A k \in 0..n : e[k] = Len(Upto(k, frames, lead))

\* The stream with one frame more has the same flags and one more.
LEMMA TraceGrows ==
  ASSUME NEW frames, NEW n \in Nat, \A i \in 1..n : frames[i] \in Frames,
         NEW lead, NEW l \in Nat, LeadIs(lead, l), NEW e, Ends(e, frames, lead, n),
         NEW k \in 0..(n-1), TraceIs(Upto(k, frames, lead), e, frames, k)
  PROVE  TraceIs(Upto(k + 1, frames, lead), e, frames, k + 1)
<1>1. k \in Nat /\ k \in 0..k /\ k \in 0..n /\ k + 1 \in 0..n /\ k + 1 \in 1..n /\ k \in 0..(n-1)
  OBVIOUS
<1>2. PICK f : f = Upto(k, frames, lead)
  OBVIOUS
<1>3. PICK raw : raw = frames[k+1].raw
  OBVIOUS
<1>4. PICK r \in Nat : r = Len(raw) /\ Bytes(raw, r)
  BY <1>1, <1>3, FrameParts
<1>5. /\ Bytes(f, e[k])
      /\ \A j \in 0..k : e[j] \in Nat \ {0} /\ f[e[j]] = T!Flag
      /\ \A j \in 0..(k-1) : e[j+1] = (e[j] + Len(frames[j+1].raw)) + 1
      /\ \A j \in 0..(k-1) : \A i \in 1..Len(frames[j+1].raw) : f[e[j] + i] = frames[j+1].raw[i]
      /\ \A i \in 1..(e[0] - 1) : f[i] # T!Flag
  BY <1>2, Zenon DEF TraceIs
<1>6. PICK c \in Nat \ {0} : c = e[k]
  BY <1>1, <1>5
<1>7. PICK g : g = f \o raw
  OBVIOUS
<1>8. /\ Bytes(g, c + r)
      /\ \A i \in 1..c : g[i] = f[i]
      /\ \A i \in 1..r : g[c + i] = raw[i]
  <2>1. Joined(f \o raw, f, c, raw, r)
    BY <1>4, <1>5, <1>6, JoinBytes
  <2> QED  BY <1>7, <2>1 DEF Joined
<1>9. PICK h : h = g \o <<T!Flag>>
  OBVIOUS
<1>10. /\ Bytes(h, (c + r) + 1)
       /\ \A i \in 1..(c + r) : h[i] = g[i]
       /\ h[(c + r) + 1] = T!Flag
  <2>1. 1 \in Nat /\ 1 \in 1..1 /\ c + r \in Nat
    OBVIOUS
  <2>2. Joined(g \o <<T!Flag>>, g, c + r, <<T!Flag>>, 1)
    BY <1>8, <2>1, FlagByte, JoinBytes
  <2> QED  BY <1>9, <2>1, <2>2, FlagByte DEF Joined
<1>11. h = Upto(k + 1, frames, lead)
  BY <1>2, <1>3, <1>7, <1>9, UptoGrows
<1>12. e[k+1] = (c + r) + 1
  <2>1. e[k+1] = Len(h)
    BY <1>1, <1>11 DEF Ends
  <2> QED  BY <1>10, <2>1 DEF Bytes
<1>13. \A i \in 1..c : h[i] = f[i]
  <2>1. \A i \in 1..c : i \in 1..(c + r)
    OBVIOUS
  <2> QED  BY <1>8, <1>10, <2>1
<1>14. \A j \in 0..k : e[j] \in 1..c
  <2> DEFINE N == {j \in 0..k : e[k-j] \in 1..c}
  <2>1. 0 \in N
    BY <1>1, <1>6
  <2>2. \A j \in 0..(k-1) : j \in N => j + 1 \in N
    <3> SUFFICES ASSUME NEW j \in 0..(k-1), j \in N PROVE j + 1 \in N
      OBVIOUS
    <3>1. PICK b \in 0..(k-1) : b = k - (j + 1) /\ b + 1 = k - j
      OBVIOUS
    <3>2. PICK m : m = Len(frames[b+1].raw)
      OBVIOUS
    <3>3. e[b+1] = (e[b] + m) + 1
      BY <1>5, <3>1, <3>2
    <3>4. m \in Nat
      <4>1. b + 1 \in 1..n
        BY <3>1
      <4> QED  BY <3>2, <4>1, FrameParts
    <3>5. b \in 0..k
      OBVIOUS
    <3>6. e[b] \in Nat \ {0}
      BY <1>5, <3>5
    <3>7. e[b+1] \in 1..c
      BY <3>1
    <3>8. e[b] \in 1..c
      BY <3>3, <3>4, <3>6, <3>7
    <3>9. j + 1 \in 0..k
      OBVIOUS
    <3> QED  BY <3>1, <3>8, <3>9
  <2> HIDE DEF N
  <2>3. \A j \in 0..k : j \in N
    BY <1>1, <2>1, <2>2, Climb
  <2>4. \A j \in 0..k : k - j \in 0..k /\ k - (k - j) = j
    OBVIOUS
  <2> QED  BY <2>3, <2>4 DEF N
<1>15. \A j \in 0..(k+1) : e[j] \in Nat \ {0} /\ h[e[j]] = T!Flag
  <2> TAKE j \in 0..(k+1)
  <2>1. CASE j = k + 1
    <3>1. (c + r) + 1 \in Nat \ {0}
      OBVIOUS
    <3> QED  BY <1>10, <1>12, <2>1, <3>1
  <2>2. CASE j # k + 1
    <3>1. j \in 0..k
      BY <2>2
    <3> QED  BY <1>5, <1>13, <1>14, <3>1
  <2> QED  BY <2>1, <2>2
<1>16. \A j \in 0..k : e[j+1] = (e[j] + Len(frames[j+1].raw)) + 1
  <2> TAKE j \in 0..k
  <2>1. CASE j = k
    BY <1>3, <1>4, <1>6, <1>12, <2>1
  <2>2. CASE j # k
    <3>1. j \in 0..(k-1)
      BY <2>2
    <3> QED  BY <1>5, <3>1
  <2> QED  BY <2>1, <2>2
<1>17. \A j \in 0..k : \A i \in 1..Len(frames[j+1].raw) : h[e[j] + i] = frames[j+1].raw[i]
  <2> TAKE j \in 0..k
  <2>1. CASE j = k
    <3>1. \A i \in 1..r : c + i \in 1..(c + r)
      OBVIOUS
    <3>2. \A i \in 1..r : h[c + i] = raw[i]
      BY <1>8, <1>10, <3>1
    <3> QED  BY <1>3, <1>4, <1>6, <2>1, <3>2
  <2>2. CASE j # k
    <3>1. j \in 0..(k-1) /\ j + 1 \in 0..k /\ j + 1 \in 1..n
      BY <2>2
    <3>2. PICK m : m = Len(frames[j+1].raw)
      OBVIOUS
    <3>3. m \in Nat
      BY <3>1, <3>2, FrameParts
    <3>4. e[j] \in Nat
      BY <1>5
    <3>5. e[j+1] = (e[j] + m) + 1 /\ e[j+1] \in 1..c
      BY <1>5, <1>14, <3>1, <3>2
    <3>6. \A i \in 1..m : e[j] + i \in 1..c
      BY <3>3, <3>4, <3>5
    <3>7. \A i \in 1..m : f[e[j] + i] = frames[j+1].raw[i]
      BY <1>5, <3>1, <3>2
    <3> QED  BY <1>13, <3>2, <3>6, <3>7
  <2> QED  BY <2>1, <2>2
<1>18. \A i \in 1..(e[0] - 1) : h[i] # T!Flag
  <2>1. 0 \in 0..k
    BY <1>1
  <2>2. e[0] \in 1..c
    BY <1>14, <2>1
  <2>3. \A i \in 1..(e[0] - 1) : i \in 1..c
    BY <2>2
  <2> QED  BY <1>5, <1>13, <2>3
<1>19. (k + 1) - 1 = k
  OBVIOUS
<1>20. Bytes(h, e[k+1])
  BY <1>10, <1>12
<1>21. TraceIs(h, e, frames, k + 1)
  BY <1>15, <1>16, <1>17, <1>18, <1>19, <1>20, Zenon DEF TraceIs
<1> QED  BY <1>11, <1>21

\* So the whole stream is laid out.
LEMMA TraceLaid ==
  ASSUME NEW frames, NEW n \in Nat, Len(frames) = n, \A i \in 1..n : frames[i] \in Frames,
         frames = [i \in 1..n |-> frames[i]],
         NEW lead, NEW l \in Nat, LeadIs(lead, l), NEW e, Ends(e, frames, lead, n)
  PROVE  TraceIs(Stream(frames, lead), e, frames, n)
<1> DEFINE N == {k \in 0..n : TraceIs(Upto(k, frames, lead), e, frames, k)}
<1>1. 0 \in N
  <2>1. PICK d : d = [j \in {0} |-> l + 1]
    OBVIOUS
  <2>2. TraceIs(Upto(0, frames, lead), d, frames, 0)
    BY <2>1, UptoStart
  <2>3. Bytes(Upto(0, frames, lead), d[0])
    BY <2>2, Zenon DEF TraceIs
  <2>4. Len(Upto(0, frames, lead)) = l + 1
    BY <2>1, <2>3 DEF Bytes
  <2>5. 0 \in 0..n
    OBVIOUS
  <2>6. e[0] = l + 1
    BY <2>4, <2>5 DEF Ends
  <2>7. TraceIs(Upto(0, frames, lead), e, frames, 0)
    BY <2>6, UptoStart
  <2> QED  BY <2>5, <2>7
<1>2. \A k \in 0..(n-1) : k \in N => k + 1 \in N
  <2> SUFFICES ASSUME NEW k \in 0..(n-1), k \in N PROVE k + 1 \in N
    OBVIOUS
  <2>1. TraceIs(Upto(k, frames, lead), e, frames, k)
    OBVIOUS
  <2>2. TraceIs(Upto(k + 1, frames, lead), e, frames, k + 1)
    BY <2>1, TraceGrows
  <2>3. k + 1 \in 0..n
    OBVIOUS
  <2> QED  BY <2>2, <2>3
<1> HIDE DEF N
<1>3. n \in N
  <2>1. \A k \in 0..n : k \in N
    BY <1>1, <1>2, Climb
  <2> QED  BY <2>1
<1>4. Upto(n, frames, lead) = Stream(frames, lead)
  BY DEF Upto
<1> QED  BY <1>3, <1>4 DEF N

\* Where a byte is found.
LEMMA FindIs ==
  ASSUME NEW byte, NEW s, NEW n \in Nat, Len(s) = n, NEW from \in Nat
  PROVE  /\ (\A i \in from..n : s[i] # byte) => T!Find(byte, s, from) = 0
         /\ \A i \in from..n :
              s[i] = byte /\ (\A j \in from..(i-1) : s[j] # byte) => T!Find(byte, s, from) = i
<1> DEFINE I == {i \in from..n : s[i] = byte}
           least == CHOOSE x \in I : \A y \in I : x =< y
<1>1. T!Find(byte, s, from) = IF I # {} THEN least ELSE 0
  <2> DEFINE J == {i \in from..Len(s) : s[i] = byte}
  <2>1. T!Find(byte, s, from) = IF J # {} THEN (CHOOSE x \in J : \A y \in J : x =< y) ELSE 0
    BY DEF T!Find, T!SelectInSubSeq, T!Min
  <2>2. I = J
    OBVIOUS
  <2> HIDE DEF J
  <2> QED  BY <2>1, <2>2
<1>2. (\A i \in from..n : s[i] # byte) => I = {}
  OBVIOUS
<1>3. ASSUME NEW i \in from..n, s[i] = byte, \A j \in from..(i-1) : s[j] # byte
      PROVE  T!Find(byte, s, from) = i
  <2>1. i \in I
    BY <1>3
  <2>2. \A y \in I : i =< y
    BY <1>3
  <2>3. least \in I /\ \A y \in I : least =< y
    BY <2>1, <2>2, Zenon
  <2>4. I \subseteq Int
    OBVIOUS
  <2> HIDE DEF I, least
  <2>5. least = i
    BY <2>1, <2>2, <2>3, <2>4
  <2> QED  BY <1>1, <2>1, <2>5
<1> HIDE DEF I, least
<1> QED  BY <1>1, <1>2, <1>3

\* A part of a part.
LEMMA PartOfPart ==
  \A n \in Nat, x \in Nat, m \in Nat, from \in Nat : \A f, s :
    Part(s, f, from, n) /\ x + m <= n => Part(SubSeq(s, x + 1, x + m), f, from + x, m)
<1> SUFFICES ASSUME NEW n \in Nat, NEW x \in Nat, NEW m \in Nat, NEW from \in Nat,
                    NEW f, NEW s, Part(s, f, from, n), x + m <= n
             PROVE  Part(SubSeq(s, x + 1, x + m), f, from + x, m)
  OBVIOUS
<1>1. Bytes(s, n) /\ \A i \in 1..n : s[i] = f[from + i]
  BY DEF Part
<1>2. PICK t : t = SubSeq(s, x + 1, x + m)
  OBVIOUS
<1>3. Part(t, s, x, m)
  BY <1>1, <1>2, PartBytes
<1>4. Bytes(t, m) /\ \A i \in 1..m : t[i] = s[x + i]
  BY <1>3 DEF Part
<1>5. \A i \in 1..m : x + i \in 1..n /\ from + (x + i) = (from + x) + i
  OBVIOUS
<1>6. \A i \in 1..m : t[i] = f[(from + x) + i]
  BY <1>1, <1>4, <1>5
<1>7. Part(t, f, from + x, m)
  BY <1>4, <1>6, Zenon DEF Part
<1> QED  BY <1>2, <1>7

\* A part and the next one.
LEMMA PartJoins ==
  \A n \in Nat, m \in Nat, from \in Nat : \A f, s, t :
    Part(s, f, from, n) /\ Part(t, f, from + n, m) => Part(s \o t, f, from, n + m)
<1> SUFFICES ASSUME NEW n \in Nat, NEW m \in Nat, NEW from \in Nat,
                    NEW f, NEW s, NEW t, Part(s, f, from, n), Part(t, f, from + n, m)
             PROVE  Part(s \o t, f, from, n + m)
  OBVIOUS
<1>1. /\ Bytes(s, n) /\ \A i \in 1..n : s[i] = f[from + i]
      /\ Bytes(t, m) /\ \A i \in 1..m : t[i] = f[(from + n) + i]
  BY DEF Part
<1>2. PICK u : u = s \o t
  OBVIOUS
<1>3. Joined(u, s, n, t, m)
  BY <1>1, <1>2, JoinBytes
<1>4. /\ Bytes(u, n + m)
      /\ \A i \in 1..n : u[i] = s[i]
      /\ \A i \in 1..m : u[n + i] = t[i]
  BY <1>3 DEF Joined
<1>5. \A i \in 1..(n + m) : u[i] = f[from + i]
  <2> TAKE i \in 1..(n + m)
  <2>1. CASE i <= n
    <3>1. i \in 1..n
      BY <2>1
    <3> QED  BY <1>1, <1>4, <3>1
  <2>2. CASE ~(i <= n)
    <3>1. PICK j \in 1..m : n + j = i /\ (from + n) + j = from + i
      <4>1. i - n \in 1..m /\ n + (i - n) = i /\ (from + n) + (i - n) = from + i
        BY <2>2
      <4> QED  BY <4>1
    <3>2. u[n + j] = f[(from + n) + j]
      BY <1>1, <1>4
    <3> QED  BY <3>1, <3>2
  <2> QED  BY <2>1, <2>2
<1>6. Part(u, f, from, n + m)
  BY <1>4, <1>5, Zenon DEF Part
<1> QED  BY <1>2, <1>6

\* A decoder.
Dec(buf, out, ok) == [buf |-> buf, out |-> out, ok |-> ok]

\* What becomes of one.
Stopped(d) == [d EXCEPT !.ok = FALSE]
Printed(d, line) == [d EXCEPT !.out = Append(@, line)]
Rebuffed(d, buf) == [d EXCEPT !.buf = buf]

\* In its parts.
LEMMA DecIs ==
  /\ \A b, o, k : Dec(b, o, k).buf = b /\ Dec(b, o, k).out = o
  /\ \A b, o, k : Stopped(Dec(b, o, k)) = Dec(b, o, FALSE)
  /\ \A b, o, k, line : Printed(Dec(b, o, k), line) = Dec(b, Append(o, line), k)
  /\ \A b, o, k, c : Rebuffed(Dec(b, o, k), c) = Dec(c, o, k)
<1>1. \A b, o, k : Dec(b, o, k).buf = b /\ Dec(b, o, k).out = o
  BY DEF Dec
<1>2. ASSUME NEW b, NEW o, NEW k PROVE Stopped(Dec(b, o, k)) = Dec(b, o, FALSE)
  <2>1. PICK no : no = FALSE
    OBVIOUS
  <2>2. [[buf |-> b, out |-> o, ok |-> k] EXCEPT !.ok = no] = [buf |-> b, out |-> o, ok |-> no]
    OBVIOUS
  <2> QED  BY <2>1, <2>2 DEF Dec, Stopped
<1>3. \A b, o, k, line : Printed(Dec(b, o, k), line) = Dec(b, Append(o, line), k)
  BY DEF Dec, Printed
<1>4. \A b, o, k, c : Rebuffed(Dec(b, o, k), c) = Dec(c, o, k)
  BY DEF Dec, Rebuffed
<1> QED  BY <1>1, <1>2, <1>3, <1>4, Zenon

\* Whether it runs.
LEMMA DecRuns == \A b, o : Dec(b, o, TRUE).ok /\ ~Dec(b, o, FALSE).ok
BY DEF Dec

\* What bytes between flags do to a decoder: they end the program, or print a
\* line, or nothing.
Does(kind, line, b, o) ==
  IF kind = "ends" THEN Dec(b, o, FALSE)
  ELSE IF kind = "says" THEN Dec(b, Append(o, line), TRUE)
  ELSE Dec(b, o, TRUE)

\* What handle_packet looks at before it prints a line, and that line.
Short(framed) == Len(framed) < 2
Ignored(framed) ==
  LET packet == SubSeq(framed, 1, Len(framed) - 5)
  IN \/ Len(framed) < 13
     \/ framed[1] # 0 \/ framed[8] \notin {T!PrintType, T!PrintfType}
     \/ Len(packet) <= 8
     \/ packet[9] \notin {0, 3}
PayloadOf(framed) ==
  LET packet == SubSeq(framed, 1, Len(framed) - 5)
  IN T!From(packet, IF packet[9] = 0 THEN 10 ELSE 14)
Plain(framed) == SubSeq(framed, 1, Len(framed) - 5)[8] = T!PrintType

\* It does the same to every decoder.
LEMMA HandleDoes ==
  ASSUME NEW framed
  PROVE  \E kind, line : \A b, o : T!handle_packet(Dec(b, o, TRUE), framed) = Does(kind, line, b, o)
<1>1. PICK p : p = PayloadOf(framed)
  OBVIOUS
<1>2. PICK l : l = T!decode_printf(p)
  OBVIOUS
<1>3. \A d : T!handle_packet(d, framed)
               = IF Short(framed) THEN Stopped(d)
                 ELSE IF Ignored(framed) THEN d
                 ELSE IF Plain(framed) THEN T!log(d, [bad |-> FALSE, fmt |-> p, args |-> <<>>], <<p>>)
                 ELSE T!log(d, l, <<l.fmt>> \o l.args)
  BY <1>1, <1>2, Zenon DEF T!handle_packet, Short, Ignored, Plain, PayloadOf, Stopped
<1>4. \A d, line, texts :
        T!log(d, line, texts)
          = IF \E word \in Muted : T!Says(texts, word) THEN d ELSE Printed(d, line)
  BY Zenon DEF T!log, Printed
<1>5. ASSUME NEW line, NEW texts
      PROVE  \E kind : \A b, o : T!log(Dec(b, o, TRUE), line, texts) = Does(kind, line, b, o)
  <2>1. CASE \E word \in Muted : T!Says(texts, word)
    <3>1. \A b, o : T!log(Dec(b, o, TRUE), line, texts) = Dec(b, o, TRUE)
      BY <1>4, <2>1, Zenon
    <3>2. "nothing" # "ends" /\ "nothing" # "says"
      OBVIOUS
    <3>3. \A b, o : Does("nothing", line, b, o) = Dec(b, o, TRUE)
      BY <3>2, Zenon DEF Does
    <3> QED  BY <3>1, <3>3, Zenon
  <2>2. CASE ~\E word \in Muted : T!Says(texts, word)
    <3>1. \A b, o : T!log(Dec(b, o, TRUE), line, texts) = Printed(Dec(b, o, TRUE), line)
      BY <1>4, <2>2, Zenon
    <3>2. ASSUME NEW b, NEW o PROVE Printed(Dec(b, o, TRUE), line) = Dec(b, Append(o, line), TRUE)
      <4>1. PICK yes : yes = TRUE
        OBVIOUS
      <4>2. Printed(Dec(b, o, yes), line) = Dec(b, Append(o, line), yes)
        BY DecIs
      <4> QED  BY <4>1, <4>2
    <3>3. "says" # "ends"
      OBVIOUS
    <3>4. \A b, o : Does("says", line, b, o) = Dec(b, Append(o, line), TRUE)
      BY <3>3, Zenon DEF Does
    <3>5. ASSUME NEW b, NEW o PROVE T!log(Dec(b, o, TRUE), line, texts) = Does("says", line, b, o)
      <4>1. T!log(Dec(b, o, TRUE), line, texts) = Printed(Dec(b, o, TRUE), line)
        BY <3>1
      <4>2. Printed(Dec(b, o, TRUE), line) = Dec(b, Append(o, line), TRUE)
        BY <3>2
      <4>3. Does("says", line, b, o) = Dec(b, Append(o, line), TRUE)
        BY <3>4
      <4> QED  BY <4>1, <4>2, <4>3, Zenon
    <3> QED  BY <3>5, Zenon
  <2> QED  BY <2>1, <2>2
<1>6. CASE Short(framed)
  <2>1. \A b, o : Stopped(Dec(b, o, TRUE)) = Dec(b, o, FALSE)
    BY DecIs
  <2>2. \A b, o : T!handle_packet(Dec(b, o, TRUE), framed) = Does("ends", l, b, o)
    BY <1>3, <1>6, <2>1, Zenon DEF Does
  <2> QED  BY <2>2, Zenon
<1>7. CASE ~Short(framed) /\ Ignored(framed)
  <2>1. "nothing" # "ends" /\ "nothing" # "says"
    OBVIOUS
  <2>2. \A b, o : T!handle_packet(Dec(b, o, TRUE), framed) = Does("nothing", l, b, o)
    BY <1>3, <1>7, <2>1, Zenon DEF Does
  <2> QED  BY <2>2, Zenon
<1>8. CASE ~Short(framed) /\ ~Ignored(framed) /\ Plain(framed)
  <2>1. PICK line : line = [bad |-> FALSE, fmt |-> p, args |-> <<>>]
    OBVIOUS
  <2>2. PICK kind : \A b, o : T!log(Dec(b, o, TRUE), line, <<p>>) = Does(kind, line, b, o)
    BY <1>5
  <2>3. \A b, o : T!handle_packet(Dec(b, o, TRUE), framed) = Does(kind, line, b, o)
    BY <1>3, <1>8, <2>1, <2>2, Zenon
  <2> QED  BY <2>3, Zenon
<1>9. CASE ~Short(framed) /\ ~Ignored(framed) /\ ~Plain(framed)
  <2>1. PICK kind : \A b, o : T!log(Dec(b, o, TRUE), l, <<l.fmt>> \o l.args) = Does(kind, l, b, o)
    BY <1>5
  <2>2. \A b, o : T!handle_packet(Dec(b, o, TRUE), framed) = Does(kind, l, b, o)
    BY <1>3, <1>9, <2>1, Zenon
  <2> QED  BY <2>2, Zenon
<1> QED  BY <1>6, <1>7, <1>8, <1>9, Zenon

\* And so does what is between two flags.
LEMMA PacketDoes ==
  ASSUME NEW p
  PROVE  \E kind, line : \A b, o : T!unescaped_packet(Dec(b, o, TRUE), p) = Does(kind, line, b, o)
<1>1. PICK u : u = T!unescape(p)
  OBVIOUS
<1>2. \A d : T!unescaped_packet(d, p)
               = IF u.escaped THEN Stopped(d) ELSE T!handle_packet(d, u.packet)
  BY <1>1, Zenon DEF T!unescaped_packet, Stopped
<1>3. CASE u.escaped
  <2>1. \A b, o : Stopped(Dec(b, o, TRUE)) = Dec(b, o, FALSE)
    BY DecIs
  <2>2. \A b, o : T!unescaped_packet(Dec(b, o, TRUE), p) = Does("ends", u, b, o)
    BY <1>2, <1>3, <2>1, Zenon DEF Does
  <2> QED  BY <2>2, Zenon
<1>4. CASE ~u.escaped
  <2>1. PICK kind, line :
          \A b, o : T!handle_packet(Dec(b, o, TRUE), u.packet) = Does(kind, line, b, o)
    BY HandleDoes
  <2>2. \A b, o : T!unescaped_packet(Dec(b, o, TRUE), p) = Does(kind, line, b, o)
    BY <1>2, <1>4, <2>1, Zenon
  <2> QED  BY <2>2, Zenon
<1> QED  BY <1>3, <1>4

\* The lines frames print.
Lines == {f.says[1] : f \in Frames}

\* What a frame does to every decoder is what it does alone.
LEMMA FrameDoes ==
  ASSUME NEW f \in Frames
  PROVE  /\ f.says \in Seq(Lines)
         /\ f.raw = <<>> => ~f.fatal /\ f.says = <<>>
         /\ f.raw # <<>> => \A b : \A o \in Seq(Lines) :
              T!unescaped_packet(Dec(b, o, TRUE), f.raw)
                = IF f.fatal THEN Dec(b, o, FALSE) ELSE Dec(b, o \o f.says, TRUE)
<1>1. Alone(f.raw).out = f.says /\ (Alone(f.raw).ok = ~f.fatal)
  BY FramesAssumption
<1>2. T!Start = Dec(<<>>, <<>>, TRUE)
  BY Zenon DEF T!Start, Dec
<1>3. ASSUME f.raw = <<>> PROVE ~f.fatal /\ f.says = <<>>
  <2>1. Alone(f.raw) = Dec(<<>>, <<>>, TRUE)
    BY <1>2, <1>3, Zenon DEF Alone
  <2>2. Dec(<<>>, <<>>, TRUE).out = <<>>
    BY DecIs
  <2>3. Dec(<<>>, <<>>, TRUE).ok
    BY DecRuns
  <2> QED  BY <1>1, <2>1, <2>2, <2>3, Zenon
<1>4. ASSUME f.raw # <<>>
      PROVE  /\ f.says \in Seq(Lines)
             /\ \A b : \A o \in Seq(Lines) :
                  T!unescaped_packet(Dec(b, o, TRUE), f.raw)
                    = IF f.fatal THEN Dec(b, o, FALSE) ELSE Dec(b, o \o f.says, TRUE)
  <2>1. PICK kind, line :
          \A b, o : T!unescaped_packet(Dec(b, o, TRUE), f.raw) = Does(kind, line, b, o)
    BY PacketDoes
  <2>2. Alone(f.raw) = Does(kind, line, <<>>, <<>>)
    BY <1>2, <1>4, <2>1, Zenon DEF Alone
  <2>3. CASE kind = "ends"
    <3>1. Alone(f.raw) = Dec(<<>>, <<>>, FALSE)
      BY <2>2, <2>3, Zenon DEF Does
    <3>2. Dec(<<>>, <<>>, FALSE).out = <<>>
      BY DecIs
    <3>3. ~Dec(<<>>, <<>>, FALSE).ok
      BY DecRuns
    <3>4. f.says = <<>> /\ f.fatal
      BY <1>1, <3>1, <3>2, <3>3, Zenon
    <3>5. <<>> \in Seq(Lines)
      OBVIOUS
    <3>6. \A b, o : T!unescaped_packet(Dec(b, o, TRUE), f.raw) = Dec(b, o, FALSE)
      BY <2>1, <2>3, Zenon DEF Does
    <3> QED  BY <3>4, <3>5, <3>6, Zenon
  <2>4. CASE kind = "says"
    <3>0. "says" # "ends"
      OBVIOUS
    <3>1. Alone(f.raw) = Dec(<<>>, Append(<<>>, line), TRUE)
      BY <2>2, <2>4, <3>0, Zenon DEF Does
    <3>2. Dec(<<>>, Append(<<>>, line), TRUE).out = Append(<<>>, line)
      BY DecIs
    <3>3. Dec(<<>>, Append(<<>>, line), TRUE).ok
      BY DecRuns
    <3>4. f.says = Append(<<>>, line) /\ ~f.fatal
      BY <1>1, <3>1, <3>2, <3>3, Zenon
    <3>5. f.says = <<line>>
      BY <3>4
    <3>6. line \in Lines
      BY <3>5 DEF Lines
    <3>7. f.says \in Seq(Lines)
      BY <3>5, <3>6
    <3>8. \A o \in Seq(Lines) : Append(o, line) = o \o <<line>>
      BY <3>6
    <3>9. \A b, o : T!unescaped_packet(Dec(b, o, TRUE), f.raw) = Dec(b, Append(o, line), TRUE)
      BY <2>1, <2>4, <3>0, Zenon DEF Does
    <3> QED  BY <3>4, <3>5, <3>7, <3>8, <3>9, Zenon
  <2>5. CASE kind # "ends" /\ kind # "says"
    <3>1. Alone(f.raw) = Dec(<<>>, <<>>, TRUE)
      BY <2>2, <2>5, Zenon DEF Does
    <3>2. Dec(<<>>, <<>>, TRUE).out = <<>>
      BY DecIs
    <3>3. Dec(<<>>, <<>>, TRUE).ok
      BY DecRuns
    <3>4. f.says = <<>> /\ ~f.fatal
      BY <1>1, <3>1, <3>2, <3>3, Zenon
    <3>5. <<>> \in Seq(Lines)
      OBVIOUS
    <3>6. \A b, o : T!unescaped_packet(Dec(b, o, TRUE), f.raw) = Dec(b, o, TRUE)
      BY <2>1, <2>5, Zenon DEF Does
    <3>7. \A o \in Seq(Lines) : o \o <<>> = o
      BY ConcatEmptySeq
    <3> QED  BY <3>4, <3>5, <3>6, <3>7, Zenon
  <2> QED  BY <2>3, <2>4, <2>5
<1>5. <<>> \in Seq(Lines)
  OBVIOUS
<1> QED  BY <1>3, <1>4, <1>5, Zenon

\* All frames of a stream are frames.
AreFrames(frames, n) == \A i \in 1..n : frames[i] \in Frames

\* What frames say grows as long as none ends the program.
LEMMA SaidGrows ==
  ASSUME NEW frames, NEW n \in Nat, AreFrames(frames, n)
  PROVE  /\ Survived(0, frames) /\ Said(0, frames) = <<>>
         /\ \A k \in 0..n : Said(k, frames) \in Seq(Lines)
         /\ \A k \in 0..(n-1) :
              /\ Survived(k + 1, frames) <=> Survived(k, frames) /\ ~frames[k+1].fatal
              /\ Said(k + 1, frames)
                   = Said(k, frames) \o (IF Survived(k + 1, frames) THEN frames[k+1].says ELSE <<>>)
<1>1. PICK s : s = [j \in 1..n |-> IF Survived(j, frames) THEN frames[j].says ELSE <<>>]
  OBVIOUS
<1>2. ASSUME NEW k \in 0..n PROVE Said(k, frames) = Flat(s, k)
  <2>1. \A j \in 1..k : j \in 1..n
    OBVIOUS
  <2>2. \A j \in 1..k : s[j] = IF Survived(j, frames) THEN frames[j].says ELSE <<>>
    BY <1>1, <2>1
  <2>3. [j \in 1..k |-> IF Survived(j, frames) THEN frames[j].says ELSE <<>>] = [j \in 1..k |-> s[j]]
    BY <2>2
  <2> QED  BY <2>3, Zenon DEF Said, Flat
<1>3. <<>> \in Seq(Lines)
  OBVIOUS
<1>4. \A j \in 1..n : s[j] \in Seq(Lines)
  <2> TAKE j \in 1..n
  <2>1. frames[j].says \in Seq(Lines)
    BY FrameDoes DEF AreFrames
  <2> QED  BY <1>1, <1>3, <2>1
<1>5. \A k \in 0..n : Said(k, frames) \in Seq(Lines)
  BY <1>2, <1>4, FlatSeq
<1>6. Survived(0, frames)
  BY DEF Survived
<1>7. Said(0, frames) = <<>>
  <2>1. PICK a : a = [i \in 1..0 |-> s[i]]
    OBVIOUS
  <2>2. Len(a) = 0 /\ a = <<>>
    BY <2>1
  <2>3. FlattenSeq(a) = a
    BY <2>2, FlattenIs
  <2>4. 0 \in 0..n
    OBVIOUS
  <2> QED  BY <1>2, <2>1, <2>2, <2>3, <2>4 DEF Flat
<1>8. ASSUME NEW k \in 0..(n-1)
      PROVE  /\ Survived(k + 1, frames) <=> Survived(k, frames) /\ ~frames[k+1].fatal
             /\ Said(k + 1, frames)
                  = Said(k, frames) \o (IF Survived(k + 1, frames) THEN frames[k+1].says ELSE <<>>)
  <2>1. k \in Nat /\ k \in 0..n /\ k + 1 \in 0..n /\ k + 1 \in 1..n
    OBVIOUS
  <2>2. \A j : j \in 1..(k+1) <=> j \in 1..k \/ j = k + 1
    OBVIOUS
  <2>3. Survived(k + 1, frames) <=> Survived(k, frames) /\ ~frames[k+1].fatal
    BY <2>2, Zenon DEF Survived
  <2>4. s[k+1] = IF Survived(k + 1, frames) THEN frames[k+1].says ELSE <<>>
    BY <1>1, <2>1
  <2>5. Flat(s, k + 1) = Flat(s, k) \o s[k+1]
    BY <1>4, <2>1, FlatGrows
  <2> QED  BY <1>2, <2>1, <2>3, <2>4, <2>5
<1> QED  BY <1>5, <1>6, <1>7, <1>8

\* A buffer begins at flag k and ends with the n bytes that were read.
Ahead(b, f, e, k, n) == Part(b, f, e[k] - 1, n - (e[k] - 1))

\* What a decoder holds that has read n bytes of f, and in them k frames.
Held(d, f, e, frames, k, n) ==
  \/ /\ Survived(k, frames)
     /\ \E b : d = Dec(b, Said(k, frames), TRUE) /\ Ahead(b, f, e, k, n)
  \/ /\ ~Survived(k, frames)
     /\ \E b : d = Dec(b, Said(k, frames), FALSE)

\* What cut_one does with a decoder that has stopped.
LEMMA CutStopped == ASSUME NEW b, NEW o PROVE T!cut_one(Dec(b, o, FALSE)) = Dec(b, o, FALSE)
<1>1. PICK d : d = Dec(b, o, FALSE)
  OBVIOUS
<1>2. ~d.ok
  BY <1>1, DecRuns
<1>3. T!cut_one(d) = d
  BY <1>2, Zenon DEF T!cut_one
<1> QED  BY <1>1, <1>3

\* What it does with one whose buffer has no second flag.
LEMMA CutNothing ==
  ASSUME NEW b, NEW o, T!Find(T!Flag, b, 2) = 0
  PROVE  T!cut_one(Dec(b, o, TRUE)) = Dec(b, o, TRUE)
<1>1. PICK d : d = Dec(b, o, TRUE)
  OBVIOUS
<1>2. d.buf = b
  BY <1>1, DecIs
<1>3. T!Find(T!Flag, d.buf, 2) = 0
  BY <1>2
<1>4. T!cut_one(d) = d
  BY <1>3, Zenon DEF T!cut_one
<1> QED  BY <1>1, <1>4

\* What it does with one whose buffer holds a packet between flags.
CutAs(b, o, packet, rest) ==
  T!cut_one(Dec(b, o, TRUE))
    = IF packet = <<>> THEN Dec(rest, o, TRUE)
      ELSE T!unescaped_packet(Dec(rest, o, TRUE), packet)

\* The packet is what is between them, and the rest begins at the second.
LEMMA CutFrame ==
  ASSUME NEW b, NEW o, NEW end, T!Find(T!Flag, b, 2) = end, end # 0,
         NEW packet, SubSeq(b, 2, end - 1) = packet, NEW rest, T!Rest(b, end) = rest
  PROVE  CutAs(b, o, packet, rest)
<1>1. PICK d : d = Dec(b, o, TRUE)
  OBVIOUS
<1>2. d.buf = b
  BY <1>1, DecIs
<1>3. d.ok
  BY <1>1, DecRuns
<1>4. Rebuffed(d, rest) = Dec(rest, o, TRUE)
  <2>1. PICK yes : yes = TRUE
    OBVIOUS
  <2>2. Rebuffed(Dec(b, o, yes), rest) = Dec(rest, o, yes)
    BY DecIs
  <2> QED  BY <1>1, <2>1, <2>2
<1>5. /\ T!Find(T!Flag, d.buf, 2) = end
      /\ SubSeq(d.buf, 2, end - 1) = packet
      /\ T!Rest(d.buf, end) = rest
  BY <1>2
<1>6. T!cut_one(d)
        = IF ~d.ok \/ T!Find(T!Flag, d.buf, 2) = 0 THEN d
          ELSE IF SubSeq(d.buf, 2, T!Find(T!Flag, d.buf, 2) - 1) = <<>>
               THEN Rebuffed(d, T!Rest(d.buf, T!Find(T!Flag, d.buf, 2)))
               ELSE T!unescaped_packet(Rebuffed(d, T!Rest(d.buf, T!Find(T!Flag, d.buf, 2))),
                                       SubSeq(d.buf, 2, T!Find(T!Flag, d.buf, 2) - 1))
  BY Zenon DEF T!cut_one, Rebuffed
<1>7. T!cut_one(d)
        = IF packet = <<>> THEN Rebuffed(d, rest) ELSE T!unescaped_packet(Rebuffed(d, rest), packet)
  BY <1>3, <1>5, <1>6, Zenon
<1> QED  BY <1>1, <1>4, <1>7 DEF CutAs

\* What it has next is frame k + 1, of r bytes.
FrameNext(b, f, e, frames, k, n, r) ==
  /\ T!Find(T!Flag, b, 2) = r + 2
  /\ SubSeq(b, 2, (r + 2) - 1) = frames[k+1].raw
  /\ Ahead(T!Rest(b, r + 2), f, e, k + 1, n)

\* So it is when that flag has been read.
LEMMA FrameIn ==
  ASSUME NEW f, NEW e, NEW frames, NEW m \in Nat, TraceIs(f, e, frames, m), AreFrames(frames, m),
         NEW k \in 0..(m-1), NEW n \in Nat, e[k+1] <= n,
         NEW b, Ahead(b, f, e, k, n),
         NEW r \in Nat, r = Len(frames[k+1].raw)
  PROVE  FrameNext(b, f, e, frames, k, n, r)
<1>1. k \in 0..m /\ k + 1 \in 0..m /\ k + 1 \in 1..m
  OBVIOUS
<1>2. PICK raw : raw = frames[k+1].raw
  OBVIOUS
<1>3. Bytes(raw, r) /\ \A i \in 1..r : raw[i] # T!Flag
  <2>1. frames[k+1] \in Frames
    BY <1>1 DEF AreFrames
  <2> QED  BY <1>2, <2>1, FrameParts
<1>4. e[k] \in Nat \ {0} /\ e[k+1] \in Nat \ {0} /\ f[e[k+1]] = T!Flag
  BY <1>1, Zenon DEF TraceIs
<1>5. e[k+1] = (e[k] + r) + 1
  BY Zenon DEF TraceIs
<1>6. \A i \in 1..r : f[e[k] + i] = raw[i]
  <2>1. \A i \in 1..Len(frames[k+1].raw) : f[e[k] + i] = frames[k+1].raw[i]
    BY Zenon DEF TraceIs
  <2> QED  BY <1>2, <2>1
<1>p. PICK p \in Nat \ {0} : p = e[k]
  BY <1>4
<1>q. PICK q \in Nat \ {0} : q = e[k+1]
  BY <1>4
<1>s. q = (p + r) + 1 /\ q <= n
  BY <1>5, <1>p, <1>q
<1>7. PICK c \in Nat : c + 1 = p
  <2>1. p - 1 \in Nat /\ (p - 1) + 1 = p
    OBVIOUS
  <2> QED  BY <2>1
<1>8. PICK w \in Nat : w + c = n /\ r + 2 <= w
  <2>1. n - c \in Nat /\ (n - c) + c = n /\ r + 2 <= n - c
    BY <1>s, <1>7
  <2> QED  BY <2>1
<1>9. e[k] - 1 = c /\ n - (e[k] - 1) = w
  <2>1. p - 1 = c /\ n - (p - 1) = w
    BY <1>7, <1>8
  <2> QED  BY <1>p, <2>1
<1>10. Part(b, f, c, w)
  BY <1>9 DEF Ahead
<1>11. Bytes(b, w) /\ \A i \in 1..w : b[i] = f[c + i]
  BY <1>10 DEF Part
<1>12. Len(b) = w
  BY <1>11 DEF Bytes
<1>13. \A i \in 1..r : b[1 + i] = raw[i]
  <2> TAKE i \in 1..r
  <2>1. 1 + i \in 1..w /\ c + (1 + i) = p + i
    BY <1>7, <1>8
  <2>2. b[1 + i] = f[p + i]
    BY <1>11, <2>1
  <2> QED  BY <1>6, <1>p, <2>2
<1>14. b[r + 2] = T!Flag
  <2>1. r + 2 \in 1..w /\ c + (r + 2) = q
    BY <1>s, <1>7, <1>8, SMTT(30)
  <2>2. b[r + 2] = f[q]
    BY <1>11, <2>1
  <2> QED  BY <1>4, <1>q, <2>2
<1>15. T!Find(T!Flag, b, 2) = r + 2
  <2>1. r + 2 \in 2..w /\ 2 \in Nat
    BY <1>8
  <2>2. \A j \in 2..((r + 2) - 1) : b[j] # T!Flag
    <3> TAKE j \in 2..((r + 2) - 1)
    <3>1. j - 1 \in 1..r /\ 1 + (j - 1) = j
      OBVIOUS
    <3> QED  BY <1>3, <1>13, <3>1
  <2>3. PICK i \in 2..w : i = r + 2
    BY <2>1
  <2>4. b[i] = T!Flag /\ \A j \in 2..(i - 1) : b[j] # T!Flag
    BY <1>14, <2>2, <2>3
  <2>5. T!Find(T!Flag, b, 2) = i
    BY <1>12, <2>1, <2>4, FindIs
  <2> QED  BY <2>3, <2>5
<1>16. SubSeq(b, 2, (r + 2) - 1) = raw
  <2>1. 1 \in Nat /\ 1 + r <= w /\ 1 + 1 = 2 /\ (r + 2) - 1 = 1 + r
    BY <1>8
  <2>2. SubSeq(b, 1 + 1, 1 + r) = raw
    BY <1>3, <1>11, <1>13, <2>1, PartIs
  <2> QED  BY <2>1, <2>2
<1>17. Part(T!Rest(b, r + 2), f, e[k+1] - 1, n - (e[k+1] - 1))
  <2>1. PICK x \in Nat : x = r + 1
    OBVIOUS
  <2>2. PICK v \in Nat : x + v = w
    <3>0. x <= w
      BY <1>8, <2>1
    <3>1. w - x \in Nat /\ x + (w - x) = w
      BY <3>0
    <3> QED  BY <3>1
  <2>3. x + v <= w
    BY <2>2
  <2>4. Part(SubSeq(b, x + 1, x + v), f, c + x, v)
    BY <1>10, <2>3, PartOfPart
  <2>5. x + 1 = r + 2 /\ c + x = q - 1 /\ v = n - (q - 1)
    <3>1. x + 1 = r + 2
      BY <2>1
    <3>2. q = (c + x) + 1
      BY <1>s, <1>7, <2>1, SMTT(30)
    <3>3. c + x = q - 1
      BY <3>2
    <3>4. n = (c + x) + v
      BY <1>8, <2>2
    <3>5. v = n - (c + x)
      BY <3>4
    <3> QED  BY <3>1, <3>3, <3>5
  <2>6. T!Rest(b, r + 2) = SubSeq(b, x + 1, x + v)
    BY <1>12, <2>2, <2>5 DEF T!Rest, T!From
  <2> QED  BY <1>q, <2>4, <2>5, <2>6
<1>18. Ahead(T!Rest(b, r + 2), f, e, k + 1, n)
  BY <1>17, Zenon DEF Ahead
<1> QED  BY <1>2, <1>15, <1>16, <1>18, Zenon DEF FrameNext

\* A buffer that ends before the next flag does has no second one.
LEMMA NoFrameIn ==
  ASSUME NEW f, NEW e, NEW frames, NEW m \in Nat, TraceIs(f, e, frames, m), AreFrames(frames, m),
         NEW k \in 0..m, NEW n \in Nat, n <= e[m], e[k] <= n, k = m \/ n < e[k+1],
         NEW b, Ahead(b, f, e, k, n)
  PROVE  T!Find(T!Flag, b, 2) = 0
<1>1. PICK p \in Nat \ {0} : p = e[k]
  <2>1. e[k] \in Nat \ {0}
    BY Zenon DEF TraceIs
  <2> QED  BY <2>1
<1>2. PICK c \in Nat : c + 1 = p
  <2>1. p - 1 \in Nat /\ (p - 1) + 1 = p
    OBVIOUS
  <2> QED  BY <2>1
<1>3. PICK w \in Nat : w + c = n
  <2>0. c <= n
    BY <1>1, <1>2
  <2>1. n - c \in Nat /\ (n - c) + c = n
    BY <2>0
  <2> QED  BY <2>1
<1>4. e[k] - 1 = c /\ n - (e[k] - 1) = w
  <2>1. p - 1 = c /\ n - (p - 1) = w
    BY <1>2, <1>3
  <2> QED  BY <1>1, <2>1
<1>5. Part(b, f, c, w)
  BY <1>4 DEF Ahead
<1>6. Bytes(b, w) /\ \A i \in 1..w : b[i] = f[c + i]
  BY <1>5 DEF Part
<1>7. Len(b) = w
  BY <1>6 DEF Bytes
<1>8. \A i \in 2..w : b[i] # T!Flag
  <2>1. CASE k = m
    <3>1. n <= p
      BY <1>1, <2>1
    <3>2. 2..w = {}
      BY <1>2, <1>3, <3>1
    <3> QED  BY <3>2
  <2>2. CASE k # m
    <3>1. k \in 0..(m-1) /\ k + 1 \in 1..m /\ k + 1 \in 0..m
      BY <2>2
    <3>2. PICK r \in Nat : r = Len(frames[k+1].raw)
      <4>1. frames[k+1] \in Frames
        BY <3>1 DEF AreFrames
      <4>2. Len(frames[k+1].raw) \in Nat
        BY <4>1, FrameParts
      <4> QED  BY <4>2
    <3>3. PICK q \in Nat : q = e[k+1]
      <4>1. e[k+1] \in Nat
        BY <3>1, Zenon DEF TraceIs
      <4> QED  BY <4>1
    <3>4. q = (p + r) + 1
      <4>1. e[k+1] = (e[k] + Len(frames[k+1].raw)) + 1
        BY <3>1, Zenon DEF TraceIs
      <4> QED  BY <1>1, <3>2, <3>3, <4>1
    <3>5. n < q
      BY <2>2, <3>3
    <3>6. \A i \in 1..r : f[p + i] # T!Flag
      <4>1. \A i \in 1..Len(frames[k+1].raw) : f[e[k] + i] = frames[k+1].raw[i]
        BY <3>1, Zenon DEF TraceIs
      <4>2. \A i \in 1..Len(frames[k+1].raw) : frames[k+1].raw[i] # T!Flag
        <5>1. frames[k+1] \in Frames
          BY <3>1 DEF AreFrames
        <5> QED  BY <5>1, FrameParts
      <4> QED  BY <1>1, <3>2, <4>1, <4>2
    <3> TAKE i \in 2..w
    <3>7. i - 1 \in 1..r /\ c + i = p + (i - 1)
      BY <1>2, <1>3, <3>4, <3>5
    <3>8. i \in 1..w
      OBVIOUS
    <3> QED  BY <1>6, <3>6, <3>7, <3>8
  <2> QED  BY <2>1, <2>2
<1>9. 2 \in Nat
  OBVIOUS
<1>10. (\A i \in 2..w : b[i] # T!Flag) => T!Find(T!Flag, b, 2) = 0
  BY <1>7, <1>9, FindIs
<1> QED  BY <1>8, <1>10

\* cut_one takes the next frame off.
LEMMA CutOneNext ==
  ASSUME NEW f, NEW e, NEW frames, NEW m \in Nat, TraceIs(f, e, frames, m), AreFrames(frames, m),
         NEW k \in 0..(m-1), NEW n \in Nat, e[k+1] <= n,
         NEW d, Held(d, f, e, frames, k, n)
  PROVE  Held(T!cut_one(d), f, e, frames, k + 1, n)
<1>1. k \in 0..m /\ k + 1 \in 0..m /\ k + 1 \in 1..m
  OBVIOUS
<1>2. /\ Said(k, frames) \in Seq(Lines)
      /\ Survived(k + 1, frames) <=> Survived(k, frames) /\ ~frames[k+1].fatal
      /\ Said(k + 1, frames)
           = Said(k, frames) \o (IF Survived(k + 1, frames) THEN frames[k+1].says ELSE <<>>)
  BY <1>1, SaidGrows
<1>3. PICK g \in Frames : g = frames[k+1]
  <2>1. frames[k+1] \in Frames
    BY <1>1 DEF AreFrames
  <2> QED  BY <2>1
<1>4. PICK o \in Seq(Lines) : o = Said(k, frames)
  BY <1>2
<1>5. o \o <<>> = o
  BY ConcatEmptySeq
<1>6. CASE ~Survived(k, frames)
  <2>1. PICK b : d = Dec(b, o, FALSE)
    BY <1>4, <1>6 DEF Held
  <2>2. T!cut_one(d) = d
    BY <2>1, CutStopped
  <2>3. ~Survived(k + 1, frames)
    BY <1>2, <1>6
  <2>4. Said(k + 1, frames) = o
    BY <1>2, <1>4, <1>5, <2>3
  <2> QED  BY <2>1, <2>2, <2>3, <2>4 DEF Held
<1>7. CASE Survived(k, frames)
  <2>1. PICK b : d = Dec(b, o, TRUE) /\ Ahead(b, f, e, k, n)
    BY <1>4, <1>7 DEF Held
  <2>2. PICK r \in Nat : r = Len(frames[k+1].raw)
    BY <1>3, FrameParts
  <2>3. PICK end \in Nat : end = r + 2
    BY <2>2
  <2>4. PICK rest : rest = T!Rest(b, end)
    OBVIOUS
  <2>5. /\ T!Find(T!Flag, b, 2) = end
        /\ SubSeq(b, 2, end - 1) = g.raw
        /\ Ahead(rest, f, e, k + 1, n)
    <3>1. Ahead(b, f, e, k, n)
      BY <2>1
    <3>2. FrameNext(b, f, e, frames, k, n, r)
      BY <2>2, <3>1, FrameIn
    <3> QED  BY <1>3, <2>3, <2>4, <3>2 DEF FrameNext
  <2>6. end # 0
    BY <2>2, <2>3
  <2>7. T!cut_one(Dec(b, o, TRUE))
          = IF g.raw = <<>> THEN Dec(rest, o, TRUE)
            ELSE T!unescaped_packet(Dec(rest, o, TRUE), g.raw)
    <3>1. T!Find(T!Flag, b, 2) = end /\ SubSeq(b, 2, end - 1) = g.raw /\ T!Rest(b, end) = rest
      BY <2>4, <2>5
    <3>2. CutAs(b, o, g.raw, rest)
      BY <2>6, <3>1, CutFrame
    <3> QED  BY <3>2 DEF CutAs
  <2>8. T!cut_one(d) = IF g.fatal THEN Dec(rest, o, FALSE) ELSE Dec(rest, o \o g.says, TRUE)
    <3>1. CASE g.raw = <<>>
      <4>1. ~g.fatal /\ g.says = <<>>
        BY <3>1, FrameDoes
      <4>2. T!cut_one(d) = Dec(rest, o, TRUE)
        BY <2>1, <2>7, <3>1
      <4> QED  BY <1>5, <4>1, <4>2
    <3>2. CASE g.raw # <<>>
      <4>1. T!unescaped_packet(Dec(rest, o, TRUE), g.raw)
              = IF g.fatal THEN Dec(rest, o, FALSE) ELSE Dec(rest, o \o g.says, TRUE)
        BY <3>2, FrameDoes
      <4>2. T!cut_one(d) = T!unescaped_packet(Dec(rest, o, TRUE), g.raw)
        BY <2>1, <2>7, <3>2
      <4> QED  BY <4>1, <4>2
    <3> QED  BY <3>1, <3>2
  <2>9. CASE g.fatal
    <3>1. ~Survived(k + 1, frames)
      BY <1>2, <1>3, <2>9
    <3>2. Said(k + 1, frames) = o
      BY <1>2, <1>4, <1>5, <3>1
    <3>3. T!cut_one(d) = Dec(rest, o, FALSE)
      BY <2>8, <2>9
    <3> QED  BY <3>1, <3>2, <3>3 DEF Held
  <2>10. CASE ~g.fatal
    <3>1. Survived(k + 1, frames)
      BY <1>2, <1>3, <1>7, <2>10
    <3>2. Said(k + 1, frames) = o \o g.says
      BY <1>2, <1>3, <1>4, <3>1
    <3>3. T!cut_one(d) = Dec(rest, o \o g.says, TRUE)
      BY <2>8, <2>10
    <3>4. Ahead(rest, f, e, k + 1, n)
      BY <2>5
    <3> QED  BY <3>1, <3>2, <3>3, <3>4 DEF Held
  <2> QED  BY <2>9, <2>10
<1> QED  BY <1>6, <1>7

\* Behind the last frame it changes nothing.
LEMMA CutOneEnd ==
  ASSUME NEW f, NEW e, NEW frames, NEW m \in Nat, TraceIs(f, e, frames, m), AreFrames(frames, m),
         NEW k \in 0..m, NEW n \in Nat, n <= e[m], e[k] <= n, k = m \/ n < e[k+1],
         NEW d, Held(d, f, e, frames, k, n)
  PROVE  T!cut_one(d) = d
<1>1. CASE ~Survived(k, frames)
  <2>1. PICK b : d = Dec(b, Said(k, frames), FALSE)
    BY <1>1 DEF Held
  <2> QED  BY <2>1, CutStopped
<1>2. CASE Survived(k, frames)
  <2>1. PICK b : d = Dec(b, Said(k, frames), TRUE) /\ Ahead(b, f, e, k, n)
    BY <1>2 DEF Held
  <2>2. T!Find(T!Flag, b, 2) = 0
    BY <2>1, NoFrameIn
  <2> QED  BY <2>1, <2>2, CutNothing
<1> QED  BY <1>1, <1>2

\* The flags come one behind the other.
LEMMA FlagsRise ==
  ASSUME NEW f, NEW e, NEW frames, NEW m \in Nat, TraceIs(f, e, frames, m), AreFrames(frames, m),
         NEW k \in 0..m
  PROVE  \A j \in 0..(m-k) : e[k+j] \in Nat \ {0} /\ e[k] + j <= e[k+j]
<1> DEFINE N == {j \in 0..(m-k) : e[k] + j <= e[k+j]}
<1>1. \A j \in 0..m : e[j] \in Nat \ {0}
  BY Zenon DEF TraceIs
<1>2. \A j \in 0..(m-k) : k + j \in 0..m
  OBVIOUS
<1>3. \A j \in 0..(m-k) : e[k+j] \in Nat \ {0}
  BY <1>1, <1>2
<1>4. 0 \in N
  <2>1. 0 \in 0..(m-k) /\ k + 0 = k
    OBVIOUS
  <2>2. e[k] + 0 <= e[k]
    BY <1>1
  <2> QED  BY <2>1, <2>2
<1>5. \A j \in 0..((m-k)-1) : j \in N => j + 1 \in N
  <2> SUFFICES ASSUME NEW j \in 0..((m-k)-1), j \in N PROVE j + 1 \in N
    OBVIOUS
  <2>1. /\ k + j \in 0..(m-1) /\ k + j \in 0..m /\ (k + j) + 1 = k + (j + 1)
        /\ (k + j) + 1 \in 1..m /\ j + 1 \in 0..(m-k)
    OBVIOUS
  <2>2. PICK r \in Nat : r = Len(frames[(k+j)+1].raw)
    <3>1. frames[(k+j)+1] \in Frames
      BY <2>1 DEF AreFrames
    <3>2. Len(frames[(k+j)+1].raw) \in Nat
      BY <3>1, FrameParts
    <3> QED  BY <3>2
  <2>3. e[(k+j)+1] = (e[k+j] + r) + 1
    <3>1. e[(k+j)+1] = (e[k+j] + Len(frames[(k+j)+1].raw)) + 1
      BY <2>1, Zenon DEF TraceIs
    <3> QED  BY <2>2, <3>1
  <2>4. PICK p \in Nat, q \in Nat : p = e[k] /\ q = e[k+j]
    BY <1>1, <2>1
  <2>5. p + j <= q
    BY <2>4
  <2>6. p + (j + 1) <= (q + r) + 1
    BY <2>5
  <2> QED  BY <2>1, <2>3, <2>4, <2>6
<1> HIDE DEF N
<1>6. \A j \in 0..(m-k) : j \in N
  <2>1. m - k \in Nat
    OBVIOUS
  <2> QED  BY <1>4, <1>5, <2>1, Climb
<1> QED  BY <1>3, <1>6 DEF N

\* Some frame is the last whose flag has been read.
LEMMA SomeClosed ==
  ASSUME NEW e, NEW m \in Nat, NEW n \in Nat, e[0] <= n, \A k \in 0..m : e[k] \in Nat
  PROVE  \E k \in 0..m : e[k] <= n /\ (k = m \/ n < e[k+1])
<1> SUFFICES ASSUME \A k \in 0..m : ~(e[k] <= n /\ (k = m \/ n < e[k+1]))
             PROVE  FALSE
  OBVIOUS
<1> DEFINE N == {k \in 0..m : e[k] <= n}
<1>1. 0 \in N
  OBVIOUS
<1>2. \A k \in 0..(m-1) : k \in N => k + 1 \in N
  <2> SUFFICES ASSUME NEW k \in 0..(m-1), k \in N PROVE k + 1 \in N
    OBVIOUS
  <2>1. k \in 0..m /\ k + 1 \in 0..m /\ k # m
    OBVIOUS
  <2>2. PICK q \in Nat : q = e[k+1]
    BY <2>1
  <2>3. ~(n < q)
    BY <2>1, <2>2
  <2>4. q <= n
    BY <2>3
  <2> QED  BY <2>1, <2>2, <2>4
<1> HIDE DEF N
<1>3. \A k \in 0..m : k \in N
  BY <1>1, <1>2, Climb
<1>4. m \in 0..m
  OBVIOUS
<1> QED  BY <1>3, <1>4 DEF N

\* g[i] is what i rounds of the inner loop make of d.
Cuts(g, d, l) == g = [i \in 0..l |-> IF i = 0 THEN d ELSE T!cut_one(g[i-1])]

\* Such a function exists.
LEMMA CutsExist ==
  ASSUME NEW d, NEW l \in Nat
  PROVE  \E g : Cuts(g, d, l)
<1> DEFINE N == {k \in 0..l : \E g : Cuts(g, d, k)}
<1>1. 0 \in N
  <2>1. PICK g : g = [i \in 0..0 |-> d]
    OBVIOUS
  <2>2. g = [i \in 0..0 |-> IF i = 0 THEN d ELSE T!cut_one(g[i-1])]
    BY <2>1
  <2>3. Cuts(g, d, 0)
    BY <2>2 DEF Cuts
  <2> QED  BY <2>3
<1>2. \A k \in 0..(l-1) : k \in N => k + 1 \in N
  <2> SUFFICES ASSUME NEW k \in 0..(l-1), k \in N PROVE k + 1 \in N
    OBVIOUS
  <2>1. PICK g : Cuts(g, d, k)
    OBVIOUS
  <2>2. \A i \in 0..k : g[i] = IF i = 0 THEN d ELSE T!cut_one(g[i-1])
    BY <2>1 DEF Cuts
  <2>3. PICK h : h = [i \in 0..(k+1) |-> IF i \in 0..k THEN g[i] ELSE T!cut_one(g[i-1])]
    OBVIOUS
  <2>4. \A i \in 0..(k+1) : h[i] = IF i = 0 THEN d ELSE T!cut_one(h[i-1])
    <3> TAKE i \in 0..(k+1)
    <3>1. CASE i = 0
      BY <2>2, <2>3, <3>1
    <3>2. CASE i # 0
      <4>1. i - 1 \in 0..k /\ i - 1 \in 0..(k+1)
        BY <3>2
      <4>2. h[i-1] = g[i-1]
        BY <2>3, <4>1
      <4>3. h[i] = T!cut_one(g[i-1])
        BY <2>2, <2>3, <3>2
      <4> QED  BY <3>2, <4>2, <4>3
    <3> QED  BY <3>1, <3>2
  <2>5. h = [i \in 0..(k+1) |-> h[i]]
    BY <2>3
  <2>6. h = [i \in 0..(k+1) |-> IF i = 0 THEN d ELSE T!cut_one(h[i-1])]
    BY <2>4, <2>5
  <2>7. Cuts(h, d, k + 1)
    BY <2>6 DEF Cuts
  <2>8. k + 1 \in 0..l
    OBVIOUS
  <2> QED  BY <2>7, <2>8
<1> HIDE DEF N
<1>3. l \in N
  BY <1>1, <1>2, Climb
<1> QED  BY <1>3 DEF N

\* And the inner loop is its last value.
LEMMA CutIs ==
  ASSUME NEW d, NEW l \in Nat, Len(d.buf) = l
  PROVE  \E g : Cuts(g, d, l) /\ T!cut(d) = g[l]
<1> DEFINE v == CHOOSE g : Cuts(g, d, l)
<1>1. Cuts(v, d, l)
  BY CutsExist
<1>2. v = CHOOSE g : g = [i \in 0..Len(d.buf) |-> IF i = 0 THEN d ELSE T!cut_one(g[i-1])]
  BY DEF Cuts
<1>3. T!cut(d) = v[Len(d.buf)]
  BY <1>2, Zenon DEF T!cut
<1> HIDE DEF v
<1> QED  BY <1>1, <1>3

\* The inner loop takes off every frame whose flag has been read.
LEMMA CutReaches ==
  ASSUME NEW f, NEW e, NEW frames, NEW m \in Nat, TraceIs(f, e, frames, m), AreFrames(frames, m),
         NEW k \in 0..m, NEW j \in 0..(m-k), NEW n \in Nat, n <= e[m],
         e[k+j] <= n, k + j = m \/ n < e[(k+j)+1],
         NEW d, Held(d, f, e, frames, k, n), NEW l \in Nat, j <= l, NEW g, Cuts(g, d, l)
  PROVE  Held(g[l], f, e, frames, k + j, n)
<1>1. g[0] = d /\ \A i \in 0..(l-1) : g[i+1] = T!cut_one(g[i])
  <2>1. \A i \in 0..l : g[i] = IF i = 0 THEN d ELSE T!cut_one(g[i-1])
    BY DEF Cuts
  <2>2. 0 \in 0..l
    OBVIOUS
  <2>3. \A i \in 0..(l-1) : i + 1 \in 0..l /\ i + 1 # 0 /\ (i + 1) - 1 = i
    OBVIOUS
  <2> QED  BY <2>1, <2>2, <2>3
<1>2. \A i \in 0..j : i \in {h \in 0..j : Held(g[h], f, e, frames, k + h, n)}
  <2> DEFINE N == {h \in 0..j : Held(g[h], f, e, frames, k + h, n)}
  <2>1. 0 \in N
    <3>1. 0 \in 0..j /\ k + 0 = k
      OBVIOUS
    <3> QED  BY <1>1, <3>1
  <2>2. \A i \in 0..(j-1) : i \in N => i + 1 \in N
    <3> SUFFICES ASSUME NEW i \in 0..(j-1), i \in N PROVE i + 1 \in N
      OBVIOUS
    <3>1. /\ k + i \in 0..(m-1) /\ (k + i) + 1 = k + (i + 1) /\ i \in 0..(l-1) /\ i + 1 \in 0..j
          /\ (k + i) + 1 \in 0..m
      OBVIOUS
    <3>2. e[(k+i)+1] <= n
      <4>1. PICK a \in 0..m : a = (k + i) + 1
        BY <3>1
      <4>2. PICK b \in 0..(m-a) : a + b = k + j
        <5>1. (k + j) - a \in 0..(m-a) /\ a + ((k + j) - a) = k + j
          BY <4>1
        <5> QED  BY <5>1
      <4>3. e[a+b] \in Nat \ {0} /\ e[a] + b <= e[a+b]
        BY FlagsRise
      <4>4. e[a+0] \in Nat \ {0} /\ a + 0 = a
        <5>1. 0 \in 0..(m-a) /\ a + 0 = a
          OBVIOUS
        <5> QED  BY <5>1, FlagsRise
      <4>5. PICK p \in Nat, q \in Nat : p = e[a] /\ q = e[a+b]
        BY <4>3, <4>4
      <4>6. p + b <= q /\ q <= n
        BY <4>2, <4>3, <4>5
      <4>7. p <= n
        BY <4>6
      <4> QED  BY <4>1, <4>5, <4>7
    <3>3. Held(g[i], f, e, frames, k + i, n)
      OBVIOUS
    <3>4. Held(T!cut_one(g[i]), f, e, frames, (k + i) + 1, n)
      BY <3>1, <3>2, <3>3, CutOneNext
    <3> QED  BY <1>1, <3>1, <3>4
  <2> HIDE DEF N
  <2>3. \A i \in 0..j : i \in N
    BY <2>1, <2>2, Climb
  <2> QED  BY <2>3 DEF N
<1>3. Held(g[j], f, e, frames, k + j, n)
  <2>1. j \in 0..j
    OBVIOUS
  <2> QED  BY <1>2, <2>1
<1>4. T!cut_one(g[j]) = g[j]
  <2>1. k + j \in 0..m
    OBVIOUS
  <2> QED  BY <1>3, <2>1, CutOneEnd
<1>5. PICK x \in Nat : j + x = l
  <2>1. l - j \in Nat /\ j + (l - j) = l
    OBVIOUS
  <2> QED  BY <2>1
<1>6. g[j+x] = g[j]
  <2> DEFINE N == {h \in 0..x : g[j+h] = g[j]}
  <2>1. 0 \in N
    <3>1. 0 \in 0..x /\ j + 0 = j
      OBVIOUS
    <3> QED  BY <3>1
  <2>2. \A i \in 0..(x-1) : i \in N => i + 1 \in N
    <3> SUFFICES ASSUME NEW i \in 0..(x-1), i \in N PROVE i + 1 \in N
      OBVIOUS
    <3>1. j + i \in 0..(l-1) /\ (j + i) + 1 = j + (i + 1) /\ i + 1 \in 0..x
      BY <1>5
    <3>2. g[(j+i)+1] = T!cut_one(g[j+i])
      BY <1>1, <3>1
    <3> QED  BY <1>4, <3>1, <3>2
  <2> HIDE DEF N
  <2>3. x \in N
    <3>1. \A i \in 0..x : i \in N
      BY <2>1, <2>2, Climb
    <3> QED  BY <3>1
  <2> QED  BY <2>3 DEF N
<1> QED  BY <1>3, <1>5, <1>6

\* What a decoder is when the first n bytes of f have been read.
TraceAt(d, f, e, frames, m, n) ==
  \/ n < e[0] /\ d = Dec(<<>>, <<>>, TRUE)
  \/ \E k \in 0..m : e[k] <= n /\ (k = m \/ n < e[k+1]) /\ Held(d, f, e, frames, k, n)

\* The loop finds every frame that has been read.
LEMMA CutHeld ==
  ASSUME NEW f, NEW e, NEW frames, NEW m \in Nat, TraceIs(f, e, frames, m), AreFrames(frames, m),
         NEW k \in 0..m, NEW n \in Nat, n <= e[m], e[k] <= n,
         NEW b, Ahead(b, f, e, k, n), Survived(k, frames)
  PROVE  TraceAt(T!cut(Dec(b, Said(k, frames), TRUE)), f, e, frames, m, n)
<1>1. PICK d : d = Dec(b, Said(k, frames), TRUE)
  OBVIOUS
<1>2. Held(d, f, e, frames, k, n)
  BY <1>1 DEF Held
<1>3. \A i \in 0..m : e[i] \in Nat \ {0}
  BY Zenon DEF TraceIs
<1>4. e[0] <= n
  <2>1. 0 \in 0..m /\ k \in 0..(m-0) /\ 0 + k = k
    OBVIOUS
  <2>2. e[0] + k <= e[0+k]
    BY <2>1, FlagsRise
  <2>3. PICK p \in Nat, q \in Nat : p = e[0] /\ q = e[k]
    BY <1>3, <2>1
  <2>4. p + k <= q /\ q <= n
    BY <2>1, <2>2, <2>3
  <2>5. p <= n
    BY <2>4
  <2> QED  BY <2>3, <2>5
<1>5. PICK h \in 0..m : e[h] <= n /\ (h = m \/ n < e[h+1])
  <2>1. \A i \in 0..m : e[i] \in Nat
    BY <1>3
  <2> QED  BY <1>4, <2>1, SomeClosed
<1>6. k <= h
  <2> SUFFICES ASSUME ~(k <= h) PROVE FALSE
    OBVIOUS
  <2>1. h + 1 \in 0..m /\ h # m
    OBVIOUS
  <2>2. PICK x \in 0..(m-(h+1)) : (h + 1) + x = k
    <3>1. k - (h + 1) \in 0..(m-(h+1)) /\ (h + 1) + (k - (h + 1)) = k
      OBVIOUS
    <3> QED  BY <3>1
  <2>3. e[h+1] + x <= e[(h+1)+x]
    BY <2>1, FlagsRise
  <2>4. PICK p \in Nat, q \in Nat : p = e[h+1] /\ q = e[k]
    BY <1>3, <2>1
  <2>5. p + x <= q /\ q <= n /\ n < p
    BY <1>5, <2>1, <2>2, <2>3, <2>4
  <2> QED  BY <2>5
<1>7. PICK j \in 0..(m-k) : k + j = h
  <2>1. h - k \in 0..(m-k) /\ k + (h - k) = h
    BY <1>6
  <2> QED  BY <2>1
<1>8. PICK l \in Nat : l = Len(b) /\ j <= l
  <2>1. PICK p \in Nat \ {0}, q \in Nat : p = e[k] /\ q = e[k+j]
    BY <1>3, <1>7
  <2>2. p + j <= q
    BY <2>1, FlagsRise
  <2>3. q <= n /\ p <= n
    BY <1>5, <1>7, <2>1
  <2>4. n - (p - 1) \in Nat /\ j <= n - (p - 1)
    BY <2>2, <2>3
  <2>5. Bytes(b, n - (e[k] - 1))
    BY DEF Ahead, Part
  <2>6. Len(b) = n - (p - 1)
    BY <2>1, <2>5 DEF Bytes
  <2> QED  BY <2>4, <2>6
<1>9. PICK g : Cuts(g, d, l) /\ T!cut(d) = g[l]
  <2>1. d.buf = b
    BY <1>1, DecIs
  <2>2. Len(d.buf) = l
    BY <1>8, <2>1
  <2> QED  BY <2>2, CutIs
<1>10. Held(g[l], f, e, frames, k + j, n)
  <2>1. e[k+j] <= n /\ (k + j = m \/ n < e[(k+j)+1])
    BY <1>5, <1>7
  <2> QED  BY <1>2, <1>8, <1>9, <2>1, CutReaches
<1>11. Held(T!cut(d), f, e, frames, h, n)
  BY <1>7, <1>9, <1>10
<1> QED  BY <1>1, <1>5, <1>11 DEF TraceAt

\* A frame that ended the program keeps it ended.
LEMMA StaysStopped ==
  ASSUME NEW frames, NEW m \in Nat, AreFrames(frames, m), NEW k \in 0..m, ~Survived(k, frames)
  PROVE  \A j \in 0..(m-k) : ~Survived(k + j, frames) /\ Said(k + j, frames) = Said(k, frames)
<1> DEFINE N == {j \in 0..(m-k) : ~Survived(k + j, frames) /\ Said(k + j, frames) = Said(k, frames)}
<1>1. 0 \in N
  <2>1. 0 \in 0..(m-k) /\ k + 0 = k
    OBVIOUS
  <2> QED  BY <2>1
<1>2. \A j \in 0..((m-k)-1) : j \in N => j + 1 \in N
  <2> SUFFICES ASSUME NEW j \in 0..((m-k)-1), j \in N PROVE j + 1 \in N
    OBVIOUS
  <2>1. k + j \in 0..(m-1) /\ k + j \in 0..m /\ (k + j) + 1 = k + (j + 1) /\ j + 1 \in 0..(m-k)
    OBVIOUS
  <2>2. ~Survived((k + j) + 1, frames)
    BY <2>1, SaidGrows
  <2>3. Said((k + j) + 1, frames)
          = Said(k + j, frames)
              \o (IF Survived((k + j) + 1, frames) THEN frames[(k+j)+1].says ELSE <<>>)
    BY <2>1, SaidGrows
  <2>4. PICK o \in Seq(Lines) : o = Said(k + j, frames)
    BY <2>1, SaidGrows
  <2>5. o \o <<>> = o
    BY ConcatEmptySeq
  <2>6. Said((k + j) + 1, frames) = o
    BY <2>2, <2>3, <2>4, <2>5
  <2> QED  BY <2>1, <2>2, <2>4, <2>6
<1> HIDE DEF N
<1>3. \A j \in 0..(m-k) : j \in N
  <2>1. m - k \in Nat
    OBVIOUS
  <2> QED  BY <1>1, <1>2, <2>1, Climb
<1> QED  BY <1>3 DEF N

\* What read does with a decoder that has stopped.
LEMMA ReadStopped == ASSUME NEW b, NEW o, NEW new PROVE T!read(Dec(b, o, FALSE), new) = Dec(b, o, FALSE)
<1>1. PICK d : d = Dec(b, o, FALSE)
  OBVIOUS
<1>2. ~d.ok
  BY <1>1, DecRuns
<1>3. T!read(d, new) = d
  BY <1>2, Zenon DEF T!read
<1> QED  BY <1>1, <1>3

\* What it does with one that runs, with start the first flag of its buffer.
ReadAs(b, o, new, buf, start) ==
  T!read(Dec(b, o, TRUE), new)
    = IF start = 0 THEN Dec(<<>>, o, TRUE) ELSE T!cut(Dec(T!From(buf, start), o, TRUE))

\* The buffer is what it held and what was read.
LEMMA ReadRuns ==
  ASSUME NEW b, NEW o, NEW new, NEW buf, buf = b \o new, NEW start, T!Find(T!Flag, buf, 1) = start
  PROVE  ReadAs(b, o, new, buf, start)
<1>1. PICK d : d = Dec(b, o, TRUE)
  OBVIOUS
<1>2. d.buf \o new = buf
  BY <1>1, DecIs
<1>3. d.ok
  BY <1>1, DecRuns
<1>4. ASSUME NEW c PROVE Rebuffed(d, c) = Dec(c, o, TRUE)
  <2>1. PICK yes : yes = TRUE
    OBVIOUS
  <2>2. Rebuffed(Dec(b, o, yes), c) = Dec(c, o, yes)
    BY DecIs
  <2> QED  BY <1>1, <2>1, <2>2
<1>5. T!read(d, new)
        = IF ~d.ok THEN d
          ELSE IF T!Find(T!Flag, d.buf \o new, 1) = 0 THEN Rebuffed(d, <<>>)
          ELSE T!cut(Rebuffed(d, T!From(d.buf \o new, T!Find(T!Flag, d.buf \o new, 1))))
  BY Zenon DEF T!read, Rebuffed
<1>6. T!Find(T!Flag, d.buf \o new, 1) = start
  BY <1>2
<1>7. T!read(d, new) = IF start = 0 THEN Rebuffed(d, <<>>) ELSE T!cut(Rebuffed(d, T!From(buf, start)))
  BY <1>2, <1>3, <1>5, <1>6, Zenon
<1> QED  BY <1>1, <1>4, <1>7 DEF ReadAs

\* A read of r bytes behind the first n.
LEMMA ReadKeeps ==
  ASSUME NEW f, NEW e, NEW frames, NEW m \in Nat, TraceIs(f, e, frames, m), AreFrames(frames, m),
         NEW n \in Nat, NEW r \in Nat, n + r <= e[m],
         NEW d, TraceAt(d, f, e, frames, m, n), NEW new, Part(new, f, n, r)
  PROVE  TraceAt(T!read(d, new), f, e, frames, m, n + r)
<1>1. \A i \in 0..m : e[i] \in Nat \ {0} /\ f[e[i]] = T!Flag
  BY Zenon DEF TraceIs
<1>2. PICK t \in Nat : t = n + r
  OBVIOUS
<1>3. PICK z \in Nat : z + 1 = e[0]
  <2>1. 0 \in 0..m
    OBVIOUS
  <2>2. PICK p \in Nat \ {0} : p = e[0]
    BY <1>1, <2>1
  <2>3. p - 1 \in Nat /\ (p - 1) + 1 = p
    OBVIOUS
  <2> QED  BY <2>2, <2>3
<1>4. CASE n < e[0] /\ d = Dec(<<>>, <<>>, TRUE)
  <2>1. PICK o : o = <<>>
    OBVIOUS
  <2>2. Bytes(new, r) /\ \A i \in 1..r : new[i] = f[n + i]
    BY DEF Part
  <2>3. <<>> \o new = new
    <3>1. new \in Seq(Nat)
      BY <2>2 DEF Bytes
    <3> QED  BY <3>1, ConcatEmptySeq
  <2>4. Len(new) = r
    BY <2>2 DEF Bytes
  <2>5. \A i \in 1..z : f[i] # T!Flag
    <3>1. \A i \in 1..(e[0] - 1) : f[i] # T!Flag
      BY Zenon DEF TraceIs
    <3>2. PICK p : p = e[0] /\ p = z + 1
      BY <1>3
    <3>3. p - 1 = z
      BY <3>2
    <3> QED  BY <3>1, <3>2, <3>3
  <2>6. n <= z
    BY <1>3, <1>4
  <2>7. CASE t <= z
    <3>1. \A i \in 1..r : new[i] # T!Flag
      <4> TAKE i \in 1..r
      <4>1. n + i \in 1..z
        BY <1>2, <2>7
      <4> QED  BY <2>2, <2>5, <4>1
    <3>2. (\A i \in 1..r : new[i] # T!Flag) => T!Find(T!Flag, new, 1) = 0
      <4>1. 1 \in Nat
        OBVIOUS
      <4> QED  BY <2>4, <4>1, FindIs
    <3>3. PICK start : start = 0
      OBVIOUS
    <3>4. T!Find(T!Flag, new, 1) = start
      BY <3>1, <3>2, <3>3
    <3>5. T!read(Dec(o, o, TRUE), new)
            = IF start = 0 THEN Dec(<<>>, o, TRUE) ELSE T!cut(Dec(T!From(new, start), o, TRUE))
      <4>1. new = o \o new
        BY <2>1, <2>3
      <4>2. ReadAs(o, o, new, new, start)
        BY <3>4, <4>1, ReadRuns
      <4> QED  BY <4>2 DEF ReadAs
    <3>6. T!read(d, new) = Dec(<<>>, <<>>, TRUE)
      BY <1>4, <2>1, <3>3, <3>5
    <3>7. t < e[0]
      BY <1>3, <2>7
    <3> QED  BY <1>2, <3>6, <3>7 DEF TraceAt
  <2>8. CASE ~(t <= z)
    <3>1. PICK x \in Nat : n + x = z
      <4>1. z - n \in Nat /\ n + (z - n) = z
        BY <2>6
      <4> QED  BY <4>1
    <3>2. PICK start \in 1..r : start = x + 1
      <4>1. x + 1 \in 1..r
        BY <1>2, <2>8, <3>1
      <4> QED  BY <4>1
    <3>3. new[start] = T!Flag
      <4>1. n + start = z + 1
        BY <3>1, <3>2
      <4>2. f[z + 1] = T!Flag
        <5>1. 0 \in 0..m
          OBVIOUS
        <5> QED  BY <1>1, <1>3, <5>1
      <4> QED  BY <2>2, <4>1, <4>2
    <3>4. \A i \in 1..(start - 1) : new[i] # T!Flag
      <4> TAKE i \in 1..(start - 1)
      <4>1. i \in 1..r /\ n + i \in 1..z
        BY <3>1, <3>2
      <4> QED  BY <2>2, <2>5, <4>1
    <3>5. T!Find(T!Flag, new, 1) = start
      <4>1. 1 \in Nat
        OBVIOUS
      <4> QED  BY <2>4, <3>3, <3>4, <4>1, FindIs
    <3>6. T!read(Dec(o, o, TRUE), new)
            = IF start = 0 THEN Dec(<<>>, o, TRUE) ELSE T!cut(Dec(T!From(new, start), o, TRUE))
      <4>1. new = o \o new
        BY <2>1, <2>3
      <4>2. ReadAs(o, o, new, new, start)
        BY <3>5, <4>1, ReadRuns
      <4> QED  BY <4>2 DEF ReadAs
    <3>7. PICK b : b = T!From(new, start)
      OBVIOUS
    <3>8. T!read(d, new) = T!cut(Dec(b, <<>>, TRUE))
      <4>1. start # 0
        OBVIOUS
      <4> QED  BY <1>4, <2>1, <3>6, <3>7, <4>1
    <3>9. Ahead(b, f, e, 0, t)
      <4>1. PICK v \in Nat : x + v = r
        <5>1. r - x \in Nat /\ x + (r - x) = r
          BY <3>2
        <5> QED  BY <5>1
      <4>2. x + v <= r
        BY <4>1
      <4>3. Part(SubSeq(new, x + 1, x + v), f, n + x, v)
        BY <4>2, PartOfPart
      <4>4. b = SubSeq(new, x + 1, x + v)
        BY <2>4, <3>2, <3>7, <4>1 DEF T!From
      <4>5. PICK p : p = e[0] /\ p = z + 1
        BY <1>3
      <4>6. p - 1 = n + x
        BY <3>1, <4>5
      <4>7. t - (p - 1) = v
        BY <1>2, <4>1, <4>6
      <4> QED  BY <4>3, <4>4, <4>5, <4>6, <4>7 DEF Ahead
    <3>10. 0 \in 0..m /\ e[0] <= t
      BY <1>3, <2>8
    <3>11. Survived(0, frames) /\ Said(0, frames) = <<>>
      BY SaidGrows
    <3>12. TraceAt(T!cut(Dec(b, Said(0, frames), TRUE)), f, e, frames, m, t)
      BY <1>2, <3>9, <3>10, <3>11, CutHeld
    <3> QED  BY <1>2, <3>8, <3>11, <3>12
  <2> QED  BY <2>7, <2>8
<1>5. CASE \E k \in 0..m : e[k] <= n /\ Held(d, f, e, frames, k, n)
  <2>1. PICK k \in 0..m : e[k] <= n /\ Held(d, f, e, frames, k, n)
    BY <1>5
  <2>2. PICK c \in Nat, w \in Nat : c + 1 = e[k] /\ c + (w + 1) = n
    <3>1. PICK p \in Nat \ {0} : p = e[k]
      BY <1>1
    <3>2. p - 1 \in Nat /\ (p - 1) + 1 = p
      OBVIOUS
    <3>3. n - p \in Nat /\ (p - 1) + ((n - p) + 1) = n
      BY <2>1, <3>1
    <3> QED  BY <3>1, <3>2, <3>3
  <2>3. CASE Survived(k, frames)
    <3>1. PICK b : d = Dec(b, Said(k, frames), TRUE) /\ Ahead(b, f, e, k, n)
      BY <2>1, <2>3 DEF Held
    <3>2. PICK p : p = e[k] /\ p = c + 1
      BY <2>2
    <3>3. p - 1 = c /\ n - (p - 1) = w + 1 /\ t - (p - 1) = (w + 1) + r /\ w + 1 \in Nat
      BY <1>2, <2>2, <3>2
    <3>4. Part(b, f, c, w + 1)
      BY <3>1, <3>2, <3>3 DEF Ahead
    <3>5. PICK buf : buf = b \o new
      OBVIOUS
    <3>6. Part(buf, f, c, (w + 1) + r)
      BY <2>2, <3>3, <3>4, <3>5, PartJoins
    <3>7. PICK s \in Nat : s = (w + 1) + r
      OBVIOUS
    <3>8. Bytes(buf, s) /\ \A i \in 1..s : buf[i] = f[c + i]
      BY <3>6, <3>7 DEF Part
    <3>9. Len(buf) = s /\ buf \in Seq(Nat)
      BY <3>8 DEF Bytes
    <3>10. PICK start \in 1..s : start = 1
      BY <3>7
    <3>11. buf[start] = T!Flag
      <4>1. 1 \in 1..s
        BY <3>7
      <4> QED  BY <1>1, <2>2, <3>8, <3>10, <4>1
    <3>12. T!Find(T!Flag, buf, 1) = start
      <4>1. 1 \in Nat /\ 1..(start - 1) = {}
        BY <3>10
      <4>2. \A i \in 1..(start - 1) : buf[i] # T!Flag
        BY <4>1
      <4>3. start \in 1..s /\ buf[start] = T!Flag
        BY <3>10, <3>11
      <4> QED  BY <3>9, <4>1, <4>2, <4>3, FindIs
    <3>13. T!From(buf, start) = buf
      <4>1. SubSeq(buf, 1, Len(buf)) = buf
        BY <3>9
      <4> QED  BY <3>10, <4>1 DEF T!From
    <3>14. PICK o : o = Said(k, frames)
      OBVIOUS
    <3>15. T!read(Dec(b, o, TRUE), new)
             = IF start = 0 THEN Dec(<<>>, o, TRUE) ELSE T!cut(Dec(T!From(buf, start), o, TRUE))
      <4>1. ReadAs(b, o, new, buf, start)
        BY <3>5, <3>12, ReadRuns
      <4> QED  BY <4>1 DEF ReadAs
    <3>16. T!read(d, new) = T!cut(Dec(buf, o, TRUE))
      <4>1. start # 0
        OBVIOUS
      <4> QED  BY <3>1, <3>13, <3>14, <3>15, <4>1
    <3>17. Ahead(buf, f, e, k, t)
      BY <3>2, <3>3, <3>6 DEF Ahead
    <3>18. e[k] <= t
      BY <1>2, <2>2
    <3>19. TraceAt(T!cut(Dec(buf, Said(k, frames), TRUE)), f, e, frames, m, t)
      BY <1>2, <2>3, <3>17, <3>18, CutHeld
    <3> QED  BY <1>2, <3>14, <3>16, <3>19
  <2>4. CASE ~Survived(k, frames)
    <3>1. PICK b : d = Dec(b, Said(k, frames), FALSE)
      BY <2>1, <2>4 DEF Held
    <3>2. T!read(d, new) = d
      BY <3>1, ReadStopped
    <3>3. e[k] <= t
      BY <1>2, <2>2
    <3>4. PICK h \in 0..(m-k) : e[k+h] <= t /\ (k + h = m \/ t < e[(k+h)+1])
      <4>1. PICK a : a = [i \in 0..(m-k) |-> e[k+i]]
        OBVIOUS
      <4>2. m - k \in Nat /\ 0 \in 0..(m-k) /\ k + 0 = k
        OBVIOUS
      <4>3. \A i \in 0..(m-k) : k + i \in 0..m
        OBVIOUS
      <4>4. \A i \in 0..(m-k) : a[i] \in Nat /\ a[i] = e[k+i]
        BY <1>1, <4>1, <4>3
      <4>5. a[0] <= t
        BY <3>3, <4>2, <4>4
      <4>6. PICK y \in Nat : y = m - k
        BY <4>2
      <4>7. PICK h \in 0..y : a[h] <= t /\ (h = y \/ t < a[h+1])
        <5>1. \A i \in 0..y : a[i] \in Nat
          BY <4>4, <4>6
        <5> QED  BY <4>5, <5>1, SomeClosed
      <4>8. CASE h = y
        <5>1. k + h = m
          BY <4>6, <4>8
        <5> QED  BY <4>4, <4>6, <4>7, <5>1
      <4>9. CASE h # y
        <5>1. h + 1 \in 0..(m-k) /\ k + (h + 1) = (k + h) + 1
          BY <4>6, <4>9
        <5> QED  BY <4>4, <4>6, <4>7, <4>9, <5>1
      <4> QED  BY <4>8, <4>9
    <3>5. ~Survived(k + h, frames) /\ Said(k + h, frames) = Said(k, frames)
      BY <2>4, StaysStopped
    <3>6. Held(d, f, e, frames, k + h, t)
      BY <3>1, <3>5 DEF Held
    <3>7. k + h \in 0..m
      OBVIOUS
    <3> QED  BY <1>2, <3>2, <3>4, <3>6, <3>7 DEF TraceAt
  <2> QED  BY <2>3, <2>4
<1> QED  BY <1>4, <1>5 DEF TraceAt

\* Where the flags of a stream are.
Flags(frames, lead) == [k \in 0..Len(frames) |-> Len(Upto(k, frames, lead))]

\* The bytes of a stream job are laid out.
LEMMA StreamLaid ==
  ASSUME JobInv, job.what = "stream",
         NEW frames, frames = job.frames, NEW lead, lead = job.lead, NEW e, e = Flags(frames, lead)
  PROVE  \E m \in Nat :
           /\ m = Len(frames) /\ AreFrames(frames, m)
           /\ TraceIs(Stream(frames, lead), e, frames, m)
           /\ Ends(e, frames, lead, m)
           /\ e[m] = Len(Stream(frames, lead))
<1>1. frames \in BoundedSeq(Frames, MaxFrames) /\ lead \in {<<>>, <<9, 9>>}
  BY JobIs DEF JobInv, Trace
<1>2. PICK m \in 0..MaxFrames : frames \in [1..m -> Frames]
  BY <1>1, FramesAssumption DEF BoundedSeq, SeqOf
<1>3. m \in Nat /\ m = Len(frames) /\ frames = [i \in 1..m |-> frames[i]]
      /\ \A i \in 1..m : frames[i] \in Frames
  <2>1. m \in Nat
    BY FramesAssumption
  <2>2. frames = [i \in 1..m |-> frames[i]] /\ \A i \in 1..m : frames[i] \in Frames
    BY <1>2
  <2>3. Len(frames) = m
    BY <2>1, <2>2
  <2> QED  BY <2>1, <2>2, <2>3
<1>4. PICK l \in Nat : LeadIs(lead, l)
  <2>1. CASE lead = <<>>
    <3>1. lead \in Seq(Nat) /\ Len(lead) = 0 /\ 1..0 = {}
      BY <2>1
    <3>2. LeadIs(lead, 0)
      BY <3>1 DEF LeadIs, Bytes
    <3> QED  BY <3>2
  <2>2. CASE lead = <<9, 9>>
    <3>1. lead \in Seq(Nat) /\ Len(lead) = 2 /\ \A i \in 1..2 : lead[i] = 9
      BY <2>2
    <3>2. LeadIs(lead, 2)
      BY <3>1 DEF LeadIs, Bytes, T!Flag
    <3> QED  BY <3>2
  <2> QED  BY <1>1, <2>1, <2>2
<1>5. Ends(e, frames, lead, m)
  BY <1>3 DEF Flags, Ends
<1>6. TraceIs(Stream(frames, lead), e, frames, m)
  BY <1>3, <1>4, <1>5, TraceLaid
<1>7. e[m] = Len(Stream(frames, lead))
  <2>1. m \in 0..m
    BY <1>3
  <2>2. Upto(m, frames, lead) = Stream(frames, lead)
    BY <1>3 DEF Upto
  <2> QED  BY <1>5, <2>1, <2>2 DEF Ends
<1>8. AreFrames(frames, m)
  BY <1>3 DEF AreFrames
<1> QED  BY <1>3, <1>5, <1>6, <1>7, <1>8

\* The stream is written in one step; then the decoder is where what has been
\* read of it leaves it.
StreamInv ==
  job.what = "stream" =>
    /\ sent \in {0, 1}
    /\ sent = 0 => at = 0
    /\ sent # 0 =>
         /\ wire = Stream(job.frames, job.lead)
         /\ at \in 0..Len(wire)
         /\ TraceAt(back, wire, Flags(job.frames, job.lead), job.frames, Len(job.frames), at)

\* What a decoder that holds k frames has printed, and whether it runs.
LEMMA HeldSays ==
  ASSUME NEW d, NEW f, NEW e, NEW frames, NEW k, NEW n, Held(d, f, e, frames, k, n)
  PROVE  d.out = Said(k, frames) /\ d.ok = Survived(k, frames)
<1>1. PICK o : o = Said(k, frames)
  OBVIOUS
<1>2. \A b, y : Dec(b, o, y).out = o /\ Dec(b, o, y).ok = y
  BY DEF Dec
<1>3. CASE Survived(k, frames)
  <2>1. PICK y : y = TRUE
    OBVIOUS
  <2>2. PICK b : d = Dec(b, o, y)
    BY <1>1, <1>3, <2>1 DEF Held
  <2>3. d.out = o /\ d.ok = y
    BY <1>2, <2>2
  <2>4. Survived(k, frames) = TRUE
    BY <1>3, Zenon DEF Survived
  <2> QED  BY <1>1, <2>1, <2>3, <2>4, Zenon
<1>4. CASE ~Survived(k, frames)
  <2>1. PICK y : y = FALSE
    OBVIOUS
  <2>2. PICK b : d = Dec(b, o, y)
    BY <1>1, <1>4, <2>1 DEF Held
  <2>3. d.out = o /\ d.ok = y
    BY <1>2, <2>2
  <2>4. Survived(k, frames) = FALSE
    BY <1>4, Zenon DEF Survived
  <2> QED  BY <1>1, <2>1, <2>3, <2>4, Zenon
<1> QED  BY <1>3, <1>4

\* The invariant says what TraceDecodes says.
LEMMA StreamInvSuffices ==
  ASSUME JobInv, StreamInv
  PROVE  TraceDecodes
<1> SUFFICES ASSUME job.what = "stream", Written
             PROVE  \E k \in 0..Len(job.frames) :
                      /\ Closed(at, k, job.frames, job.lead)
                      /\ back.out = Said(k, job.frames)
                      /\ back.ok = Survived(k, job.frames)
  BY DEF TraceDecodes
<1>1. PICK frames : frames = job.frames
  OBVIOUS
<1>2. PICK lead : lead = job.lead
  OBVIOUS
<1>3. PICK e : e = Flags(frames, lead)
  OBVIOUS
<1>4. PICK m \in Nat :
        /\ m = Len(frames) /\ AreFrames(frames, m)
        /\ TraceIs(Stream(frames, lead), e, frames, m)
        /\ Ends(e, frames, lead, m)
  BY <1>1, <1>2, <1>3, StreamLaid
<1>5. sent # 0
  BY DEF Written
<1>6. wire = Stream(frames, lead) /\ at \in Nat /\ TraceAt(back, wire, e, frames, m, at)
  <2>1. at \in 0..Len(wire) /\ wire = Stream(frames, lead)
    BY <1>1, <1>2, <1>5 DEF StreamInv
  <2>2. at \in Nat
    BY <2>1
  <2>3. TraceAt(back, wire, e, frames, m, at)
    BY <1>1, <1>2, <1>3, <1>4, <1>5, Zenon DEF StreamInv
  <2> QED  BY <2>1, <2>2, <2>3
<1>7. \A k \in 0..m : e[k] \in Nat \ {0}
  BY <1>4, Zenon DEF TraceIs
<1>8. PICK k \in 0..m :
        /\ k = 0 \/ e[k] <= at
        /\ k = m \/ at < e[k+1]
        /\ back.out = Said(k, frames) /\ back.ok = Survived(k, frames)
  <2>1. CASE at < e[0] /\ back = Dec(<<>>, <<>>, TRUE)
    <3>1. Survived(0, frames) /\ Said(0, frames) = <<>>
      BY <1>4, SaidGrows
    <3>4. back.out = Said(0, frames)
      <4>1. PICK y : y = TRUE
        OBVIOUS
      <4>2. back = Dec(<<>>, <<>>, y)
        BY <2>1, <4>1
      <4>3. back.out = <<>>
        BY <4>2, DecIs
      <4> QED  BY <3>1, <4>3
    <3>5. back.ok = Survived(0, frames)
      <4>1. PICK y : y = TRUE
        OBVIOUS
      <4>2. \A b, o : Dec(b, o, y).ok = y
        BY DEF Dec
      <4>3. back.ok = y
        BY <2>1, <4>1, <4>2
      <4>4. Survived(0, frames) = TRUE
        BY <3>1, Zenon DEF Survived
      <4> QED  BY <4>1, <4>3, <4>4, Zenon
    <3>6. 0 = m \/ at < e[0+1]
      <4> SUFFICES ASSUME 0 # m PROVE at < e[0+1]
        OBVIOUS
      <4>1. 0 \in 0..m /\ 1 \in 0..(m-0) /\ 0 + 1 \in 0..m
        OBVIOUS
      <4>2. e[0] + 1 <= e[0+1]
        BY <1>4, <4>1, FlagsRise
      <4>3. PICK p \in Nat, q \in Nat : p = e[0] /\ q = e[0+1]
        BY <1>7, <4>1
      <4>4. at < p /\ p + 1 <= q
        BY <2>1, <4>2, <4>3
      <4>5. at < q
        BY <1>6, <4>4
      <4> QED  BY <4>3, <4>5
    <3>7. 0 \in 0..m
      OBVIOUS
    <3> QED  BY <3>4, <3>5, <3>6, <3>7
  <2>2. CASE \E k \in 0..m : e[k] <= at /\ (k = m \/ at < e[k+1]) /\ Held(back, wire, e, frames, k, at)
    <3>1. PICK k \in 0..m :
            e[k] <= at /\ (k = m \/ at < e[k+1]) /\ Held(back, wire, e, frames, k, at)
      BY <2>2
    <3>2. back.out = Said(k, frames) /\ back.ok = Survived(k, frames)
      BY <3>1, HeldSays
    <3> QED  BY <3>1, <3>2
  <2> QED  BY <1>6, <2>1, <2>2 DEF TraceAt
<1>9. Closed(at, k, frames, lead)
  <2>1. k = 0 \/ Len(Upto(k, frames, lead)) <= at
    BY <1>4, <1>8 DEF Ends
  <2>2. k = m \/ at < Len(Upto(k + 1, frames, lead))
    <3> SUFFICES ASSUME k # m PROVE at < Len(Upto(k + 1, frames, lead))
      OBVIOUS
    <3>1. k + 1 \in 0..m
      OBVIOUS
    <3>2. e[k+1] = Len(Upto(k + 1, frames, lead))
      BY <1>4, <3>1 DEF Ends
    <3> QED  BY <1>8, <3>2
  <2> QED  BY <1>4, <2>1, <2>2 DEF Closed
<1> QED  BY <1>1, <1>2, <1>4, <1>8, <1>9

\* However many frames the stream has and however it is cut into reads, as many
\* lines have been printed as frames have come in whole, each what its frame
\* says alone, and only a frame that is fatal alone stops the program.
THEOREM TraceDecodesAlways == Spec => []TraceDecodes
<1>1. Init => StreamInv
  BY DEF Init, StreamInv
<1>2. JobInv /\ StreamInv /\ [Next]_vars => StreamInv'
  <2> SUFFICES ASSUME JobInv, StreamInv, [Next]_vars PROVE StreamInv'
    OBVIOUS
  <2>a. job' = job
    BY DEF Next, vars, Write, ReadField, ReadMessage, ReadPacket, ReadTrace
  <2>c. SUFFICES ASSUME job.what = "stream"
                 PROVE  /\ sent' \in {0, 1}
                        /\ sent' = 0 => at' = 0
                        /\ sent' # 0 =>
                             /\ wire' = Stream(job.frames, job.lead)
                             /\ at' \in 0..Len(wire')
                             /\ TraceAt(back', wire', Flags(job.frames, job.lead), job.frames,
                                        Len(job.frames), at')
    BY <2>a DEF StreamInv
  <2>d. /\ sent \in {0, 1}
        /\ sent = 0 => at = 0
        /\ sent # 0 =>
             /\ wire = Stream(job.frames, job.lead)
             /\ at \in 0..Len(wire)
             /\ TraceAt(back, wire, Flags(job.frames, job.lead), job.frames, Len(job.frames), at)
    BY <2>c DEF StreamInv
  <2>e. PICK frames : frames = job.frames
    OBVIOUS
  <2>f. PICK lead : lead = job.lead
    OBVIOUS
  <2>g. PICK e : e = Flags(frames, lead)
    OBVIOUS
  <2>h. PICK m \in Nat :
          /\ m = Len(frames) /\ AreFrames(frames, m)
          /\ TraceIs(Stream(frames, lead), e, frames, m)
          /\ e[m] = Len(Stream(frames, lead))
    BY <2>c, <2>e, <2>f, <2>g, StreamLaid
  <2>i. \A k \in 0..m : e[k] \in Nat \ {0}
    BY <2>h, Zenon DEF TraceIs
  <2>1. CASE Write
    <3>1. sent # 1 /\ at' = at /\ sent' = sent + 1
      BY <2>1, <2>c DEF Write, Written
    <3>2. at' = 0 /\ sent' = 1
      BY <2>d, <3>1
    <3>3. wire' = Stream(frames, lead)
      BY <2>1, <2>c, <2>e, <2>f DEF Write
    <3>4. back' = Dec(<<>>, <<>>, TRUE)
      <4>1. back' = T!Start
        BY <2>1, <2>c DEF Write
      <4> QED  BY <4>1, Zenon DEF T!Start, Dec
    <3>5. 0 < e[0] /\ 0 \in 0..Len(wire')
      <4>1. 0 \in 0..m /\ m \in 0..m
        OBVIOUS
      <4>2. PICK p \in Nat \ {0}, q \in Nat \ {0} : p = e[0] /\ q = e[m]
        BY <2>i, <4>1
      <4>3. 0 < p /\ 0 \in 0..q
        OBVIOUS
      <4>4. q = Len(wire')
        BY <2>h, <3>3, <4>2
      <4> QED  BY <4>2, <4>3, <4>4
    <3>6. TraceAt(back', wire', e, frames, m, at')
      BY <3>2, <3>4, <3>5 DEF TraceAt
    <3> QED  BY <2>e, <2>f, <2>g, <2>h, <3>2, <3>3, <3>5, <3>6
  <2>2. CASE ReadField
    BY <2>2, <2>c DEF ReadField
  <2>3. CASE ReadMessage
    BY <2>3, <2>c DEF ReadMessage, Whole
  <2>4. CASE ReadPacket
    BY <2>4, <2>c DEF ReadPacket, Whole
  <2>5. CASE ReadTrace
    <3>1. sent = 1 /\ sent' = sent /\ wire' = wire
      BY <2>5, <2>c DEF ReadTrace, Written
    <3>2. PICK n \in Reads :
            /\ at + n <= Len(wire)
            /\ back' = T!read(back, SubSeq(wire, at + 1, at + n))
            /\ at' = at + n
      BY <2>5 DEF ReadTrace
    <3>3. n \in Nat
      BY ReadsAssumption
    <3>4. wire = Stream(frames, lead) /\ TraceAt(back, wire, e, frames, m, at) /\ at \in 0..Len(wire)
      <4>1. sent # 0
        BY <3>1
      <4> QED  BY <2>d, <2>e, <2>f, <2>g, <2>h, <4>1
    <3>5. PICK z \in Nat : z = e[m]
      <4>1. m \in 0..m
        OBVIOUS
      <4> QED  BY <2>i, <4>1
    <3>6. z = Len(wire)
      BY <2>h, <3>4, <3>5
    <3>7. PICK a \in Nat : a = at
      BY <3>4, <3>6
    <3>8. a + n <= z /\ at' \in 0..z
      BY <3>2, <3>3, <3>6, <3>7
    <3>9. TraceIs(wire, e, frames, m)
      BY <2>h, <3>4
    <3>10. PICK new : new = SubSeq(wire, a + 1, a + n)
      OBVIOUS
    <3>11. Part(new, wire, a, n)
      <4>1. Bytes(wire, z)
        BY <3>5, <3>9, Zenon DEF TraceIs
      <4> QED  BY <3>3, <3>8, <3>10, <4>1, PartBytes
    <3>12. TraceAt(T!read(back, new), wire, e, frames, m, a + n)
      <4>1. a + n <= e[m] /\ TraceAt(back, wire, e, frames, m, a)
        BY <3>4, <3>5, <3>7, <3>8
      <4> QED  BY <2>h, <3>3, <3>9, <3>11, <4>1, ReadKeeps
    <3>13. TraceAt(back', wire', e, frames, m, at')
      BY <3>1, <3>2, <3>7, <3>10, <3>12
    <3> QED  BY <2>e, <2>f, <2>g, <2>h, <3>1, <3>4, <3>6, <3>8, <3>13
  <2>6. CASE UNCHANGED vars
    BY <2>6, <2>d DEF vars
  <2> QED  BY <2>1, <2>2, <2>3, <2>4, <2>5, <2>6 DEF Next
<1>3. JobInv /\ StreamInv => TraceDecodes
  BY StreamInvSuffices
<1> QED  BY JobKept, <1>1, <1>2, <1>3, PTL DEF Spec
=============================================================================
