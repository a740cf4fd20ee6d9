------------------------------ MODULE DataLemmas ------------------------------
(***************************************************************************)
(* What the proofs about several components need: recursive functions over *)
(* an interval have the values their definition says, and numbers survive  *)
(* being packed as bytes and unpacked again.                               *)
(***************************************************************************)
EXTENDS Bytes, WellFoundedInduction, TLAPS

-----------------------------------------------------------------------------
(* Recursive functions over an interval *)

\* A set of naturals has a least member.
LEMMA LeastNumber ==
  ASSUME NEW T, T \subseteq Nat, T # {}
  PROVE  \E x \in T : \A y \in T : x <= y
<1>1. \E x \in T : \A y \in T : ~ (<<y, x>> \in OpToRel(<, Nat))
  BY NatLessThanWellFounded, WFMin
<1>2. PICK x \in T : \A y \in T : ~ (<<y, x>> \in OpToRel(<, Nat))
  BY <1>1
<1>3. ASSUME NEW y \in T PROVE x <= y
  <2>1. ~ (<<y, x>> \in OpToRel(<, Nat))
    BY <1>2
  <2>. QED
    BY <2>1 DEF OpToRel
<1>. QED
  BY <1>2, <1>3

\* Induction up to a number, over a set.
LEMMA UpTo ==
  ASSUME NEW N \in Nat, NEW T, 0 \in T, \A k \in 1..N : k - 1 \in T => k \in T
  PROVE  \A k \in 0..N : k \in T
<1>. DEFINE Without == {n \in 0..N : n \notin T}
<1>1. Without = {}
  <2>. SUFFICES ASSUME Without # {} PROVE FALSE
    OBVIOUS
  <2>1. PICK n \in Without : \A m \in Without : n <= m
    <3>1. Without \subseteq Nat
      OBVIOUS
    <3>. HIDE DEF Without
    <3>. QED
      BY <3>1, LeastNumber
  <2>2. n \in 1..N
    BY <2>1
  <2>3. n - 1 \in 0..N /\ ~(n <= n - 1)
    BY <2>2
  <2>4. n - 1 \notin Without
    <3>. HIDE DEF Without
    <3>. QED
      BY <2>1, <2>3
  <2>5. n - 1 \in T
    BY <2>3, <2>4
  <2>. QED
    BY <2>1, <2>2, <2>5
<1>. QED
  BY <1>1

\* r begins with first and goes on by step, and each value is in its type
Iterates(r, N, T, first, step) ==
  /\ r = [k \in 0..N |-> r[k]]
  /\ r[0] = first
  /\ \A k \in 1..N : r[k] = step[k][r[k - 1]]
  /\ \A k \in 0..N : r[k] \in T[k]

\* A step that maps T[k - 1] to T[k] has an iteration from any member of T[0].
LEMMA Iteration ==
  ASSUME NEW N \in Nat, NEW T, NEW step, NEW first \in T[0],
         \A k \in 1..N : \A v \in T[k - 1] : step[k][v] \in T[k]
  PROVE  \E r : Iterates(r, N, T, first, step)
<1>. DEFINE Within == {n \in 0..N : \E r : Iterates(r, n, T, first, step)}
<1>1. 0 \in Within
  <2>. DEFINE f == [k \in 0..0 |-> first]
  <2>1. Iterates(f, 0, T, first, step) /\ 0 \in 0..N
    BY DEF Iterates
  <2>. HIDE DEF f
  <2>. QED
    BY <2>1
<1>2. ASSUME NEW n \in 1..N, n - 1 \in Within PROVE n \in Within
  <2>. DEFINE m == n - 1
  <2>1. m \in Nat /\ n = m + 1 /\ n \in 0..N
    OBVIOUS
  <2>2. PICK g : Iterates(g, m, T, first, step)
    <3>1. m \in Within
      BY <1>2
    <3>. HIDE DEF m
    <3>. QED
      BY <3>1
  <2>. DEFINE h == [k \in 0..n |-> IF k = 0 THEN first ELSE step[k][g[k - 1]]]
  <2>. HIDE DEF m, Within
  <2>3. h[0] = first /\ \A k \in 1..n : h[k] = step[k][g[k - 1]]
    BY <2>1
  <2>4. h = [k \in 0..n |-> h[k]]
    OBVIOUS
  <2>. HIDE DEF h
  <2>5. ASSUME NEW k \in 1..n PROVE k - 1 \in 0..m /\ k \in 1..N /\ h[k - 1] = g[k - 1]
    <3>1. k - 1 \in 0..m /\ k \in 1..N
      BY <2>1
    <3>2. CASE k - 1 = 0
      <4>1. g[0] = first
        BY <2>2 DEF Iterates
      <4>. QED
        BY <2>3, <3>1, <3>2, <4>1
    <3>3. CASE k - 1 # 0
      <4>1. k - 1 \in 1..m /\ k - 1 \in 1..n
        BY <2>1, <3>1, <3>3
      <4>2. g[k - 1] = step[k - 1][g[(k - 1) - 1]]
        BY <2>2, <4>1 DEF Iterates
      <4>. QED
        BY <2>3, <3>1, <4>1, <4>2
    <3>. QED
      BY <3>2, <3>3
  <2>6. ASSUME NEW k \in 1..n PROVE h[k] \in T[k]
    <3>1. g[k - 1] \in T[k - 1]
      BY <2>2, <2>5 DEF Iterates
    <3>. QED
      BY <2>3, <2>5, <3>1, Zenon
  <2>7. \A k \in 0..n : k = 0 \/ k \in 1..n
    BY <2>1
  <2>8. \A k \in 0..n : h[k] \in T[k]
    BY <2>3, <2>6, <2>7, Zenon
  <2>9. Iterates(h, n, T, first, step)
    BY <2>3, <2>4, <2>5, <2>8 DEF Iterates
  <2>. QED
    BY <2>1, <2>9 DEF Within
<1>. HIDE DEF Within
<1>3. \A k \in 0..N : k \in Within
  BY <1>1, <1>2, UpTo
<1>. QED
  BY <1>3 DEF Within

-----------------------------------------------------------------------------
(* Numbers as bytes *)

Bytes8 == 0..255

\* Packed numbers are bytes, as many as the number is wide.
LEMMA PackUintType ==
  ASSUME NEW v \in Nat
  PROVE  /\ PackUint8(v) \in Seq(Bytes8) /\ Len(PackUint8(v)) = 1
         /\ PackUint16(v) \in Seq(Bytes8) /\ Len(PackUint16(v)) = 2
         /\ PackUint32(v) \in Seq(Bytes8) /\ Len(PackUint32(v)) = 4
BY SMT DEF PackUint8, PackUint16, PackUint32, Bytes8

\* What unpackUint32 reads where packUint32 wrote is the number packed, for every
\* number of 32 bits.
LEMMA Uint32RoundTrip ==
  ASSUME NEW v \in Uint32, NEW buffer, NEW n \in Nat,
         \A j \in 1..4 : buffer[n + j] = PackUint32(v)[j]
  PROVE  UnpackUint32(buffer, n) = v
<1>. DEFINE a == v \div 256    b == v \div 65536    c == v \div 16777216
<1>1. /\ v \in Nat /\ a \in Nat /\ b \in Nat /\ c \in Nat
      /\ v = 256 * a + (v % 256) /\ a = 256 * b + (a % 256)
      /\ b = 256 * c + (b % 256) /\ c % 256 = c
  BY SMTT(30) DEF Uint32
<1>2. /\ buffer[n + 1] = c % 256 /\ buffer[n + 2] = b % 256
      /\ buffer[n + 3] = a % 256 /\ buffer[n + 4] = v % 256
  BY <1>1, SMT DEF PackUint32
<1>. HIDE DEF a, b, c
<1>. QED BY <1>1, <1>2, SMT DEF UnpackUint32

\* The same of unpackUint16 and unpackUint8.
LEMMA TwoBytes ==
  ASSUME NEW v \in Uint16
  PROVE  256 * ((v \div 256) % 256) + (v % 256) = v
<1>. DEFINE a == v \div 256
<1>1. v \in Nat /\ a < 256
  BY Zenon DEF Uint16
<1>2. a \in Nat /\ v = 256 * a + (v % 256)
  BY <1>1, SMT
<1>3. a % 256 = a
  <2>. HIDE DEF a
  <2>. QED BY <1>1, <1>2, SMT
<1>. QED BY <1>2, <1>3, SMT

LEMMA Uint16RoundTrip ==
  ASSUME NEW v \in Uint16, NEW buffer, NEW n \in Nat,
         \A j \in 1..2 : buffer[n + j] = PackUint16(v)[j]
  PROVE  UnpackUint16(buffer, n) = v
<1>1. buffer[n + 1] = (v \div 256) % 256 /\ buffer[n + 2] = v % 256
  BY DEF PackUint16
<1>2. UnpackUint16(buffer, n) = 256 * ((v \div 256) % 256) + (v % 256)
  BY <1>1, ZenonT(60) DEF UnpackUint16
<1>. QED BY <1>2, TwoBytes

LEMMA Uint8RoundTrip ==
  ASSUME NEW v \in Uint8, NEW buffer, NEW n \in Nat,
         \A j \in 1..1 : buffer[n + j] = PackUint8(v)[j]
  PROVE  UnpackUint8(buffer, n) = v
<1>1. buffer[n + 1] = v % 256
  BY DEF PackUint8
<1>. QED BY <1>1 DEF UnpackUint8, Uint8

\* The numbers of every width.
LEMMA Uints ==
  /\ \A v \in Uint8 : v \in Nat
  /\ \A v \in Uint16 : v \in Nat
  /\ \A v \in Uint32 : v \in Nat
BY SMT DEF Uint8, Uint16, Uint32

\* Three sequences end to end.
Joined3(a, b, c) == a \o b \o c

Holds3(w, a, b, c, S) ==
  /\ w \in Seq(S) /\ Len(w) = Len(a) + Len(b) + Len(c)
  /\ \A i \in 1..Len(a) : w[i] = a[i]
  /\ \A i \in 1..Len(b) : w[Len(a) + i] = b[i]
  /\ \A i \in 1..Len(c) : w[Len(a) + Len(b) + i] = c[i]

LEMMA ThreeParts ==
  ASSUME NEW S, NEW a \in Seq(S), NEW b \in Seq(S), NEW c \in Seq(S)
  PROVE  Holds3(Joined3(a, b, c), a, b, c, S)
BY SMT DEF Holds3, Joined3

Joined(a, b) == a \o b

LEMMA JoinedAssociative ==
  ASSUME NEW S, NEW a \in Seq(S), NEW b \in Seq(S), NEW c \in Seq(S)
  PROVE  Joined(Joined(a, b), c) = Joined(a, Joined(b, c))
BY SMT DEF Joined

\* Numbers unpacked from bytes.
LEMMA UnpackUintType ==
  ASSUME NEW b, NEW n \in Nat, \A j \in 1..4 : b[n + j] \in Bytes8
  PROVE  /\ UnpackUint8(b, n) \in Nat /\ UnpackUint16(b, n) \in Nat
         /\ UnpackUint32(b, n) \in Nat
<1>1. Bytes8 \subseteq Nat
  BY DEF Bytes8
<1>2. 1 \in 1..4 /\ 2 \in 1..4 /\ 3 \in 1..4 /\ 4 \in 1..4
  OBVIOUS
<1>3. b[n + 1] \in Nat /\ b[n + 2] \in Nat /\ b[n + 3] \in Nat /\ b[n + 4] \in Nat
  BY <1>1, <1>2, Zenon
<1>. QED BY <1>3, SMT DEF UnpackUint8, UnpackUint16, UnpackUint32
=============================================================================
