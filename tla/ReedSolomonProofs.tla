-------------------------- MODULE ReedSolomonProofs --------------------------
(***************************************************************************)
(* The decoder of every code over every field whose tables are those of a  *)
(* primitive polynomial.  What it writes: every symbol is an element of    *)
(* the field, every location an index of the block.  The indices of the    *)
(* error locator search: each iteration keeps i + 1 = numerrors + last     *)
(* order + delay (Balance), whichever of its three ways it takes.  The     *)
(* locator itself: the shortest recurrence that the syndromes follow, by   *)
(* Berlekamp's and Massey's argument (Tracking).  That the syndromes are   *)
(* those of the noise, which has a recurrence as long as its damage; that  *)
(* few enough errors are the roots of the locator and have the values of   *)
(* Forney's formula, so that a block is restored (Arrived, Solved); and    *)
(* that any other block that is returned is a codeword.                    *)
(*                                                                         *)
(* In order: the field, sums, recurrences, polynomials and their values;   *)
(* the codec's operators; noise and its locators; roots, factors, Forney's *)
(* formula, erasures; then the invariants of the decoder, and the theorems.*)
(***************************************************************************)
EXTENDS ReedSolomon, DataLemmas, FiniteSetTheorems, TLAPS

-----------------------------------------------------------------------------
(* The tables *)

LEMMA FieldTypes ==
  /\ FieldMax \in Nat /\ FieldMax > 0 /\ 0 \in Elements /\ 1 \in Elements
  /\ 1..FieldMax \subseteq Elements /\ \A x \in Elements : x # 0 => x \in 1..FieldMax
  /\ \A x, y \in Elements : Add(x, y) \in Elements
  /\ \A k \in 0..(2 * FieldMax + 1) : Exp[k] \in 1..FieldMax
<1>1. FieldMax \in Nat \ {0}
  BY FieldAssumption
<1>2. FieldMax \in Nat /\ FieldMax > 0 /\ 0 \in Elements /\ 1 \in Elements
  BY <1>1 DEF Elements
<1>3. 1..FieldMax \subseteq Elements /\ \A x \in Elements : x # 0 => x \in 1..FieldMax
  BY <1>1 DEF Elements
<1>4. \A x, y \in Elements : Add(x, y) \in Elements
  BY FieldAssumption, Zenon
<1>5. Exp \in [0..(2 * FieldMax + 1) -> 1..FieldMax]
  BY FieldAssumption, Zenon
<1>6. \A k \in 0..(2 * FieldMax + 1) : Exp[k] \in 1..FieldMax
  BY <1>5, Zenon
<1>. QED
  BY <1>2, <1>3, <1>4, <1>6

\* The logarithm is one of 1 to FieldMax; that of 0, which has none, is 0.
LEMMA LogType ==
  /\ Log[0] = 0
  /\ \A x \in 1..FieldMax : Log[x] \in 1..FieldMax /\ Exp[Log[x]] = x
  /\ \A x \in Elements : Log[x] \in 0..FieldMax
<1>1. Log[0] = 0
  BY FieldTypes DEF Log
<1>2. ASSUME NEW x \in 1..FieldMax PROVE Log[x] \in 1..FieldMax /\ Exp[Log[x]] = x
  <2>1. Log[x] = CHOOSE k \in 1..FieldMax : Exp[k] = x
    BY FieldTypes DEF Log
  <2>2. \E k \in 1..FieldMax : Exp[k] = x
    BY FieldAssumption
  <2>. QED
    BY <2>1, <2>2
<1>3. \A x \in Elements : x = 0 \/ x \in 1..FieldMax
  BY FieldTypes DEF Elements
<1>4. 0 \in 0..FieldMax /\ 1..FieldMax \subseteq 0..FieldMax
  BY FieldTypes
<1>. QED
  BY <1>1, <1>2, <1>3, <1>4, Zenon

LEMMA ArithmeticTypes ==
  /\ \A l, r \in 0..FieldMax : MulLogElement(l, r) \in 1..FieldMax
  /\ \A l \in 1..FieldMax, r \in 0..FieldMax : DivLog(l, r) \in 1..FieldMax
  /\ \A l, r \in 1..FieldMax : MulLog(l, r) \in 1..FieldMax
  /\ \A l, r \in Elements : Mul(l, r) \in Elements /\ Div(l, r) \in Elements
  /\ \A r \in 1..FieldMax : Div(1, r) \in 1..FieldMax
<1>1. \A l, r \in 0..FieldMax : l + r \in 0..(2 * FieldMax + 1)
                                /\ FieldMax + l - r \in 0..(2 * FieldMax + 1)
  BY FieldTypes
<1>2. \A l, r \in 0..FieldMax : MulLogElement(l, r) \in 1..FieldMax
  BY <1>1, FieldTypes, Zenon DEF MulLogElement
<1>3. \A l \in 1..FieldMax, r \in 0..FieldMax : DivLog(l, r) \in 1..FieldMax
  BY FieldTypes DEF DivLog, Wrapped
<1>4. \A l, r \in 1..FieldMax : MulLog(l, r) \in 1..FieldMax
  BY FieldTypes DEF MulLog, Wrapped
<1>5. ASSUME NEW l \in Elements, NEW r \in Elements
      PROVE  /\ Exp[Log[l] + Log[r]] \in 1..FieldMax
             /\ Exp[FieldMax + Log[l] - Log[r]] \in 1..FieldMax
  BY <1>1, FieldTypes, LogType, Zenon
<1>6. \A l, r \in Elements : Mul(l, r) \in Elements /\ Div(l, r) \in Elements
  BY <1>5, FieldTypes DEF Mul, Div
<1>7. \A r \in 1..FieldMax : Div(1, r) \in 1..FieldMax
  <2>1. \A r \in 1..FieldMax : 0 \notin {1, r}
    BY FieldTypes
  <2>. QED
    BY <1>5, <2>1, FieldTypes DEF Div
<1>. QED
  BY <1>2, <1>3, <1>4, <1>6, <1>7

-----------------------------------------------------------------------------
(* The field *)

LEMMA AddLaws ==
  /\ \A x, y \in Elements : Add(x, y) = Add(y, x)
  /\ \A x \in Elements : Add(x, 0) = x /\ Add(0, x) = x /\ Add(x, x) = 0
  /\ \A x, y, z \in Elements : Add(x, Add(y, z)) = Add(Add(x, y), z)
<1>1. \A x, y \in Elements : Add(x, y) = Add(y, x)
  BY AlgebraAssumption, Zenon
<1>2. \A x \in Elements : Add(x, 0) = x /\ Add(x, x) = 0
  BY AlgebraAssumption, Zenon
<1>3. \A x, y, z \in Elements : Add(x, Add(y, z)) = Add(Add(x, y), z)
  BY AlgebraAssumption, Zenon
<1>4. \A x \in Elements : Add(0, x) = x
  BY <1>1, <1>2, FieldTypes
<1>. QED
  BY <1>1, <1>2, <1>3, <1>4

LEMMA AddExchange ==
  ASSUME NEW a \in Elements, NEW b \in Elements, NEW c \in Elements, NEW d \in Elements
  PROVE  Add(Add(a, b), Add(c, d)) = Add(Add(a, c), Add(b, d))
<1>1. Add(b, Add(c, d)) = Add(c, Add(b, d))
  <2>1. Add(b, Add(c, d)) = Add(Add(b, c), d) /\ Add(c, Add(b, d)) = Add(Add(c, b), d)
    BY AddLaws
  <2>2. Add(b, c) = Add(c, b)
    BY AddLaws
  <2>. QED
    BY <2>1, <2>2
<1>2. Add(c, d) \in Elements /\ Add(b, d) \in Elements
  BY FieldTypes
<1>3. Add(Add(a, b), Add(c, d)) = Add(a, Add(b, Add(c, d)))
  BY <1>2, AddLaws
<1>4. Add(Add(a, c), Add(b, d)) = Add(a, Add(c, Add(b, d)))
  BY <1>2, AddLaws
<1>. QED
  BY <1>1, <1>3, <1>4

\* The logarithm of a power is its exponent, wrapped.
LEMMA LogOfExp ==
  ASSUME NEW k \in 1..(2 * FieldMax)
  PROVE  Exp[Wrapped(k)] = Exp[k] /\ Log[Exp[k]] = Wrapped(k) /\ Wrapped(k) \in 1..FieldMax
<1>1. Wrapped(k) \in 1..FieldMax
  BY FieldTypes DEF Wrapped
<1>2. Exp[Wrapped(k)] = Exp[k]
  <2>1. CASE k > FieldMax
    <3>1. k - FieldMax \in 0..FieldMax /\ FieldMax + (k - FieldMax) = k
      BY <2>1, FieldTypes
    <3>2. \A j \in 0..FieldMax : Exp[FieldMax + j] = Exp[j]
      BY AlgebraAssumption, Zenon
    <3>. HIDE DEF Elements
    <3>3. Exp[FieldMax + (k - FieldMax)] = Exp[k - FieldMax]
      BY <3>1, <3>2, Zenon
    <3>. QED
      BY <2>1, <3>1, <3>3 DEF Wrapped
  <2>2. CASE ~(k > FieldMax)
    BY <2>2 DEF Wrapped
  <2>. QED
    BY <2>1, <2>2
<1>3. Exp[k] \in 1..FieldMax
  <2>1. k \in 0..(2 * FieldMax + 1)
    BY FieldTypes
  <2>. QED
    BY <2>1, FieldTypes
<1>4. Log[Exp[k]] \in 1..FieldMax /\ Exp[Log[Exp[k]]] = Exp[k]
  BY <1>3, LogType
<1>5. \A j, m \in 1..FieldMax : Exp[j] = Exp[m] => j = m
  BY AlgebraAssumption, Zenon
<1>6. Log[Exp[k]] = Wrapped(k)
  BY <1>1, <1>2, <1>4, <1>5, Zenon
<1>. QED
  BY <1>1, <1>2, <1>6

Nonzero == 1..FieldMax

LEMMA MulByLog ==
  ASSUME NEW x \in Nonzero, NEW y \in Nonzero
  PROVE  /\ Log[x] \in 1..FieldMax /\ Log[y] \in 1..FieldMax
         /\ Mul(x, y) = Exp[Log[x] + Log[y]] /\ Mul(x, y) \in Nonzero
         /\ Log[Mul(x, y)] = Wrapped(Log[x] + Log[y])
         /\ Div(x, y) = Exp[FieldMax + Log[x] - Log[y]] /\ Div(x, y) \in Nonzero
         /\ Log[Div(x, y)] = Wrapped(FieldMax + Log[x] - Log[y])
<1>1. Log[x] \in 1..FieldMax /\ Log[y] \in 1..FieldMax
  BY LogType DEF Nonzero
<1>2. x # 0 /\ y # 0
  BY FieldTypes DEF Nonzero
<1>3. Mul(x, y) = Exp[Log[x] + Log[y]] /\ Div(x, y) = Exp[FieldMax + Log[x] - Log[y]]
  BY <1>2 DEF Mul, Div
<1>4. Log[x] + Log[y] \in 1..(2 * FieldMax) /\ FieldMax + Log[x] - Log[y] \in 1..(2 * FieldMax)
  BY <1>1, FieldTypes
<1>5. \A k \in 1..(2 * FieldMax) : Exp[k] \in Nonzero
  <2>1. \A k \in 1..(2 * FieldMax) : k \in 0..(2 * FieldMax + 1)
    BY FieldTypes
  <2>. QED
    BY <2>1, FieldTypes DEF Nonzero
<1>. QED
  BY <1>1, <1>3, <1>4, <1>5, LogOfExp

LEMMA ZeroLaws ==
  /\ \A x \in Elements : Mul(x, 0) = 0 /\ Mul(0, x) = 0 /\ Div(0, x) = 0
  /\ \A x, y \in Elements : Mul(x, y) = Mul(y, x)
  /\ \A x \in Elements : x = 0 \/ x \in Nonzero
  /\ Nonzero \subseteq Elements /\ 0 \notin Nonzero
<1>1. \A x \in Elements : Mul(x, 0) = 0 /\ Mul(0, x) = 0 /\ Div(0, x) = 0
  BY DEF Mul, Div
<1>2. ASSUME NEW x \in Elements, NEW y \in Elements PROVE Mul(x, y) = Mul(y, x)
  <2>1. Log[x] + Log[y] = Log[y] + Log[x] /\ {x, y} = {y, x}
    <3>1. Log[x] \in 0..FieldMax /\ Log[y] \in 0..FieldMax
      BY LogType
    <3>. QED
      BY <3>1, FieldTypes
  <2>. QED
    BY <2>1 DEF Mul
<1>. QED
  BY <1>1, <1>2, FieldTypes DEF Nonzero

LEMMA MulAssociates ==
  ASSUME NEW x \in Elements, NEW y \in Elements, NEW z \in Elements
  PROVE  Mul(x, Mul(y, z)) = Mul(Mul(x, y), z)
<1>1. CASE x = 0 \/ y = 0 \/ z = 0
  <2>1. Mul(y, z) \in Elements /\ Mul(x, y) \in Elements
    BY ArithmeticTypes
  <2>2. \A e \in Elements : Mul(e, 0) = 0 /\ Mul(0, e) = 0
    BY ZeroLaws
  <2>3. Mul(0, 0) = 0
    BY <2>2, FieldTypes
  <2>. QED
    BY <1>1, <2>1, <2>2, <2>3
<1>2. CASE x \in Nonzero /\ y \in Nonzero /\ z \in Nonzero
  <2>. DEFINE a == Log[x]   b == Log[y]   c == Log[z]
  <2>1. a \in 1..FieldMax /\ b \in 1..FieldMax /\ c \in 1..FieldMax
    BY <1>2, MulByLog
  <2>2. Mul(y, z) \in Nonzero /\ Log[Mul(y, z)] = Wrapped(b + c)
    BY <1>2, MulByLog
  <2>3. Mul(x, y) \in Nonzero /\ Log[Mul(x, y)] = Wrapped(a + b)
    BY <1>2, MulByLog
  <2>4. Mul(x, Mul(y, z)) = Exp[a + Wrapped(b + c)] /\ Mul(Mul(x, y), z) = Exp[Wrapped(a + b) + c]
    BY <1>2, <2>2, <2>3, MulByLog
  <2>. HIDE DEF a, b, c
  <2>5. a + Wrapped(b + c) \in 1..(2 * FieldMax) /\ Wrapped(a + b) + c \in 1..(2 * FieldMax)
    BY <2>1, FieldTypes DEF Wrapped
  <2>6. Wrapped(a + Wrapped(b + c)) = Wrapped(Wrapped(a + b) + c)
    BY <2>1, FieldTypes DEF Wrapped
  <2>. QED
    BY <2>4, <2>5, <2>6, LogOfExp
<1>. QED
  BY <1>1, <1>2, ZeroLaws

LEMMA OneTimes == \A x \in Elements : Mul(1, x) = x
<1>. SUFFICES ASSUME NEW x \in Elements PROVE Mul(1, x) = x
  OBVIOUS
<1>1. CASE x = 0
  BY <1>1, ZeroLaws, FieldTypes
<1>2. CASE x \in Nonzero
  <2>1. 1 \in Nonzero /\ FieldMax \in 1..FieldMax
    BY FieldTypes DEF Nonzero
  <2>2. Exp[FieldMax] = 1
    BY FieldAssumption, Zenon
  <2>3. Exp[Log[1]] = 1 /\ Log[1] \in 1..FieldMax
    BY <2>1, LogType DEF Nonzero
  <2>4. \A j, m \in 1..FieldMax : Exp[j] = Exp[m] => j = m
    BY AlgebraAssumption, Zenon
  <2>5. Log[1] = FieldMax
    BY <2>1, <2>2, <2>3, <2>4, Zenon
  <2>6. Mul(1, x) = Exp[FieldMax + Log[x]] /\ Log[x] \in 1..FieldMax
    BY <1>2, <2>1, <2>5, MulByLog
  <2>7. FieldMax + Log[x] \in 1..(2 * FieldMax) /\ Wrapped(FieldMax + Log[x]) = Log[x]
    BY <2>6, FieldTypes DEF Wrapped
  <2>8. Exp[Log[x]] = x
    BY <1>2, LogType DEF Nonzero
  <2>. QED
    BY <2>6, <2>7, <2>8, LogOfExp
<1>. QED
  BY <1>1, <1>2, ZeroLaws

\* What is scaled by a quotient is scaled and divided, and division undoes scaling.
LEMMA DivLaws ==
  ASSUME NEW d \in Elements, NEW b \in Nonzero
  PROVE  /\ Div(d, b) \in Elements
         /\ \A x \in Elements : Div(Mul(x, d), b) = Mul(Div(d, b), x)
         /\ Mul(Div(d, b), b) = d
<1>1. Div(d, b) \in Elements
  BY ArithmeticTypes, ZeroLaws
<1>2. ASSUME NEW x \in Elements PROVE Div(Mul(x, d), b) = Mul(x, Div(d, b))
  <2>1. CASE x = 0 \/ d = 0
    BY <1>1, <2>1, ZeroLaws
  <2>2. CASE x \in Nonzero /\ d \in Nonzero
    <3>. DEFINE j == Log[x]   k == Log[d]   m == Log[b]
    <3>1. j \in 1..FieldMax /\ k \in 1..FieldMax /\ m \in 1..FieldMax
      BY <2>2, MulByLog
    <3>2. Mul(x, d) \in Nonzero /\ Log[Mul(x, d)] = Wrapped(j + k)
      BY <2>2, MulByLog
    <3>3. Div(d, b) \in Nonzero /\ Log[Div(d, b)] = Wrapped(FieldMax + k - m)
      BY <2>2, MulByLog
    <3>4. Div(Mul(x, d), b) = Exp[FieldMax + Wrapped(j + k) - m]
      BY <3>2, MulByLog
    <3>5. Mul(x, Div(d, b)) = Exp[j + Wrapped(FieldMax + k - m)]
      BY <2>2, <3>3, MulByLog
    <3>. HIDE DEF j, k, m
    <3>6. /\ FieldMax + Wrapped(j + k) - m \in 1..(2 * FieldMax)
          /\ j + Wrapped(FieldMax + k - m) \in 1..(2 * FieldMax)
          /\ Wrapped(FieldMax + Wrapped(j + k) - m) = Wrapped(j + Wrapped(FieldMax + k - m))
      BY <3>1, FieldTypes DEF Wrapped
    <3>. QED
      BY <3>4, <3>5, <3>6, LogOfExp
  <2>. QED
    BY <2>1, <2>2, ZeroLaws
<1>3. Mul(Div(d, b), b) = d
  <2>1. CASE d = 0
    BY <2>1, ZeroLaws
  <2>2. CASE d \in Nonzero
    <3>. DEFINE k == Log[d]   m == Log[b]
    <3>1. k \in 1..FieldMax /\ m \in 1..FieldMax /\ Exp[k] = d
      BY <2>2, MulByLog, LogType DEF Nonzero
    <3>2. Div(d, b) \in Nonzero /\ Log[Div(d, b)] = Wrapped(FieldMax + k - m)
      BY <2>2, MulByLog
    <3>3. Mul(Div(d, b), b) = Exp[Wrapped(FieldMax + k - m) + m]
      BY <3>2, MulByLog
    <3>. HIDE DEF k, m
    <3>4. /\ Wrapped(FieldMax + k - m) + m \in 1..(2 * FieldMax)
          /\ Wrapped(Wrapped(FieldMax + k - m) + m) = k
      BY <3>1, FieldTypes DEF Wrapped
    <3>. QED
      BY <3>1, <3>3, <3>4, LogOfExp
  <2>. QED
    BY <2>1, <2>2, ZeroLaws
<1>4. \A x \in Elements : Mul(x, Div(d, b)) = Mul(Div(d, b), x)
  BY <1>1, ZeroLaws
<1>. QED
  BY <1>1, <1>2, <1>3, <1>4

LEMMA Distributes ==
  ASSUME NEW x \in Elements, NEW y \in Elements, NEW z \in Elements
  PROVE  /\ Mul(x, Add(y, z)) = Add(Mul(x, y), Mul(x, z))
         /\ Mul(Add(y, z), x) = Add(Mul(y, x), Mul(z, x))
<1>1. Mul(x, Add(y, z)) = Add(Mul(x, y), Mul(x, z))
  BY AlgebraAssumption, ZenonT(60)
<1>2. Add(y, z) \in Elements
  BY FieldTypes
<1>3. Mul(Add(y, z), x) = Mul(x, Add(y, z)) /\ Mul(y, x) = Mul(x, y) /\ Mul(z, x) = Mul(x, z)
  BY <1>2, ZeroLaws, Zenon
<1>. QED
  BY <1>1, <1>3

LEMMA MulExchange ==
  ASSUME NEW x \in Elements, NEW y \in Elements, NEW z \in Elements
  PROVE  Mul(x, Mul(y, z)) = Mul(y, Mul(x, z))
<1>1. Mul(x, y) = Mul(y, x)
  BY ZeroLaws
<1>2. Mul(x, Mul(y, z)) = Mul(Mul(x, y), z) /\ Mul(y, Mul(x, z)) = Mul(Mul(y, x), z)
  BY MulAssociates
<1>. QED
  BY <1>1, <1>2

-----------------------------------------------------------------------------
(* Sums *)

Terms(n, t) == \A k \in 0..(n - 1) : t[k] \in Elements

\* s holds the sums of the first terms of t
Partial(s, n, t) == s[0] = 0 /\ \A k \in 1..n : s[k] = Add(s[k - 1], t[k - 1])

LEMMA SumRecursion ==
  ASSUME NEW n \in Nat, NEW term, Terms(n, term)
  PROVE  \E s : Partial(s, n, term) /\ Sum(n, term) = s[n]
<1>. DEFINE Step(s) == [k \in 0..n |-> IF k = 0 THEN 0 ELSE Add(s[k - 1], term[k - 1])]
            S == CHOOSE s : s = Step(s)
            T == [k \in 0..n |-> Elements]
            step == [k \in 1..n |-> [v \in Elements |-> Add(v, term[k - 1])]]
<1>1. Sum(n, term) = S[n]
  BY DEF Sum
<1>2. 0 \in Elements
  BY FieldTypes
<1>3. ASSUME NEW k \in 1..n, NEW v \in Elements PROVE Add(v, term[k - 1]) \in Elements
  <2>1. term[k - 1] \in Elements
    BY DEF Terms
  <2>. QED
    BY <2>1, FieldTypes
<1>4. \A k \in 1..n : k - 1 \in 0..n /\ k \in 0..n
  OBVIOUS
<1>5. \A k \in 1..n : \A v \in T[k - 1] : step[k][v] = Add(v, term[k - 1])
  BY <1>4
<1>6. \A k \in 1..n : \A v \in T[k - 1] : step[k][v] \in T[k]
  BY <1>3, <1>4
<1>7. 0 \in T[0]
  BY <1>2
<1>. HIDE DEF T, step
<1>8. PICK r : Iterates(r, n, T, 0, step)
  BY <1>6, <1>7, Iteration, Zenon
<1>9. r = Step(r)
  <2>1. ASSUME NEW k \in 0..n
        PROVE  r[k] = IF k = 0 THEN 0 ELSE Add(r[k - 1], term[k - 1])
    <3>1. CASE k = 0
      BY <1>8, <3>1 DEF Iterates
    <3>2. CASE k # 0
      <4>1. k \in 1..n /\ k - 1 \in 0..n
        BY <3>2
      <4>. QED
        BY <1>5, <1>8, <3>2, <4>1 DEF Iterates
    <3>. QED
      BY <3>1, <3>2
  <2>. QED
    BY <1>8, <2>1 DEF Iterates
<1>. HIDE DEF Step
<1>10. S = Step(S)
  BY <1>9
<1>. HIDE DEF S
<1>11. Partial(S, n, term)
  BY <1>10 DEF Step, Partial
<1>. QED
  BY <1>1, <1>11

\* Every recursion that starts at 0 and adds the terms arrives at the sum.
LEMMA SumIs ==
  ASSUME NEW n \in Nat, NEW term, Terms(n, term), NEW s, Partial(s, n, term)
  PROVE  Sum(n, term) = s[n]
<1>1. PICK r : Partial(r, n, term) /\ Sum(n, term) = r[n]
  BY SumRecursion
<1>. DEFINE Same == {k \in 0..n : r[k] = s[k]}
<1>2. 0 \in Same
  BY <1>1 DEF Partial
<1>3. ASSUME NEW k \in 1..n, k - 1 \in Same PROVE k \in Same
  BY <1>1, <1>3 DEF Partial
<1>4. \A k \in 0..n : k \in Same
  <2>. HIDE DEF Same
  <2>. QED
    BY <1>2, <1>3, UpTo
<1>. QED
  BY <1>1, <1>4

Unfolds(n, t) ==
  /\ Sum(0, t) = 0
  /\ \A k \in 1..n : Sum(k, t) = Add(Sum(k - 1, t), t[k - 1])
  /\ \A k \in 0..n : Sum(k, t) \in Elements

\* A sum of elements is one, and the sum of one term less with the last.
LEMMA SumUnfolds ==
  ASSUME NEW n \in Nat, NEW t, Terms(n, t)
  PROVE  Unfolds(n, t)
<1>1. PICK s : Partial(s, n, t)
  BY SumRecursion
<1>2. ASSUME NEW k \in 0..n PROVE Sum(k, t) = s[k]
  <2>1. Terms(k, t) /\ Partial(s, k, t) /\ k \in Nat
    BY <1>1 DEF Terms, Partial
  <2>. QED
    BY <2>1, SumIs
<1>3. \A k \in 1..n : k \in 0..n /\ k - 1 \in 0..n
  OBVIOUS
<1>4. \A k \in 1..n : Sum(k, t) = Add(Sum(k - 1, t), t[k - 1])
  BY <1>1, <1>2, <1>3 DEF Partial
<1>5. Sum(0, t) = 0
  BY <1>1, <1>2 DEF Partial
<1>. DEFINE Reached == {k \in 0..n : Sum(k, t) \in Elements}
<1>6. 0 \in Reached
  BY <1>5, FieldTypes
<1>7. ASSUME NEW k \in 1..n, k - 1 \in Reached PROVE k \in Reached
  <2>1. t[k - 1] \in Elements /\ Sum(k - 1, t) \in Elements
    BY <1>7 DEF Terms
  <2>2. Add(Sum(k - 1, t), t[k - 1]) \in Elements
    BY <2>1, FieldTypes
  <2>3. Sum(k, t) \in Elements
    BY <1>4, <2>2
  <2>. QED
    BY <1>3, <2>3
<1>8. \A k \in 0..n : k \in Reached
  <2>. HIDE DEF Reached
  <2>. QED
    BY <1>6, <1>7, UpTo
<1>. QED
  BY <1>4, <1>5, <1>8 DEF Unfolds

LEMMA SumType ==
  ASSUME NEW n \in Nat, NEW term, \A k \in 0..(n - 1) : term[k] \in Elements
  PROVE  Sum(n, term) \in Elements
<1>1. Unfolds(n, term)
  BY SumUnfolds DEF Terms
<1>2. n \in 0..n
  OBVIOUS
<1>. QED
  BY <1>1, <1>2 DEF Unfolds

LEMMA SumCong ==
  ASSUME NEW n \in Nat, NEW t, NEW u, Terms(n, t), \A k \in 0..(n - 1) : u[k] = t[k]
  PROVE  Sum(n, u) = Sum(n, t)
<1>1. Terms(n, u)
  BY DEF Terms
<1>2. Unfolds(n, t) /\ Unfolds(n, u)
  BY <1>1, SumUnfolds
<1>. DEFINE Same == {k \in 0..n : Sum(k, u) = Sum(k, t)}
<1>3. 0 \in Same
  BY <1>2 DEF Unfolds
<1>4. ASSUME NEW k \in 1..n, k - 1 \in Same PROVE k \in Same
  BY <1>2, <1>4 DEF Unfolds
<1>5. \A k \in 0..n : k \in Same
  <2>. HIDE DEF Same
  <2>. QED
    BY <1>3, <1>4, UpTo
<1>. QED
  BY <1>5

LEMMA SumAdd ==
  ASSUME NEW n \in Nat, NEW t, NEW u, NEW w, Terms(n, t), Terms(n, u),
         \A k \in 0..(n - 1) : w[k] = Add(t[k], u[k])
  PROVE  Sum(n, w) = Add(Sum(n, t), Sum(n, u))
<1>1. Terms(n, w)
  BY FieldTypes DEF Terms
<1>2. Unfolds(n, t) /\ Unfolds(n, u) /\ Unfolds(n, w)
  BY <1>1, SumUnfolds
<1>. DEFINE Good == {k \in 0..n : Sum(k, w) = Add(Sum(k, t), Sum(k, u))}
<1>3. 0 \in Good
  <2>1. Add(0, 0) = 0
    BY AddLaws, FieldTypes
  <2>. QED
    BY <1>2, <2>1 DEF Unfolds
<1>4. ASSUME NEW k \in 1..n, k - 1 \in Good PROVE k \in Good
  <2>1. k \in 0..n /\ k - 1 \in 0..n /\ k - 1 \in 0..(n - 1)
    OBVIOUS
  <2>2. /\ Sum(k, w) = Add(Sum(k - 1, w), w[k - 1])
        /\ Sum(k, t) = Add(Sum(k - 1, t), t[k - 1])
        /\ Sum(k, u) = Add(Sum(k - 1, u), u[k - 1])
        /\ Sum(k - 1, t) \in Elements /\ Sum(k - 1, u) \in Elements
    BY <1>2, <2>1 DEF Unfolds
  <2>3. t[k - 1] \in Elements /\ u[k - 1] \in Elements
    BY <2>1 DEF Terms
  <2>4. Sum(k, w) = Add(Add(Sum(k - 1, t), Sum(k - 1, u)), Add(t[k - 1], u[k - 1]))
    BY <1>4, <2>1, <2>2
  <2>5. Sum(k, w) = Add(Sum(k, t), Sum(k, u))
    BY <2>2, <2>3, <2>4, AddExchange
  <2>. QED
    BY <2>1, <2>5
<1>5. \A k \in 0..n : k \in Good
  <2>. HIDE DEF Good
  <2>. QED
    BY <1>3, <1>4, UpTo
<1>. QED
  BY <1>5

LEMMA SumScale ==
  ASSUME NEW n \in Nat, NEW c \in Elements, NEW t, NEW w, Terms(n, t),
         \A k \in 0..(n - 1) : w[k] = Mul(c, t[k])
  PROVE  Sum(n, w) = Mul(c, Sum(n, t))
<1>1. Terms(n, w)
  BY ArithmeticTypes DEF Terms
<1>2. Unfolds(n, t) /\ Unfolds(n, w)
  BY <1>1, SumUnfolds
<1>. DEFINE Good == {k \in 0..n : Sum(k, w) = Mul(c, Sum(k, t))}
<1>3. 0 \in Good
  BY <1>2, ZeroLaws DEF Unfolds
<1>4. ASSUME NEW k \in 1..n, k - 1 \in Good PROVE k \in Good
  <2>1. k \in 0..n /\ k - 1 \in 0..n /\ k - 1 \in 0..(n - 1)
    OBVIOUS
  <2>2. /\ Sum(k, w) = Add(Sum(k - 1, w), w[k - 1])
        /\ Sum(k, t) = Add(Sum(k - 1, t), t[k - 1])
        /\ Sum(k - 1, t) \in Elements /\ t[k - 1] \in Elements
    BY <1>2, <2>1 DEF Unfolds, Terms
  <2>3. Sum(k, w) = Add(Mul(c, Sum(k - 1, t)), Mul(c, t[k - 1]))
    BY <1>4, <2>1, <2>2
  <2>4. Sum(k, w) = Mul(c, Sum(k, t))
    BY <2>2, <2>3, Distributes
  <2>. QED
    BY <2>1, <2>4
<1>5. \A k \in 0..n : k \in Good
  <2>. HIDE DEF Good
  <2>. QED
    BY <1>3, <1>4, UpTo
<1>. QED
  BY <1>5

\* Zeros behind the first n terms add nothing.
LEMMA SumTail ==
  ASSUME NEW n \in Nat, NEW m \in 0..n, NEW t, Terms(n, t),
         \A k \in m..(n - 1) : t[k] = 0
  PROVE  Sum(n, t) = Sum(m, t)
<1>1. Unfolds(n, t)
  BY SumUnfolds
<1>. DEFINE Good == {k \in 0..n : m <= k => Sum(k, t) = Sum(m, t)}
<1>2. 0 \in Good
  OBVIOUS
<1>3. ASSUME NEW k \in 1..n, k - 1 \in Good PROVE k \in Good
  <2>1. CASE k <= m
    BY <2>1
  <2>2. CASE m < k
    <3>1. k \in 0..n /\ k - 1 \in 0..n /\ k - 1 \in m..(n - 1) /\ m <= k - 1
      BY <2>2
    <3>2. Sum(k, t) = Add(Sum(k - 1, t), 0) /\ Sum(k - 1, t) \in Elements
      BY <1>1, <3>1 DEF Unfolds
    <3>3. Sum(k, t) = Sum(m, t)
      BY <1>3, <3>1, <3>2, AddLaws
    <3>. QED
      BY <3>1, <3>3
  <2>. QED
    BY <2>1, <2>2
<1>4. \A k \in 0..n : k \in Good
  <2>. HIDE DEF Good
  <2>. QED
    BY <1>2, <1>3, UpTo
<1>. QED
  BY <1>4

LEMMA SumZeros ==
  ASSUME NEW n \in Nat, NEW t, \A k \in 0..(n - 1) : t[k] = 0
  PROVE  Sum(n, t) = 0
<1>1. Terms(n, t)
  BY FieldTypes DEF Terms
<1>2. 0 \in 0..n
  OBVIOUS
<1>3. Sum(n, t) = Sum(0, t)
  BY <1>1, <1>2, SumTail
<1>4. Unfolds(n, t)
  BY <1>1, SumUnfolds
<1>. QED
  BY <1>3, <1>4 DEF Unfolds

\* The first m terms and the n terms that come after them.
LEMMA SumSplit ==
  ASSUME NEW m \in Nat, NEW n \in Nat, NEW t, NEW u, Terms(m + n, t),
         \A k \in 0..(n - 1) : u[k] = t[m + k]
  PROVE  Sum(m + n, t) = Add(Sum(m, t), Sum(n, u))
<1>1. Terms(n, u)
  <2>1. \A k \in 0..(n - 1) : m + k \in 0..(m + n - 1)
    OBVIOUS
  <2>. QED
    BY <2>1 DEF Terms
<1>2. m + n \in Nat
  OBVIOUS
<1>3. Unfolds(m + n, t) /\ Unfolds(n, u)
  BY <1>1, <1>2, SumUnfolds
<1>4. Sum(m, t) \in Elements
  <2>1. m \in 0..(m + n)
    OBVIOUS
  <2>. QED
    BY <1>3, <2>1 DEF Unfolds
<1>. DEFINE Good == {k \in 0..n : Sum(m + k, t) = Add(Sum(m, t), Sum(k, u))}
<1>5. 0 \in Good
  <2>1. Sum(0, u) = 0
    BY <1>3 DEF Unfolds
  <2>. QED
    BY <1>4, <2>1, AddLaws
<1>6. ASSUME NEW k \in 1..n, k - 1 \in Good PROVE k \in Good
  <2>1. /\ k \in 0..n /\ k - 1 \in 0..n /\ k - 1 \in 0..(n - 1)
        /\ m + k \in 1..(m + n) /\ m + k - 1 = m + (k - 1) /\ m + (k - 1) \in 0..(m + n - 1)
    OBVIOUS
  <2>2. Sum(m + k, t) = Add(Sum(m + k - 1, t), t[m + k - 1])
    BY <1>3, <2>1 DEF Unfolds
  <2>3. Sum(m + k, t) = Add(Add(Sum(m, t), Sum(k - 1, u)), u[k - 1])
    BY <1>6, <2>1, <2>2
  <2>4. Sum(k, u) = Add(Sum(k - 1, u), u[k - 1]) /\ Sum(k - 1, u) \in Elements
        /\ u[k - 1] \in Elements
    BY <1>1, <1>3, <2>1 DEF Unfolds, Terms
  <2>5. Sum(m + k, t) = Add(Sum(m, t), Sum(k, u))
    BY <1>4, <2>3, <2>4, AddLaws
  <2>. QED
    BY <2>1, <2>5
<1>7. \A k \in 0..n : k \in Good
  <2>. HIDE DEF Good
  <2>. QED
    BY <1>5, <1>6, UpTo
<1>. QED
  BY <1>7

SameSums(p, q, t) ==
  Sum(p, [u \in 0..(p - 1) |-> Sum(q, t[u])]) =
    Sum(q, [v \in 0..(q - 1) |-> Sum(p, [u \in 0..(p - 1) |-> t[u][v]])])

\* A table has one sum, by rows or by columns.
LEMMA SumSwap ==
  ASSUME NEW p \in Nat, NEW q \in Nat, NEW t,
         \A u \in 0..(p - 1) : Terms(q, t[u])
  PROVE  SameSums(p, q, t)
<1>. DEFINE rows == [u \in 0..(p - 1) |-> Sum(q, t[u])]
            col(v) == [u \in 0..(p - 1) |-> t[u][v]]
            cols(k) == [v \in 0..(q - 1) |-> Sum(k, col(v))]
<1>1. ASSUME NEW u \in 0..(p - 1) PROVE Sum(q, t[u]) \in Elements /\ Terms(q, t[u])
  <2>1. Unfolds(q, t[u]) /\ q \in 0..q
    BY SumUnfolds
  <2>. QED
    BY <2>1 DEF Unfolds
<1>2. Terms(p, rows)
  BY <1>1 DEF Terms
<1>3. ASSUME NEW v \in 0..(q - 1) PROVE Terms(p, col(v))
  BY DEF Terms
<1>4. \A u \in 0..(p - 1) : rows[u] = Sum(q, t[u])
  OBVIOUS
<1>5. \A v \in 0..(q - 1) : \A u \in 0..(p - 1) : col(v)[u] = t[u][v]
  OBVIOUS
<1>6. \A k \in 0..p : \A v \in 0..(q - 1) : cols(k)[v] = Sum(k, col(v))
  OBVIOUS
<1>. HIDE DEF rows, col
<1>7. Unfolds(p, rows)
  BY <1>2, SumUnfolds
<1>8. \A v \in 0..(q - 1) : Unfolds(p, col(v))
  BY <1>3, SumUnfolds
<1>. HIDE DEF cols
<1>. DEFINE Good == {k \in 0..p : Sum(k, rows) = Sum(q, cols(k))}
<1>9. 0 \in Good
  <2>1. 0 \in 0..p
    OBVIOUS
  <2>2. \A v \in 0..(q - 1) : cols(0)[v] = 0
    BY <1>6, <1>8, <2>1 DEF Unfolds
  <2>3. Sum(q, cols(0)) = 0
    BY <2>2, SumZeros
  <2>. QED
    BY <1>7, <2>1, <2>3 DEF Unfolds
<1>10. ASSUME NEW k \in 1..p, k - 1 \in Good PROVE k \in Good
  <2>1. k \in 0..p /\ k - 1 \in 0..p /\ k - 1 \in 0..(p - 1)
    OBVIOUS
  <2>2. Sum(k, rows) = Add(Sum(q, cols(k - 1)), Sum(q, t[k - 1]))
    BY <1>4, <1>7, <1>10, <2>1 DEF Unfolds
  <2>3. Terms(q, cols(k - 1))
    BY <1>6, <1>8, <2>1 DEF Terms, Unfolds
  <2>4. Terms(q, t[k - 1])
    BY <2>1
  <2>5. \A v \in 0..(q - 1) : cols(k)[v] = Add(cols(k - 1)[v], t[k - 1][v])
    BY <1>5, <1>6, <1>8, <2>1 DEF Unfolds
  <2>6. Sum(q, cols(k)) = Add(Sum(q, cols(k - 1)), Sum(q, t[k - 1]))
    BY <2>3, <2>4, <2>5, SumAdd, ZenonT(60)
  <2>. QED
    BY <2>1, <2>2, <2>6
<1>11. \A k \in 0..p : k \in Good
  <2>. HIDE DEF Good
  <2>. QED
    BY <1>9, <1>10, UpTo
<1>. QED
  BY <1>11 DEF SameSums, rows, cols, col

LEMMA SumOfOne ==
  ASSUME NEW t, t[0] \in Elements
  PROVE  Sum(1, t) = t[0]
<1>1. Terms(1, t)
  BY DEF Terms
<1>2. Unfolds(1, t)
  BY <1>1, SumUnfolds
<1>3. Sum(1, t) = Add(0, t[0])
  BY <1>2 DEF Unfolds
<1>. QED
  BY <1>3, AddLaws

-----------------------------------------------------------------------------
(* Recurrences: a of length l against the sequence s, at the power k *)

Against(a, l, s, k) == Sum(l + 1, [j \in 0..l |-> Mul(a[j], s[k - j])])

Over(a, l) == \A j \in 0..l : a[j] \in Elements
Back(s, l, k) == \A j \in 0..l : s[k - j] \in Elements
Readable(a, l, s, k) == \A j \in 0..l : a[j] \in Elements /\ s[k - j] \in Elements

LEMMA AgainstTerms ==
  ASSUME NEW l \in Nat, NEW k, NEW a, NEW s, Readable(a, l, s, k)
  PROVE  /\ Terms(l + 1, [j \in 0..l |-> Mul(a[j], s[k - j])])
         /\ Against(a, l, s, k) \in Elements
<1>. DEFINE t == [j \in 0..l |-> Mul(a[j], s[k - j])]
<1>1. \A j \in 0..l : t[j] \in Elements
  BY ArithmeticTypes DEF Readable
<1>2. l + 1 \in Nat /\ l + 1 \in 0..(l + 1) /\ (l + 1) - 1 = l
  OBVIOUS
<1>. HIDE DEF t
<1>3. Terms(l + 1, t)
  BY <1>1, <1>2 DEF Terms
<1>4. Unfolds(l + 1, t)
  BY <1>2, <1>3, SumUnfolds
<1>5. Sum(l + 1, t) \in Elements
  BY <1>2, <1>4 DEF Unfolds
<1>. QED
  BY <1>3, <1>5 DEF Against, t

\* The form in which the code computes it.
LEMMA AgainstHead ==
  ASSUME NEW l \in Nat, NEW k \in Int, NEW a, NEW s, Readable(a, l, s, k), a[0] = 1
  PROVE  Against(a, l, s, k) =
           Add(s[k], Sum(l, [j \in 0..(l - 1) |-> Mul(a[j + 1], s[k - j - 1])]))
<1>. DEFINE t == [j \in 0..l |-> Mul(a[j], s[k - j])]
            u == [j \in 0..(l - 1) |-> Mul(a[j + 1], s[k - j - 1])]
<1>1. Terms(l + 1, t)
  BY AgainstTerms
<1>2. \A j \in 0..(l - 1) : u[j] = t[1 + j]
  <2>1. \A j \in 0..(l - 1) : 1 + j \in 0..l /\ 1 + j = j + 1 /\ k - (1 + j) = k - j - 1
    OBVIOUS
  <2>. QED
    BY <2>1
<1>3. t[0] = s[k] /\ s[k] \in Elements
  <2>1. 0 \in 0..l /\ k - 0 = k
    OBVIOUS
  <2>2. s[k] \in Elements /\ t[0] = Mul(1, s[k])
    BY <2>1 DEF Readable
  <2>. QED
    BY <2>2, OneTimes
<1>4. l + 1 = 1 + l /\ 1 \in Nat
  OBVIOUS
<1>5. Against(a, l, s, k) = Sum(l + 1, t)
  BY DEF Against
<1>. HIDE DEF t, u
<1>6. Sum(1 + l, t) = Add(Sum(1, t), Sum(l, u))
  BY <1>1, <1>2, <1>4, SumSplit
<1>7. Sum(1, t) = s[k]
  BY <1>3, SumOfOne
<1>. QED
  BY <1>4, <1>5, <1>6, <1>7 DEF u

LEMMA AgainstSum ==
  ASSUME NEW l \in Nat, NEW k, NEW a, NEW b, NEW c, NEW s,
         Readable(a, l, s, k), Readable(b, l, s, k), \A j \in 0..l : c[j] = Add(a[j], b[j])
  PROVE  Against(c, l, s, k) = Add(Against(a, l, s, k), Against(b, l, s, k))
<1>. DEFINE t == [j \in 0..l |-> Mul(a[j], s[k - j])]
            u == [j \in 0..l |-> Mul(b[j], s[k - j])]
            w == [j \in 0..l |-> Mul(c[j], s[k - j])]
<1>1. Terms(l + 1, t) /\ Terms(l + 1, u)
  BY AgainstTerms
<1>2. \A j \in 0..l : w[j] = Add(t[j], u[j])
  <2>1. \A j \in 0..l : Mul(Add(a[j], b[j]), s[k - j]) = Add(Mul(a[j], s[k - j]), Mul(b[j], s[k - j]))
    BY Distributes DEF Readable
  <2>. QED
    BY <2>1
<1>3. l + 1 \in Nat /\ (l + 1) - 1 = l
  OBVIOUS
<1>. HIDE DEF t, u, w
<1>4. Sum(l + 1, w) = Add(Sum(l + 1, t), Sum(l + 1, u))
  BY <1>1, <1>2, <1>3, SumAdd
<1>. QED
  BY <1>4 DEF Against, t, u, w

\* Coefficients that are zero play no part.
LEMMA AgainstTail ==
  ASSUME NEW n \in Nat, NEW l \in 0..n, NEW k, NEW a, NEW s, Readable(a, n, s, k),
         \A j \in (l + 1)..n : a[j] = 0
  PROVE  Against(a, n, s, k) = Against(a, l, s, k)
<1>. DEFINE t == [j \in 0..n |-> Mul(a[j], s[k - j])]
            u == [j \in 0..l |-> Mul(a[j], s[k - j])]
<1>1. Terms(n + 1, t)
  BY AgainstTerms
<1>2. /\ n + 1 \in Nat /\ l + 1 \in Nat /\ l + 1 \in 0..(n + 1)
      /\ (n + 1) - 1 = n /\ (l + 1) - 1 = l /\ 0..l \subseteq 0..n
      /\ \A j \in (l + 1)..n : j \in 0..n
  OBVIOUS
<1>3. \A j \in (l + 1)..n : t[j] = 0
  BY <1>2, ZeroLaws DEF Readable
<1>4. \A j \in 0..l : u[j] = t[j]
  BY <1>2
<1>. HIDE DEF t, u
<1>5. Sum(n + 1, t) = Sum(l + 1, t)
  BY <1>1, <1>2, <1>3, SumTail
<1>6. Terms(l + 1, t)
  BY <1>1, <1>2 DEF Terms
<1>7. Sum(l + 1, u) = Sum(l + 1, t)
  BY <1>2, <1>4, <1>6, SumCong
<1>. QED
  BY <1>5, <1>7 DEF Against, t, u

\* c is b, m powers up and scaled by q
Shifted(c, n, m, q, b, o) ==
  \A j \in 0..n : c[j] = IF j - m \in 0..o THEN Mul(q, b[j - m]) ELSE 0

\* What is shifted by m and scaled by q goes against s as it does m powers before.
LEMMA AgainstShift ==
  ASSUME NEW n \in Nat, NEW m \in Nat, NEW o \in Nat, m + o <= n,
         NEW k \in Int, NEW q \in Elements, NEW b, NEW c, NEW s,
         Back(s, n, k), Over(b, o), Shifted(c, n, m, q, b, o)
  PROVE  Against(c, n, s, k) = Mul(q, Against(b, o, s, k - m))
<1>. DEFINE t == [j \in 0..n |-> Mul(c[j], s[k - j])]
            u == [j \in 0..o |-> Mul(b[j], s[k - m - j])]
            w == [j \in 0..o |-> t[m + j]]
<1>1. /\ n + 1 \in Nat /\ o + 1 \in Nat /\ m + (o + 1) \in Nat /\ m + (o + 1) \in 0..(n + 1)
      /\ (n + 1) - 1 = n /\ (o + 1) - 1 = o
  OBVIOUS
<1>2. Readable(c, n, s, k)
  <2>1. \A j \in 0..n : c[j] \in Elements
    BY ArithmeticTypes, FieldTypes DEF Shifted, Over
  <2>. QED
    BY <2>1 DEF Readable, Back
<1>3. Terms(n + 1, t)
  BY <1>2, AgainstTerms
<1>4. ASSUME NEW j \in 0..n, j - m \notin 0..o PROVE t[j] = 0
  <2>1. c[j] = 0 /\ s[k - j] \in Elements
    BY <1>4 DEF Shifted, Back
  <2>. QED
    BY <2>1, ZeroLaws
<1>5. ASSUME NEW j \in 0..o PROVE w[j] = Mul(q, u[j]) /\ u[j] \in Elements
  <2>1. m + j \in 0..n /\ (m + j) - m = j /\ k - (m + j) = k - m - j
    OBVIOUS
  <2>2. c[m + j] = Mul(q, b[j]) /\ s[k - m - j] \in Elements /\ b[j] \in Elements
    BY <2>1 DEF Shifted, Back, Over
  <2>3. w[j] = Mul(Mul(q, b[j]), s[k - m - j])
    BY <2>1, <2>2
  <2>4. Mul(Mul(q, b[j]), s[k - m - j]) = Mul(q, Mul(b[j], s[k - m - j]))
    BY <2>2, MulAssociates
  <2>5. Mul(b[j], s[k - m - j]) \in Elements
    BY <2>2, ArithmeticTypes
  <2>. QED
    BY <2>3, <2>4, <2>5
<1>6. \A j \in 0..o : w[j] = t[m + j]
  OBVIOUS
<1>. HIDE DEF t, u, w
<1>7. Sum(n + 1, t) = Sum(m + (o + 1), t)
  <2>1. \A j \in (m + (o + 1))..((n + 1) - 1) : j \in 0..n /\ j - m \notin 0..o
    OBVIOUS
  <2>2. \A j \in (m + (o + 1))..((n + 1) - 1) : t[j] = 0
    BY <1>4, <2>1
  <2>. QED
    BY <1>1, <1>3, <2>2, SumTail
<1>8. Terms(m + (o + 1), t)
  <2>1. \A j \in 0..(m + (o + 1) - 1) : j \in 0..((n + 1) - 1)
    OBVIOUS
  <2>. QED
    BY <1>3, <2>1 DEF Terms
<1>9. Sum(m + (o + 1), t) = Add(Sum(m, t), Sum(o + 1, w))
  BY <1>1, <1>6, <1>8, SumSplit
<1>10. Sum(m, t) = 0
  <2>1. \A j \in 0..(m - 1) : j \in 0..n /\ j - m \notin 0..o
    OBVIOUS
  <2>2. \A j \in 0..(m - 1) : t[j] = 0
    BY <1>4, <2>1
  <2>. QED
    BY <2>2, SumZeros
<1>11. Terms(o + 1, u)
  BY <1>1, <1>5 DEF Terms
<1>12. Sum(o + 1, w) = Mul(q, Sum(o + 1, u))
  BY <1>1, <1>5, <1>11, SumScale
<1>13. Mul(q, Sum(o + 1, u)) \in Elements
  <2>1. Unfolds(o + 1, u)
    BY <1>1, <1>11, SumUnfolds
  <2>2. o + 1 \in 0..(o + 1)
    OBVIOUS
  <2>. QED
    BY <2>1, <2>2, ArithmeticTypes DEF Unfolds
<1>14. Sum(n + 1, t) = Mul(q, Sum(o + 1, u))
  BY <1>7, <1>9, <1>10, <1>12, <1>13, AddLaws
<1>. QED
  BY <1>14 DEF Against, t, u

\* Two recurrences of lengths l and m that s follows up to n, one of which it
\* follows at n too and one not, are together longer than n.
LEMMA Massey ==
  ASSUME NEW n \in Nat, NEW l \in 0..n, NEW m \in Nat, NEW a, NEW c, NEW s,
         \A j \in 0..n : s[j] \in Elements,
         \A j \in 0..l : c[j] \in Elements, \A j \in 0..m : a[j] \in Elements, a[0] = 1,
         \A k \in l..(n - 1) : Against(c, l, s, k) = 0, Against(c, l, s, n) # 0,
         \A k \in m..n : Against(a, m, s, k) = 0
  PROVE  l + m > n
<1>. SUFFICES ASSUME l + m <= n PROVE FALSE
  OBVIOUS
<1>. DEFINE t == [u \in 0..l |-> [v \in 0..m |-> Mul(c[u], Mul(a[v], s[n - u - v]))]]
            row(u) == [v \in 0..m |-> Mul(a[v], s[n - u - v])]
            col(v) == [u \in 0..l |-> Mul(c[u], s[n - v - u])]
            colT(v) == [u \in 0..l |-> t[u][v]]
            rows == [u \in 0..l |-> Sum(m + 1, t[u])]
            cols == [v \in 0..m |-> Sum(l + 1, colT(v))]
<1>1. /\ l \in Nat /\ l + 1 \in Nat /\ m + 1 \in Nat
      /\ (l + 1) - 1 = l /\ (m + 1) - 1 = m /\ 0 \in 0..m
  OBVIOUS
<1>2. \A u \in 0..l : n - u \in m..n /\ n - u \in Int
  OBVIOUS
<1>3. \A v \in 0..m : n - v \in Int /\ n - v \in l..n /\ (v # 0 => n - v \in l..(n - 1))
  OBVIOUS
<1>4. \A u \in 0..l : \A v \in 0..m : n - u - v \in 0..n /\ n - v - u = n - u - v
  OBVIOUS
<1>5. ASSUME NEW u \in 0..l PROVE Readable(a, m, s, n - u)
  BY <1>4 DEF Readable
<1>6. ASSUME NEW v \in 0..m PROVE Readable(c, l, s, n - v)
  BY <1>4 DEF Readable
<1>7. ASSUME NEW u \in 0..l PROVE Terms(m + 1, t[u]) /\ Sum(m + 1, t[u]) = 0
  <2>1. Terms(m + 1, row(u))
    BY <1>5, AgainstTerms
  <2>2. Sum(m + 1, row(u)) = 0
    BY <1>2 DEF Against
  <2>3. \A v \in 0..m : t[u][v] = Mul(c[u], row(u)[v])
    OBVIOUS
  <2>6. c[u] \in Elements
    OBVIOUS
  <2>. HIDE DEF t, row, col, colT, rows, cols
  <2>4. Sum(m + 1, t[u]) = Mul(c[u], Sum(m + 1, row(u)))
    <3>. DEFINE x == c[u]    r == row(u)    w == t[u]    o == m + 1
    <3>1. o \in Nat /\ x \in Elements /\ Terms(o, r) /\ \A v \in 0..(o - 1) : w[v] = Mul(x, r[v])
      BY <1>1, <2>1, <2>3, <2>6
    <3>. HIDE DEF x, r, w, o
    <3>2. Sum(o, w) = Mul(x, Sum(o, r))
      BY <3>1, SumScale
    <3>. QED
      BY <3>2, Zenon DEF x, r, w, o
  <2>5. Terms(m + 1, t[u])
    BY <1>1, <2>1, <2>3, <2>6, ArithmeticTypes DEF Terms
  <2>. QED
    BY <2>2, <2>4, <2>5, ZeroLaws
<1>8. ASSUME NEW v \in 0..m
      PROVE  Sum(l + 1, colT(v)) = Mul(a[v], Against(c, l, s, n - v))
  <2>1. Terms(l + 1, col(v))
    BY <1>1, <1>6, AgainstTerms
  <2>2. Against(c, l, s, n - v) = Sum(l + 1, col(v))
    BY DEF Against
  <2>3. ASSUME NEW u \in 0..l PROVE colT(v)[u] = Mul(a[v], col(v)[u])
    <3>1. s[n - u - v] \in Elements /\ n - v - u = n - u - v /\ a[v] \in Elements /\ c[u] \in Elements
      BY <1>4
    <3>2. colT(v)[u] = Mul(c[u], Mul(a[v], s[n - u - v]))
      OBVIOUS
    <3>3. col(v)[u] = Mul(c[u], s[n - u - v])
      BY <3>1
    <3>. QED
      BY <3>1, <3>2, <3>3, MulExchange
  <2>. HIDE DEF colT, col
  <2>4. Sum(l + 1, colT(v)) = Mul(a[v], Sum(l + 1, col(v)))
    BY <1>1, <2>1, <2>3, SumScale
  <2>. QED
    BY <2>2, <2>4
<1>9. Sum(l + 1, rows) = Sum(m + 1, cols)
  <2>1. Sum(l + 1, [u \in 0..((l + 1) - 1) |-> Sum(m + 1, t[u])]) =
          Sum(m + 1, [v \in 0..((m + 1) - 1) |-> Sum(l + 1, [u \in 0..((l + 1) - 1) |-> t[u][v]])])
    <3>1. \A u \in 0..((l + 1) - 1) : Terms(m + 1, t[u])
      BY <1>1, <1>7
    <3>. HIDE DEF t
    <3>2. SameSums(l + 1, m + 1, t)
      BY <1>1, <3>1, SumSwap
    <3>. QED
      BY <3>2 DEF SameSums
  <2>. QED
    BY <1>1, <2>1
<1>10. Sum(l + 1, rows) = 0
  <2>1. \A u \in 0..((l + 1) - 1) : rows[u] = 0
    BY <1>1, <1>7
  <2>. HIDE DEF rows
  <2>. QED
    BY <1>1, <2>1, SumZeros
<1>11. cols[0] = Against(c, l, s, n) /\ cols[0] \in Elements
  <2>1. Readable(c, l, s, n)
    BY <1>1, <1>6
  <2>2. Against(c, l, s, n) \in Elements
    BY <1>1, <2>1, AgainstTerms
  <2>3. cols[0] = Mul(1, Against(c, l, s, n))
    <3>1. n - 0 = n
      OBVIOUS
    <3>. HIDE DEF colT
    <3>. QED
      BY <1>1, <1>8, <3>1
  <2>. HIDE DEF cols
  <2>. QED
    BY <2>2, <2>3, OneTimes
<1>12. \A v \in 1..m : cols[v] = 0
  <2>1. \A v \in 1..m : v \in 0..m /\ v # 0
    OBVIOUS
  <2>2. \A v \in 1..m : Against(c, l, s, n - v) = 0
    BY <1>3, <2>1
  <2>. HIDE DEF colT
  <2>. QED
    BY <1>8, <2>1, <2>2, ZeroLaws
<1>. HIDE DEF rows, cols
<1>13. Sum(m + 1, cols) = cols[0]
  <2>1. \A v \in 0..m : cols[v] \in Elements
    <3>1. \A v \in 0..m : v = 0 \/ v \in 1..m
      OBVIOUS
    <3>. QED
      BY <1>11, <1>12, <3>1, FieldTypes
  <2>2. Terms(m + 1, cols)
    BY <1>1, <2>1 DEF Terms
  <2>3. 1 \in 0..(m + 1)
    OBVIOUS
  <2>4. Sum(m + 1, cols) = Sum(1, cols)
    BY <1>1, <1>12, <2>2, <2>3, SumTail
  <2>. QED
    BY <1>11, <2>4, SumOfOne
<1>. QED
  BY <1>9, <1>10, <1>11, <1>13

-----------------------------------------------------------------------------
(* Powers *)

LEMMA PowType ==
  ASSUME NEW x \in Elements, NEW n \in {0, 1}
  PROVE  Pow(x, n) \in 1..FieldMax
<1>1. Log[x] * n \in Nat
  BY LogType, FieldTypes
<1>2. (Log[x] * n) % FieldMax \in 0..(2 * FieldMax + 1)
  <2>. DEFINE l == Log[x] * n
  <2>. HIDE DEF l
  <2>. QED
    BY <1>1, FieldTypes DEF l
<1>. QED
  BY <1>2, FieldTypes, Zenon DEF Pow

-----------------------------------------------------------------------------
(* Polynomials *)

LEMMA PolyMulType ==
  ASSUME NEW m \in Nat, NEW n \in Nat, NEW o \in Nat,
         NEW l, \A k \in 0..m : l[k] \in Elements,
         NEW r, \A k \in 0..n : r[k] \in Elements
  PROVE  PolyMul(l, m, r, n, o) \in [0..o -> Elements]
<1>. DEFINE term(k) == [j \in 0..m |-> IF k - j \in 0..n THEN Mul(l[j], r[k - j]) ELSE 0]
<1>1. ASSUME NEW k \in 0..o, NEW j \in 0..((m + 1) - 1) PROVE term(k)[j] \in Elements
  <2>1. j \in 0..m
    OBVIOUS
  <2>2. CASE k - j \in 0..n
    BY <2>1, <2>2, ArithmeticTypes
  <2>3. CASE k - j \notin 0..n
    BY <2>1, <2>3, FieldTypes
  <2>. QED
    BY <2>2, <2>3
<1>2. m + 1 \in Nat
  OBVIOUS
<1>. HIDE DEF term
<1>3. \A k \in 0..o : Sum(m + 1, term(k)) \in Elements
  BY <1>1, <1>2, SumType
<1>4. PolyMul(l, m, r, n, o) = [k \in 0..o |-> Sum(m + 1, term(k))]
  BY DEF PolyMul, term
<1>. QED
  BY <1>3, <1>4

LEMMA DivisionRowType ==
  ASSUME NEW o \in Nat, NEW d \in 0..o, NEW divisor \in [0..d -> Elements],
         NEW at \in d..o, NEW mod \in [0..o -> Elements]
  PROVE  DivisionRow(mod, o, divisor, d, at) \in [0..o -> Elements]
<1>. DEFINE q == DivLog(Log[mod[at]], Log[divisor[d]])
            shift == at - d
<1>1. CASE mod[at] = 0
  BY <1>1 DEF DivisionRow
<1>2. CASE mod[at] # 0
  <2>1. mod[at] \in 1..FieldMax /\ divisor[d] \in Elements
    BY <1>2, FieldTypes, SMTT(30) DEF Elements
  <2>2. q \in 0..FieldMax
    <3>1. Log[mod[at]] \in 1..FieldMax /\ Log[divisor[d]] \in 0..FieldMax
      BY <2>1, LogType, Zenon
    <3>2. q \in 1..FieldMax
      BY <3>1, ArithmeticTypes, Zenon
    <3>. QED
      BY <3>2, FieldTypes
  <2>. HIDE DEF q
  <2>3. ASSUME NEW k \in 0..o, k - shift \in 0..d
        PROVE  Add(mod[k], MulLogElement(Log[divisor[k - shift]], q)) \in Elements
    <3>1. divisor[k - shift] \in Elements /\ mod[k] \in Elements
      BY <2>3
    <3>2. Log[divisor[k - shift]] \in 0..FieldMax
      BY <3>1, LogType
    <3>3. MulLogElement(Log[divisor[k - shift]], q) \in Elements
      BY <2>2, <3>2, ArithmeticTypes, FieldTypes
    <3>. QED
      BY <3>1, <3>3, FieldTypes
  <2>4. DivisionRow(mod, o, divisor, d, at) =
          [k \in 0..o |->
             IF k - shift \in 0..d /\ divisor[k - shift] # 0
             THEN Add(mod[k], MulLogElement(Log[divisor[k - shift]], q))
             ELSE mod[k]]
    BY <1>2 DEF DivisionRow, q
  <2>. QED
    BY <2>3, <2>4
<1>. QED
  BY <1>1, <1>2

\* s divides one row at a time
Divides(s, dividend, o, divisor, d) ==
  /\ s[0] = dividend
  /\ \A k \in 1..(o - d + 1) : s[k] = DivisionRow(s[k - 1], o, divisor, d, o + 1 - k)
  /\ \A k \in 0..(o - d + 1) : s[k] \in [0..o -> Elements]

LEMMA PolyModRecursion ==
  ASSUME NEW o \in Nat, NEW d \in 0..o, NEW divisor \in [0..d -> Elements],
         NEW dividend \in [0..o -> Elements]
  PROVE  \E s : Divides(s, dividend, o, divisor, d)
               /\ PolyMod(dividend, o, divisor, d) = s[o - d + 1]
<1>. DEFINE n == o - d + 1
            Step(s) == [k \in 0..n |->
                          IF k = 0 THEN dividend
                          ELSE DivisionRow(s[k - 1], o, divisor, d, o + 1 - k)]
            S == CHOOSE s : s = Step(s)
            V == [0..o -> Elements]
            T == [k \in 0..n |-> V]
            step == [k \in 1..n |-> [v \in V |-> DivisionRow(v, o, divisor, d, o + 1 - k)]]
<1>1. PolyMod(dividend, o, divisor, d) = S[n] /\ n \in Nat
  BY DEF PolyMod
<1>2. ASSUME NEW k \in 1..n, NEW v \in V PROVE DivisionRow(v, o, divisor, d, o + 1 - k) \in V
  <2>1. o + 1 - k \in d..o
    OBVIOUS
  <2>. QED
    BY <2>1, DivisionRowType
<1>3. dividend \in V
  OBVIOUS
<1>. HIDE DEF V
<1>4. \A k \in 1..n : k - 1 \in 0..n /\ k \in 0..n
  OBVIOUS
<1>5. \A k \in 1..n : \A v \in T[k - 1] : step[k][v] = DivisionRow(v, o, divisor, d, o + 1 - k)
  BY <1>4
<1>6. \A k \in 1..n : \A v \in T[k - 1] : step[k][v] \in T[k]
  BY <1>2, <1>4
<1>7. dividend \in T[0]
  BY <1>1, <1>3
<1>. HIDE DEF T, step, n
<1>8. PICK r : Iterates(r, n, T, dividend, step)
  BY <1>1, <1>6, <1>7, Iteration, Zenon
<1>9. r = Step(r)
  <2>1. ASSUME NEW k \in 0..n
        PROVE  r[k] = IF k = 0 THEN dividend
                      ELSE DivisionRow(r[k - 1], o, divisor, d, o + 1 - k)
    <3>1. CASE k = 0
      BY <1>8, <3>1 DEF Iterates
    <3>2. CASE k # 0
      <4>1. k \in 1..n /\ k - 1 \in 0..n
        BY <1>1, <3>2
      <4>. QED
        BY <1>5, <1>8, <3>2, <4>1 DEF Iterates
    <3>. QED
      BY <3>1, <3>2
  <2>. QED
    BY <1>8, <2>1 DEF Iterates
<1>. HIDE DEF Step
<1>10. S = Step(S)
  BY <1>9
<1>. HIDE DEF S
<1>. DEFINE Reached == {k \in 0..n : S[k] \in V}
<1>11. 0 \in Reached
  BY <1>1, <1>3, <1>10 DEF Step
<1>12. ASSUME NEW k \in 1..n, k - 1 \in Reached PROVE k \in Reached
  <2>1. S[k - 1] \in V /\ k \in 0..n /\ k # 0
    BY <1>1, <1>12
  <2>2. S[k] = DivisionRow(S[k - 1], o, divisor, d, o + 1 - k)
    BY <1>10, <2>1 DEF Step
  <2>3. S[k] \in V
    BY <1>2, <2>1, <2>2, Zenon
  <2>. QED
    BY <2>1, <2>3
<1>13. \A k \in 0..n : k \in Reached
  <2>. HIDE DEF Reached
  <2>. QED
    BY <1>1, <1>11, <1>12, UpTo
<1>14. \A k \in 1..n : S[k] = DivisionRow(S[k - 1], o, divisor, d, o + 1 - k)
  BY <1>4, <1>10 DEF Step
<1>15. S[0] = dividend
  BY <1>1, <1>10 DEF Step
<1>16. Divides(S, dividend, o, divisor, d)
  BY <1>13, <1>14, <1>15 DEF Divides, V, n
<1>. QED
  BY <1>1, <1>16 DEF n

\* The remainder of a division is a polynomial over the field.
LEMMA PolyModType ==
  ASSUME NEW o \in Nat, NEW d \in 0..o, NEW divisor \in [0..d -> Elements],
         NEW dividend \in [0..o -> Elements]
  PROVE  PolyMod(dividend, o, divisor, d) \in [0..o -> Elements]
<1>1. PICK s : Divides(s, dividend, o, divisor, d)
               /\ PolyMod(dividend, o, divisor, d) = s[o - d + 1]
  BY PolyModRecursion
<1>2. o - d + 1 \in 0..(o - d + 1)
  OBVIOUS
<1>. QED
  BY <1>1, <1>2 DEF Divides

\* s multiplies by one linear factor at a time
Factor(root) == [j \in 0..1 |-> IF j = 0 THEN root ELSE 1]
Multiplies(s, roots, n) ==
  /\ s[0] = [j \in {0} |-> 1]
  /\ \A k \in 1..n : s[k] = PolyMul(Factor(roots[k - 1]), 1, s[k - 1], k - 1, k)
  /\ \A k \in 0..n : s[k] \in [0..k -> Elements]

LEMMA FromRootsRecursion ==
  ASSUME NEW n \in Nat, NEW roots, \A k \in 0..(n - 1) : roots[k] \in Elements
  PROVE  \E s : Multiplies(s, roots, n) /\ FromRoots(roots, n) = s[n]
<1>. DEFINE first == [j \in {0} |-> 1]
            factor(k) == [j \in 0..1 |-> IF j = 0 THEN roots[k - 1] ELSE 1]
            After(k, v) == PolyMul(factor(k), 1, v, k - 1, k)
            Step(s) == [k \in 0..n |-> IF k = 0 THEN first ELSE After(k, s[k - 1])]
            S == CHOOSE s : s = Step(s)
            T == [k \in 0..n |-> [0..k -> Elements]]
            step == [k \in 1..n |-> [v \in [0..(k - 1) -> Elements] |-> After(k, v)]]
<1>1. FromRoots(roots, n) = S[n]
  BY DEF FromRoots
<1>2. ASSUME NEW k \in 1..n, NEW v \in [0..(k - 1) -> Elements]
      PROVE  After(k, v) \in [0..k -> Elements]
  <2>1. \A j \in 0..1 : factor(k)[j] \in Elements
    BY FieldTypes
  <2>2. k - 1 \in Nat /\ k \in Nat /\ 1 \in Nat /\ \A j \in 0..(k - 1) : v[j] \in Elements
    OBVIOUS
  <2>. HIDE DEF factor
  <2>. QED
    BY <2>1, <2>2, PolyMulType
<1>3. first \in [0..0 -> Elements]
  BY FieldTypes
<1>. HIDE DEF After, first
<1>4. \A k \in 1..n : k - 1 \in 0..n /\ k \in 0..n
  OBVIOUS
<1>5. \A k \in 1..n : \A v \in T[k - 1] : step[k][v] = After(k, v)
  BY <1>4
<1>6. \A k \in 1..n : \A v \in T[k - 1] : step[k][v] \in T[k]
  BY <1>2, <1>4
<1>7. first \in T[0]
  BY <1>3
<1>. HIDE DEF T, step
<1>8. PICK r : Iterates(r, n, T, first, step)
  BY <1>6, <1>7, Iteration, Zenon
<1>9. r = Step(r)
  <2>1. ASSUME NEW k \in 0..n
        PROVE  r[k] = IF k = 0 THEN first ELSE After(k, r[k - 1])
    <3>1. CASE k = 0
      BY <1>8, <3>1 DEF Iterates
    <3>2. CASE k # 0
      <4>1. k \in 1..n /\ k - 1 \in 0..n
        BY <3>2
      <4>. QED
        BY <1>5, <1>8, <3>2, <4>1 DEF Iterates
    <3>. QED
      BY <3>1, <3>2
  <2>. QED
    BY <1>8, <2>1 DEF Iterates
<1>. HIDE DEF Step
<1>10. S = Step(S)
  BY <1>9
<1>. HIDE DEF S
<1>. DEFINE Reached == {k \in 0..n : S[k] \in [0..k -> Elements]}
<1>11. 0 \in Reached
  BY <1>3, <1>10 DEF Step
<1>12. ASSUME NEW k \in 1..n, k - 1 \in Reached PROVE k \in Reached
  BY <1>2, <1>10, <1>12 DEF Step
<1>13. \A k \in 0..n : k \in Reached
  <2>. HIDE DEF Reached
  <2>. QED
    BY <1>11, <1>12, UpTo
<1>14. \A k \in 1..n : S[k] = After(k, S[k - 1])
  BY <1>4, <1>10 DEF Step
<1>15. S[0] = first
  BY <1>10 DEF Step
<1>16. \A k \in 1..n : After(k, S[k - 1]) = PolyMul(Factor(roots[k - 1]), 1, S[k - 1], k - 1, k)
  BY DEF After, Factor
<1>. QED
  BY <1>1, <1>13, <1>14, <1>15, <1>16 DEF Multiplies, first

\* The product of n linear factors has the order n.
LEMMA FromRootsType ==
  ASSUME NEW n \in Nat, NEW roots, \A k \in 0..(n - 1) : roots[k] \in Elements
  PROVE  FromRoots(roots, n) \in [0..n -> Elements]
<1>1. PICK s : Multiplies(s, roots, n) /\ FromRoots(roots, n) = s[n]
  BY FromRootsRecursion
<1>. QED
  BY <1>1 DEF Multiplies

\* s holds the logarithms of the powers of x
Logarithms(s, x, n) ==
  /\ \A k \in 0..n : s[k] \in 1..FieldMax
  /\ s[0] = Log[1]
  /\ \A k \in 1..n : s[k] = MulLog(s[k - 1], Log[x])

LEMMA LutRecursion ==
  ASSUME NEW x \in Nonzero, NEW n \in Nat
  PROVE  Logarithms(BuildExpLut(x, n), x, n)
<1>. DEFINE Step(s) == [k \in 0..n |-> IF k = 0 THEN Log[1] ELSE MulLog(s[k - 1], Log[x])]
            S == CHOOSE s : s = Step(s)
            V == 1..FieldMax
            T == [k \in 0..n |-> V]
            step == [k \in 1..n |-> [v \in V |-> MulLog(v, Log[x])]]
<1>1. BuildExpLut(x, n) = [k \in 0..n |-> IF x = 0 THEN 0 ELSE S[k]]
  BY DEF BuildExpLut
<1>2. ASSUME NEW v \in V PROVE MulLog(v, Log[x]) \in V
  <2>1. Log[x] \in 1..FieldMax
    BY LogType DEF Nonzero
  <2>. QED
    BY <2>1, ArithmeticTypes
<1>3. Log[1] \in V
  BY FieldTypes, LogType
<1>. HIDE DEF V
<1>4. \A k \in 1..n : k - 1 \in 0..n /\ k \in 0..n
  OBVIOUS
<1>5. \A k \in 1..n : \A v \in T[k - 1] : step[k][v] = MulLog(v, Log[x])
  BY <1>4
<1>6. \A k \in 1..n : \A v \in T[k - 1] : step[k][v] \in T[k]
  BY <1>2, <1>4
<1>7. Log[1] \in T[0]
  BY <1>3
<1>. HIDE DEF T, step
<1>8. PICK r : Iterates(r, n, T, Log[1], step)
  BY <1>6, <1>7, Iteration, Zenon
<1>9. r = Step(r)
  <2>1. ASSUME NEW k \in 0..n
        PROVE  r[k] = IF k = 0 THEN Log[1] ELSE MulLog(r[k - 1], Log[x])
    <3>1. CASE k = 0
      BY <1>8, <3>1 DEF Iterates
    <3>2. CASE k # 0
      <4>1. k \in 1..n /\ k - 1 \in 0..n
        BY <3>2
      <4>. QED
        BY <1>5, <1>8, <3>2, <4>1, ZenonT(60) DEF Iterates
    <3>. QED
      BY <3>1, <3>2
  <2>. QED
    BY <1>8, <2>1 DEF Iterates
<1>. HIDE DEF Step
<1>10. S = Step(S)
  BY <1>9
<1>. HIDE DEF S
<1>. DEFINE Reached == {k \in 0..n : S[k] \in V}
<1>11. 0 \in Reached
  BY <1>3, <1>10 DEF Step
<1>12. ASSUME NEW k \in 1..n, k - 1 \in Reached PROVE k \in Reached
  <2>1. S[k - 1] \in V /\ k \in 0..n /\ k # 0
    BY <1>12
  <2>2. S[k] = MulLog(S[k - 1], Log[x])
    BY <1>10, <2>1 DEF Step
  <2>. QED
    BY <1>2, <2>1, <2>2
<1>13. \A k \in 0..n : k \in Reached
  <2>. HIDE DEF Reached
  <2>. QED
    BY <1>11, <1>12, UpTo
<1>14. x # 0 /\ 0 \in 0..n
  BY ZeroLaws
<1>15. \A k \in 0..n : BuildExpLut(x, n)[k] = S[k]
  BY <1>1, <1>14
<1>16. S[0] = Log[1] /\ \A k \in 1..n : S[k] = MulLog(S[k - 1], Log[x])
  BY <1>4, <1>10, <1>14 DEF Step
<1>. QED
  BY <1>4, <1>13, <1>14, <1>15, <1>16 DEF Logarithms, V

LEMMA BuildExpLutType ==
  ASSUME NEW x \in Elements, NEW n \in Nat
  PROVE  /\ x = 0 => BuildExpLut(x, n) = [k \in 0..n |-> 0]
         /\ x # 0 => BuildExpLut(x, n) \in [0..n -> 1..FieldMax]
<1>1. CASE x = 0
  BY <1>1 DEF BuildExpLut
<1>2. CASE x # 0
  <2>1. x \in Nonzero
    BY <1>2, ZeroLaws
  <2>2. \A k \in 0..n : BuildExpLut(x, n)[k] \in 1..FieldMax
    BY <2>1, LutRecursion DEF Logarithms
  <2>3. BuildExpLut(x, n) = [k \in 0..n |-> BuildExpLut(x, n)[k]]
    BY <1>2 DEF BuildExpLut
  <2>. QED
    BY <1>2, <2>2, <2>3
<1>. QED
  BY <1>1, <1>2

LEMMA EvalLutType ==
  ASSUME NEW n \in Nat, NEW poly, \A k \in 0..n : poly[k] \in Elements,
         NEW lut, \A k \in 0..n : lut[k] \in 0..FieldMax
  PROVE  EvalLut(poly, n, lut) \in Elements
<1>. DEFINE term == [k \in 0..n |-> IF poly[k] = 0 THEN 0 ELSE MulLogElement(Log[poly[k]], lut[k])]
<1>1. ASSUME NEW k \in 0..((n + 1) - 1) PROVE term[k] \in Elements
  <2>1. k \in 0..n
    OBVIOUS
  <2>2. poly[k] \in Elements /\ lut[k] \in 0..FieldMax
    BY <2>1
  <2>3. MulLogElement(Log[poly[k]], lut[k]) \in Elements
    BY <2>2, LogType, ArithmeticTypes, FieldTypes
  <2>. QED
    BY <2>1, <2>3, FieldTypes
<1>2. n + 1 \in Nat /\ 0 \in 0..n
  OBVIOUS
<1>3. EvalLut(poly, n, lut) = IF lut[0] = 0 THEN poly[0] ELSE Sum(n + 1, term)
  BY DEF EvalLut
<1>. HIDE DEF term
<1>4. Sum(n + 1, term) \in Elements
  BY <1>1, <1>2, SumType
<1>. QED
  BY <1>2, <1>3, <1>4

\* A location is an index of the block: 0 is tried first and stands for 1.
LEMMA LocationType ==
  ASSUME NEW root \in 1..FieldMax
  PROVE  Location(root) \in Powers
<1>. DEFINE Fits(x) == Pow(x, GeneratorRootGap) = Div(1, root)
            Fitting == {x \in Elements : Fits(x)}
<1>1. GeneratorRootGap = 1 /\ FieldMax \in Nat /\ FieldMax > 0
  BY FieldTypes DEF GeneratorRootGap
<1>2. \A x \in Elements : Log[x] \in 0..FieldMax /\ Log[x] * 1 = Log[x]
  BY LogType, FieldTypes
<1>3. \A x \in Elements : Log[x] = FieldMax => Fits(x) <=> Fits(0)
  <2>1. FieldMax % FieldMax = 0 /\ 0 % FieldMax = 0
    BY <1>1
  <2>2. \A x \in Elements : Pow(x, 1) = Exp[Log[x] % FieldMax]
    BY <1>2 DEF Pow
  <2>. QED
    BY <1>1, <2>1, <2>2, LogType, FieldTypes
<1>4. Fitting # {}
  <2>. DEFINE y == Div(1, root)
  <2>1. y \in 1..FieldMax
    BY ArithmeticTypes
  <2>. HIDE DEF y
  <2>2. Log[y] \in 1..FieldMax /\ Exp[Log[y]] = y /\ y \in Elements
    BY <2>1, LogType, FieldTypes
  <2>3. CASE Log[y] # FieldMax
    <3>1. Log[y] % FieldMax = Log[y]
      BY <1>1, <2>2, <2>3
    <3>. QED
      BY <1>1, <1>2, <2>2, <3>1 DEF Pow, y
  <2>4. CASE Log[y] = FieldMax
    <3>1. y = Exp[0]
      BY <2>2, <2>4, FieldAssumption
    <3>2. 0 % FieldMax = 0 /\ 0 * 1 = 0
      BY <1>1
    <3>3. Pow(0, 1) = Exp[0]
      BY <3>2, LogType DEF Pow
    <3>. QED
      BY <1>1, <3>1, <3>3, FieldTypes DEF y
  <2>. QED
    BY <2>3, <2>4
<1>. DEFINE First(x) == Fits(x) /\ \A z \in 0..(x - 1) : Pow(z, GeneratorRootGap) # Div(1, root)
<1>5. \E x \in Elements : First(x)
  <2>1. Fitting \subseteq Nat
    BY <1>1 DEF Elements
  <2>. HIDE DEF Fitting
  <2>2. PICK x \in Fitting : \A z \in Fitting : x <= z
    BY <1>4, <2>1, LeastNumber
  <2>3. x \in Elements /\ Fits(x)
    BY <2>2 DEF Fitting
  <2>4. ASSUME NEW z \in 0..(x - 1) PROVE ~Fits(z)
    <3>1. z \in Elements /\ ~(x <= z)
      BY <1>1, <2>3 DEF Elements
    <3>. QED
      BY <2>2, <3>1 DEF Fitting
  <2>. QED
    BY <2>3, <2>4
<1>6. Location(root) = Log[CHOOSE x \in Elements : First(x)]
  BY DEF Location
<1>. DEFINE w == CHOOSE x \in Elements : First(x)
<1>7. w \in Elements /\ First(w)
  <2>. HIDE DEF First
  <2>. QED
    BY <1>5
<1>. HIDE DEF w
<1>8. Log[w] # FieldMax
  <2>. SUFFICES ASSUME Log[w] = FieldMax PROVE FALSE
    OBVIOUS
  <2>1. Fits(0)
    BY <1>3, <1>7
  <2>2. w # 0
    BY <1>1, LogType
  <2>3. 0 \in 0..(w - 1)
    BY <1>1, <1>7, <2>2 DEF Elements
  <2>. QED
    BY <1>7, <2>1, <2>3
<1>9. Log[w] \in 0..FieldMax
  BY <1>7, LogType
<1>. QED
  BY <1>1, <1>6, <1>8, <1>9 DEF w, Powers, BlockLength

-----------------------------------------------------------------------------
(* Values of polynomials: w holds the powers of the point *)

PowersOf(w, r, n) ==
  /\ w[0] = 1
  /\ \A j \in 1..n : w[j] = Mul(w[j - 1], r)
  /\ \A j \in 0..n : w[j] \in Elements

Value(a, n, w) == Sum(n + 1, [j \in 0..n |-> Mul(a[j], w[j])])

\* The powers, and a polynomial's value as a recurrence against them, backwards.
Backwards(w, n) == [x \in (-n)..0 |-> w[-x]]

LEMMA ValueIsAgainst ==
  ASSUME NEW n \in Nat, NEW a, NEW w, Over(w, n)
  PROVE  /\ Value(a, n, w) = Against(a, n, Backwards(w, n), 0)
         /\ Back(Backwards(w, n), n, 0)
<1>1. \A j \in 0..n : Backwards(w, n)[0 - j] = w[j]
  <2>1. \A j \in 0..n : 0 - j \in (-n)..0 /\ -(0 - j) = j
    OBVIOUS
  <2>. QED
    BY <2>1 DEF Backwards
<1>2. [j \in 0..n |-> Mul(a[j], w[j])] = [j \in 0..n |-> Mul(a[j], Backwards(w, n)[0 - j])]
  BY <1>1
<1>3. Back(Backwards(w, n), n, 0)
  BY <1>1 DEF Back, Over
<1>. QED
  BY <1>2, <1>3 DEF Value, Against

LEMMA ValueType ==
  ASSUME NEW n \in Nat, NEW a, NEW w, Over(a, n), Over(w, n)
  PROVE  Value(a, n, w) \in Elements
<1>1. Readable(a, n, Backwards(w, n), 0)
  BY ValueIsAgainst DEF Readable, Back, Over
<1>. QED
  BY <1>1, ValueIsAgainst, AgainstTerms, ZenonT(60)

Plus(c, a, b, n) == \A j \in 0..n : c[j] = Add(a[j], b[j])

LEMMA ValueSum ==
  ASSUME NEW n \in Nat, NEW a, NEW b, NEW c, NEW w, Over(a, n), Over(b, n), Over(w, n),
         Plus(c, a, b, n)
  PROVE  Value(c, n, w) = Add(Value(a, n, w), Value(b, n, w))
<1>. DEFINE s == Backwards(w, n)
<1>1. Back(s, n, 0)
  BY ValueIsAgainst
<1>2. Value(a, n, w) = Against(a, n, s, 0) /\ Value(b, n, w) = Against(b, n, s, 0)
      /\ Value(c, n, w) = Against(c, n, s, 0)
  BY ValueIsAgainst
<1>. HIDE DEF s
<1>3. Readable(a, n, s, 0) /\ Readable(b, n, s, 0)
  BY <1>1 DEF Readable, Back, Over
<1>4. \A j \in 0..n : c[j] = Add(a[j], b[j])
  BY DEF Plus
<1>5. Against(c, n, s, 0) = Add(Against(a, n, s, 0), Against(b, n, s, 0))
  BY <1>3, <1>4, AgainstSum
<1>. QED
  BY <1>2, <1>5

LEMMA PowerSum ==
  ASSUME NEW n \in Nat, NEW r \in Elements, NEW w, PowersOf(w, r, n), NEW m \in 0..n
  PROVE  \A j \in 0..(n - m) : w[m + j] = Mul(w[m], w[j])
<1>. DEFINE Good == {j \in 0..(n - m) : w[m + j] = Mul(w[m], w[j])}
<1>1. n - m \in Nat /\ w[m] \in Elements /\ w[0] = 1
  BY DEF PowersOf
<1>2. 0 \in Good
  <2>1. 1 \in Elements
    BY FieldTypes
  <2>2. Mul(w[m], 1) = w[m]
    BY <1>1, <2>1, ZeroLaws, OneTimes
  <2>. QED
    BY <1>1, <2>2
<1>3. ASSUME NEW j \in 1..(n - m), j - 1 \in Good PROVE j \in Good
  <2>1. m + j \in 1..n /\ m + j - 1 = m + (j - 1) /\ j \in 1..n /\ j - 1 \in 0..n
    BY <1>1
  <2>2. w[m + j] = Mul(w[m + (j - 1)], r) /\ w[j] = Mul(w[j - 1], r) /\ w[j - 1] \in Elements
    BY <2>1 DEF PowersOf
  <2>3. w[m + j] = Mul(Mul(w[m], w[j - 1]), r)
    BY <1>3, <2>2
  <2>4. Mul(Mul(w[m], w[j - 1]), r) = Mul(w[m], Mul(w[j - 1], r))
    BY <1>1, <2>2, MulAssociates
  <2>5. w[m + j] = Mul(w[m], w[j])
    BY <2>2, <2>3, <2>4
  <2>. QED
    BY <2>5
<1>4. \A j \in 0..(n - m) : j \in Good
  <2>. HIDE DEF Good
  <2>. QED
    BY <1>1, <1>2, <1>3, UpTo
<1>. QED
  BY <1>4

\* What is shifted by m and scaled by q has its value scaled by q and the m-th power.
LEMMA ValueShift ==
  ASSUME NEW n \in Nat, NEW m \in Nat, NEW o \in Nat, m + o <= n,
         NEW q \in Elements, NEW b, NEW c, NEW r \in Elements, NEW w, PowersOf(w, r, n),
         Over(b, o), Shifted(c, n, m, q, b, o)
  PROVE  Value(c, n, w) = Mul(q, Mul(w[m], Value(b, o, w)))
<1>. DEFINE s == Backwards(w, n)
            t == [j \in 0..o |-> Mul(b[j], w[j])]
            u == [j \in 0..o |-> Mul(b[j], s[(0 - m) - j])]
<1>1. Over(w, n) /\ Over(w, o)
  <2>1. \A j \in 0..o : j \in 0..n
    OBVIOUS
  <2>. QED
    BY <2>1 DEF PowersOf, Over
<1>2. Value(c, n, w) = Against(c, n, s, 0) /\ Back(s, n, 0)
  BY <1>1, ValueIsAgainst
<1>3. \A j \in 0..o : s[(0 - m) - j] = w[m + j]
  <2>1. \A j \in 0..o : (0 - m) - j \in (-n)..0 /\ -((0 - m) - j) = m + j
    OBVIOUS
  <2>. QED
    BY <2>1 DEF Backwards
<1>. HIDE DEF s
<1>4. Against(c, n, s, 0) = Mul(q, Against(b, o, s, 0 - m))
  BY <1>2, AgainstShift
<1>5. Against(b, o, s, 0 - m) = Sum(o + 1, u)
  BY DEF Against
<1>6. w[m] \in Elements /\ m \in 0..n
  BY DEF PowersOf
<1>7. ASSUME NEW j \in 0..o PROVE t[j] \in Elements /\ u[j] = Mul(w[m], t[j])
  <2>1. j \in 0..(n - m)
    OBVIOUS
  <2>2. w[m + j] = Mul(w[m], w[j])
    BY <1>6, <2>1, PowerSum
  <2>3. b[j] \in Elements /\ w[j] \in Elements
    BY <1>1 DEF Over
  <2>4. u[j] = Mul(b[j], Mul(w[m], w[j]))
    BY <1>3, <2>2
  <2>5. Mul(b[j], Mul(w[m], w[j])) = Mul(w[m], Mul(b[j], w[j]))
    BY <1>6, <2>3, MulExchange
  <2>6. Mul(b[j], w[j]) \in Elements
    BY <2>3, ArithmeticTypes
  <2>. QED
    BY <2>4, <2>5, <2>6
<1>8. Value(b, o, w) = Sum(o + 1, t)
  BY DEF Value
<1>9. o + 1 \in Nat /\ (o + 1) - 1 = o
  OBVIOUS
<1>. HIDE DEF t, u
<1>10. Terms(o + 1, t) /\ \A j \in 0..((o + 1) - 1) : u[j] = Mul(w[m], t[j])
  BY <1>7, <1>9 DEF Terms
<1>11. Sum(o + 1, u) = Mul(w[m], Sum(o + 1, t))
  BY <1>6, <1>9, <1>10, SumScale
<1>. QED
  BY <1>2, <1>4, <1>5, <1>8, <1>11

\* The table of logarithms is one of the powers, and the code evaluates with it.
LEMMA EvalLutIs ==
  ASSUME NEW x \in Nonzero, NEW n \in Nat, NEW poly, Over(poly, n)
  PROVE  /\ PowersOf([j \in 0..n |-> Exp[BuildExpLut(x, n)[j]]], x, n)
         /\ EvalLut(poly, n, BuildExpLut(x, n)) =
              Value(poly, n, [j \in 0..n |-> Exp[BuildExpLut(x, n)[j]]])
<1>. DEFINE lut == BuildExpLut(x, n)
            w == [j \in 0..n |-> Exp[lut[j]]]
<1>1. Logarithms(lut, x, n)
  BY LutRecursion
<1>. HIDE DEF lut
<1>2. \A j \in 0..n : lut[j] \in 1..FieldMax
  BY <1>1 DEF Logarithms
<1>3. \A k \in 1..FieldMax : Exp[k] \in Nonzero /\ Log[Exp[k]] = k
  <2>1. \A k \in 1..FieldMax : k \in 1..(2 * FieldMax) /\ Wrapped(k) = k
            /\ k \in 0..(2 * FieldMax + 1)
    BY FieldTypes DEF Wrapped
  <2>. QED
    BY <2>1, LogOfExp, FieldTypes DEF Nonzero
<1>4. PowersOf(w, x, n)
  <2>1. 1 \in Nonzero /\ Exp[Log[1]] = 1
    BY FieldTypes, LogType DEF Nonzero
  <2>2. w[0] = 1
    BY <1>1, <2>1 DEF Logarithms
  <2>3. \A j \in 0..n : w[j] \in Elements
    BY <1>2, <1>3, ZeroLaws
  <2>4. ASSUME NEW j \in 1..n PROVE w[j] = Mul(w[j - 1], x)
    <3>1. j \in 0..n /\ j - 1 \in 0..n
      OBVIOUS
    <3>2. lut[j] = Wrapped(lut[j - 1] + Log[x]) /\ lut[j - 1] \in 1..FieldMax
      BY <1>1, <1>2, <3>1 DEF Logarithms, MulLog
    <3>3. w[j - 1] \in Nonzero /\ Log[w[j - 1]] = lut[j - 1] /\ w[j] = Exp[lut[j]]
      BY <1>3, <3>1, <3>2
    <3>4. Mul(w[j - 1], x) = Exp[lut[j - 1] + Log[x]] /\ Log[x] \in 1..FieldMax
      BY <3>3, MulByLog
    <3>5. lut[j - 1] + Log[x] \in 1..(2 * FieldMax)
      BY <3>2, <3>4, FieldTypes
    <3>. QED
      BY <3>2, <3>3, <3>4, <3>5, LogOfExp
  <2>. HIDE DEF w
  <2>. QED
    BY <2>2, <2>3, <2>4 DEF PowersOf
<1>5. EvalLut(poly, n, lut) =
        Sum(n + 1, [k \in 0..n |-> IF poly[k] = 0 THEN 0 ELSE MulLogElement(Log[poly[k]], lut[k])])
  <2>1. lut[0] # 0
    BY <1>2, FieldTypes
  <2>. QED
    BY <2>1 DEF EvalLut
<1>6. ASSUME NEW k \in 0..n
      PROVE  (IF poly[k] = 0 THEN 0 ELSE MulLogElement(Log[poly[k]], lut[k])) = Mul(poly[k], w[k])
  <2>1. w[k] \in Nonzero /\ Log[w[k]] = lut[k] /\ w[k] \in Elements
    BY <1>2, <1>3, ZeroLaws
  <2>2. CASE poly[k] = 0
    BY <2>1, <2>2, ZeroLaws
  <2>3. CASE poly[k] # 0
    <3>1. poly[k] \in Nonzero
      BY <2>3, ZeroLaws DEF Over
    <3>. HIDE DEF w
    <3>. QED
      BY <2>1, <2>3, <3>1, MulByLog, SMTT(30) DEF MulLogElement
  <2>. QED
    BY <2>2, <2>3
<1>7. [k \in 0..n |-> IF poly[k] = 0 THEN 0 ELSE MulLogElement(Log[poly[k]], lut[k])]
        = [k \in 0..n |-> Mul(poly[k], w[k])]
  <2>. HIDE DEF w
  <2>. QED
    BY <1>6
<1>8. EvalLut(poly, n, lut) = Value(poly, n, w)
  <2>. HIDE DEF w
  <2>. QED
    BY <1>5, <1>7 DEF Value
<1>. QED
  BY <1>4, <1>8 DEF lut

LEMMA SumOfTwo ==
  ASSUME NEW t, t[0] \in Elements, t[1] \in Elements
  PROVE  Sum(2, t) = Add(t[0], t[1])
<1>1. Terms(2, t)
  <2>1. \A k \in 0..(2 - 1) : k = 0 \/ k = 1
    OBVIOUS
  <2>. QED
    BY <2>1 DEF Terms
<1>2. Unfolds(2, t)
  BY <1>1, SumUnfolds
<1>3. Sum(1, t) = t[0]
  BY SumOfOne
<1>4. Sum(2, t) = Add(Sum(2 - 1, t), t[2 - 1])
  <2>1. 2 \in 1..2
    OBVIOUS
  <2>. QED
    BY <1>2, <2>1 DEF Unfolds
<1>5. 2 - 1 = 1
  OBVIOUS
<1>. QED
  BY <1>3, <1>4, <1>5

\* p has the value of t, scaled by that of x + root
Scales(p, root, t, k) ==
  \A r \in Elements : \A w :
    PowersOf(w, r, k) => Value(p, k, w) = Mul(Add(root, r), Value(t, k - 1, w))

\* A linear factor scales the value by its own, and keeps the leading coefficient.
LEMMA FactorValue ==
  ASSUME NEW k \in Nat \ {0}, NEW root \in Elements, NEW t \in [0..(k - 1) -> Elements]
  PROVE  /\ PolyMul(Factor(root), 1, t, k - 1, k)[k] = t[k - 1]
         /\ Scales(PolyMul(Factor(root), 1, t, k - 1, k), root, t, k)
<1>. DEFINE p == PolyMul(Factor(root), 1, t, k - 1, k)
            u(m) == [j \in 0..1 |-> IF m - j \in 0..(k - 1) THEN Mul(Factor(root)[j], t[m - j]) ELSE 0]
            a == [m \in 0..k |-> IF m - 0 \in 0..(k - 1) THEN Mul(root, t[m - 0]) ELSE 0]
            b == [m \in 0..k |-> IF m - 1 \in 0..(k - 1) THEN Mul(1, t[m - 1]) ELSE 0]
<1>1. Factor(root)[0] = root /\ Factor(root)[1] = 1 /\ 1 \in Elements /\ 0 \in Elements
  BY FieldTypes DEF Factor
<1>2. \A j \in 0..(k - 1) : t[j] \in Elements
  OBVIOUS
<1>3. ASSUME NEW m \in 0..k
      PROVE  a[m] \in Elements /\ b[m] \in Elements /\ p[m] = Add(a[m], b[m])
  <2>1. a[m] \in Elements /\ b[m] \in Elements
    BY <1>1, <1>2, ArithmeticTypes
  <2>2. u(m)[0] = a[m] /\ u(m)[1] = b[m]
    BY <1>1
  <2>3. p[m] = Sum(2, u(m))
    BY DEF PolyMul
  <2>. HIDE DEF u, a, b, p
  <2>. QED
    BY <2>1, <2>2, <2>3, SumOfTwo
<1>4. Shifted(a, k, 0, root, t, k - 1) /\ Shifted(b, k, 1, 1, t, k - 1)
  BY DEF Shifted
<1>5. p[k] = t[k - 1]
  <2>1. a[k] = 0 /\ b[k] = Mul(1, t[k - 1]) /\ t[k - 1] \in Elements
    BY <1>2
  <2>. HIDE DEF a, b, p
  <2>. QED
    BY <1>3, <2>1, OneTimes, AddLaws
<1>6. /\ k \in Nat /\ k - 1 \in Nat /\ 0 + (k - 1) <= k /\ 1 + (k - 1) <= k /\ 0 \in Nat /\ 1 \in Nat
      /\ 1 \in 1..k /\ 1 - 1 = 0 /\ \A j \in 0..(k - 1) : j \in 0..k
  OBVIOUS
<1>. HIDE DEF p, a, b
<1>7. Over(a, k) /\ Over(b, k) /\ Plus(p, a, b, k) /\ Over(t, k - 1)
  BY <1>2, <1>3 DEF Over, Plus
<1>8. ASSUME NEW r \in Elements, NEW w, PowersOf(w, r, k)
      PROVE  Value(p, k, w) = Mul(Add(root, r), Value(t, k - 1, w))
  <2>1. Over(w, k) /\ Over(w, k - 1)
    BY <1>6, <1>8 DEF PowersOf, Over
  <2>2. w[0] = 1 /\ w[1] = r
    <3>1. w[0] = 1 /\ w[1] = Mul(w[0], r)
      BY <1>6, <1>8 DEF PowersOf
    <3>. QED
      BY <3>1, OneTimes
  <2>3. Value(t, k - 1, w) \in Elements
    BY <1>6, <1>7, <2>1, ValueType
  <2>4. Value(a, k, w) = Mul(root, Mul(w[0], Value(t, k - 1, w)))
    BY <1>4, <1>6, <1>7, <1>8, ValueShift
  <2>5. Value(b, k, w) = Mul(1, Mul(w[1], Value(t, k - 1, w)))
    BY <1>1, <1>4, <1>6, <1>7, <1>8, ValueShift
  <2>6. Value(p, k, w) = Add(Value(a, k, w), Value(b, k, w))
    BY <1>6, <1>7, <2>1, ValueSum
  <2>7. Value(a, k, w) = Mul(root, Value(t, k - 1, w))
    BY <2>2, <2>3, <2>4, OneTimes
  <2>8. Value(b, k, w) = Mul(r, Value(t, k - 1, w))
    <3>1. Mul(r, Value(t, k - 1, w)) \in Elements
      BY <2>3, ArithmeticTypes
    <3>. QED
      BY <2>2, <2>5, <3>1, OneTimes
  <2>. QED
    BY <2>3, <2>6, <2>7, <2>8, Distributes
<1>9. Scales(p, root, t, k)
  BY <1>8 DEF Scales
<1>. QED
  BY <1>5, <1>9 DEF p

\* The product of linear factors begins with 1 and vanishes at each of its roots.
LEMMA FromRootsVanishes ==
  ASSUME NEW n \in Nat, NEW roots, \A k \in 0..(n - 1) : roots[k] \in Elements
  PROVE  /\ FromRoots(roots, n)[n] = 1
         /\ \A m \in 0..(n - 1) : \A w :
              PowersOf(w, roots[m], n) => Value(FromRoots(roots, n), n, w) = 0
<1>1. PICK s : Multiplies(s, roots, n) /\ FromRoots(roots, n) = s[n]
  BY FromRootsRecursion
<1>2. /\ s[0] = [j \in {0} |-> 1]
      /\ \A k \in 1..n : s[k] = PolyMul(Factor(roots[k - 1]), 1, s[k - 1], k - 1, k)
      /\ \A k \in 0..n : s[k] \in [0..k -> Elements]
  BY <1>1 DEF Multiplies
<1>3. ASSUME NEW k \in 1..n
      PROVE  /\ k \in Nat \ {0} /\ roots[k - 1] \in Elements
             /\ s[k - 1] \in [0..(k - 1) -> Elements]
             /\ k \in 0..n /\ k - 1 \in 0..n
  BY <1>2
<1>4. s[n][n] = 1
  <2>. DEFINE Good == {k \in 0..n : s[k][k] = 1}
  <2>1. 0 \in Good
    BY <1>2
  <2>2. ASSUME NEW k \in 1..n, k - 1 \in Good PROVE k \in Good
    <3>1. PolyMul(Factor(roots[k - 1]), 1, s[k - 1], k - 1, k)[k] = s[k - 1][k - 1]
      BY <1>3, FactorValue
    <3>. QED
      BY <1>2, <1>3, <2>2, <3>1
  <2>3. \A k \in 0..n : k \in Good
    <3>. HIDE DEF Good
    <3>. QED
      BY <2>1, <2>2, UpTo
  <2>. QED
    BY <2>3
<1>5. ASSUME NEW m \in 0..(n - 1), NEW w, PowersOf(w, roots[m], n)
      PROVE  Value(s[n], n, w) = 0
  <2>. DEFINE Good == {k \in 0..n : m < k => Value(s[k], k, w) = 0}
  <2>1. 0 \in Good
    OBVIOUS
  <2>2. ASSUME NEW k \in 1..n, k - 1 \in Good PROVE k \in Good
    <3>1. PowersOf(w, roots[m], k) /\ roots[m] \in Elements
      BY <1>5 DEF PowersOf
    <3>2. Value(s[k], k, w) = Mul(Add(roots[k - 1], roots[m]), Value(s[k - 1], k - 1, w))
      <4>1. Scales(PolyMul(Factor(roots[k - 1]), 1, s[k - 1], k - 1, k), roots[k - 1], s[k - 1], k)
        BY <1>3, FactorValue
      <4>2. s[k] = PolyMul(Factor(roots[k - 1]), 1, s[k - 1], k - 1, k)
        BY <1>2
      <4>3. Scales(s[k], roots[k - 1], s[k - 1], k)
        BY <4>1, <4>2
      <4>. QED
        BY <3>1, <4>3 DEF Scales
    <3>3. Over(w, k - 1) /\ Over(s[k - 1], k - 1) /\ k - 1 \in Nat
      <4>1. \A j \in 0..(k - 1) : j \in 0..k
        OBVIOUS
      <4>. QED
        BY <1>3, <3>1, <4>1 DEF PowersOf, Over
    <3>4. Value(s[k - 1], k - 1, w) \in Elements
      BY <3>3, ValueType
    <3>5. CASE m = k - 1
      <4>1. Add(roots[k - 1], roots[m]) = 0
        BY <3>1, <3>5, AddLaws
      <4>2. Value(s[k], k, w) = 0
        BY <3>2, <3>4, <4>1, ZeroLaws
      <4>. QED
        BY <1>3, <4>2
    <3>6. CASE m < k - 1
      <4>1. Value(s[k - 1], k - 1, w) = 0
        BY <2>2, <3>6
      <4>2. Add(roots[k - 1], roots[m]) \in Elements
        BY <1>3, <3>1, FieldTypes
      <4>3. Value(s[k], k, w) = 0
        BY <3>2, <4>1, <4>2, ZeroLaws
      <4>. QED
        BY <1>3, <4>3
    <3>7. CASE ~(m < k)
      BY <1>3, <3>7
    <3>. QED
      BY <3>5, <3>6, <3>7
  <2>3. \A k \in 0..n : k \in Good
    <3>. HIDE DEF Good
    <3>. QED
      BY <2>1, <2>2, UpTo
  <2>4. n \in Good /\ m < n
    BY <2>3
  <2>. QED
    BY <2>4
<1>. QED
  BY <1>1, <1>4, <1>5

\* row has the value of mod wherever the divisor has none
KeepsValue(row, mod, o, divisor, d) ==
  \A r \in Elements : \A w :
    PowersOf(w, r, o) /\ Value(divisor, d, w) = 0 => Value(row, o, w) = Value(mod, o, w)

\* A row of the division adds a multiple of the divisor, and takes one coefficient away.
LEMMA RowAdds ==
  ASSUME NEW o \in Nat, NEW d \in 0..o, NEW divisor \in [0..d -> Elements], divisor[d] # 0,
         NEW at \in d..o, NEW mod \in [0..o -> Elements]
  PROVE  /\ DivisionRow(mod, o, divisor, d, at)[at] = 0
         /\ \A k \in (at + 1)..o : DivisionRow(mod, o, divisor, d, at)[k] = mod[k]
         /\ KeepsValue(DivisionRow(mod, o, divisor, d, at), mod, o, divisor, d)
<1>. DEFINE row == DivisionRow(mod, o, divisor, d, at)
<1>1. CASE mod[at] = 0
  BY <1>1 DEF DivisionRow, KeepsValue
<1>2. CASE mod[at] # 0
  <2>. DEFINE q == DivLog(Log[mod[at]], Log[divisor[d]])
              shift == at - d
              e == Exp[q]
              c == [k \in 0..o |-> IF k - shift \in 0..d THEN Mul(e, divisor[k - shift]) ELSE 0]
  <2>1. mod[at] \in Nonzero /\ divisor[d] \in Nonzero
    BY <1>2, ZeroLaws
  <2>2. /\ q = Wrapped(FieldMax + Log[mod[at]] - Log[divisor[d]])
        /\ FieldMax + Log[mod[at]] - Log[divisor[d]] \in 1..(2 * FieldMax)
    <3>1. Log[mod[at]] \in 1..FieldMax /\ Log[divisor[d]] \in 1..FieldMax
      BY <2>1, MulByLog
    <3>. QED
      BY <3>1, FieldTypes, SMTT(30) DEF DivLog
  <2>3. q \in 1..FieldMax /\ e = Div(mod[at], divisor[d]) /\ e \in Nonzero /\ Log[e] = q
    <3>1. e = Exp[FieldMax + Log[mod[at]] - Log[divisor[d]]] /\ q \in 1..FieldMax
      BY <2>2, LogOfExp
    <3>. QED
      BY <2>1, <2>2, <3>1, MulByLog, SMTT(30)
  <2>4. Mul(e, divisor[d]) = mod[at] /\ e \in Elements /\ mod[at] \in Elements
    BY <2>1, <2>3, DivLaws, ZeroLaws
  <2>5. row = [k \in 0..o |->
                 IF k - shift \in 0..d /\ divisor[k - shift] # 0
                 THEN Add(mod[k], MulLogElement(Log[divisor[k - shift]], q))
                 ELSE mod[k]]
    BY <1>2 DEF DivisionRow
  <2>6. shift \in Nat /\ shift + d = at /\ shift + d <= o /\ at - shift = d /\ at \in 0..o
        /\ \A k \in (at + 1)..o : k \in 0..o /\ k - shift \notin 0..d
    OBVIOUS
  <2>. HIDE DEF q, e, row, shift
  <2>7. ASSUME NEW k \in 0..o PROVE row[k] = Add(mod[k], c[k]) /\ c[k] \in Elements
    <3>1. mod[k] \in Elements
      OBVIOUS
    <3>2. CASE k - shift \in 0..d /\ divisor[k - shift] # 0
      <4>1. divisor[k - shift] \in Nonzero
        BY <3>2, ZeroLaws
      <4>2. Mul(divisor[k - shift], e) = Exp[Log[divisor[k - shift]] + q]
        BY <2>3, <4>1, MulByLog
      <4>3. Mul(e, divisor[k - shift]) = Mul(divisor[k - shift], e)
        BY <2>4, <4>1, ZeroLaws
      <4>4. Mul(e, divisor[k - shift]) \in Elements
        BY <2>4, <4>1, ZeroLaws, ArithmeticTypes
      <4>. QED
        BY <2>5, <3>2, <4>2, <4>3, <4>4 DEF MulLogElement
    <3>3. CASE ~(k - shift \in 0..d /\ divisor[k - shift] # 0)
      <4>1. c[k] = 0
        <5>1. CASE k - shift \in 0..d
          <6>1. divisor[k - shift] = 0
            BY <3>3, <5>1
          <6>. QED
            BY <2>4, <5>1, <6>1, ZeroLaws
        <5>2. CASE k - shift \notin 0..d
          BY <5>2
        <5>. QED
          BY <5>1, <5>2
      <4>2. row[k] = mod[k]
        BY <2>5, <3>3
      <4>. HIDE DEF c
      <4>. QED
        BY <3>1, <4>1, <4>2, AddLaws, FieldTypes
    <3>. QED
      BY <3>2, <3>3
  <2>8. c[at] = mod[at]
    <3>1. d \in 0..d
      OBVIOUS
    <3>. QED
      BY <2>4, <2>6, <3>1
  <2>9. \A k \in (at + 1)..o : c[k] = 0 /\ mod[k] \in Elements
    BY <2>6
  <2>10. Shifted(c, o, shift, e, divisor, d)
    BY DEF Shifted
  <2>. HIDE DEF c
  <2>11. row[at] = 0
    BY <2>4, <2>6, <2>7, <2>8, AddLaws
  <2>12. \A k \in (at + 1)..o : row[k] = mod[k]
    BY <2>6, <2>7, <2>9, AddLaws
  <2>13. ASSUME NEW r \in Elements, NEW w, PowersOf(w, r, o), Value(divisor, d, w) = 0
         PROVE  Value(row, o, w) = Value(mod, o, w)
    <3>1. Over(mod, o) /\ Over(c, o) /\ Over(divisor, d) /\ Plus(row, mod, c, o) /\ Over(w, o)
      BY <2>7, <2>13 DEF Over, Plus, PowersOf
    <3>2. Value(row, o, w) = Add(Value(mod, o, w), Value(c, o, w))
      BY <3>1, ValueSum
    <3>3. Value(c, o, w) = Mul(e, Mul(w[shift], 0))
      <4>1. d \in Nat
        OBVIOUS
      <4>2. Value(c, o, w) = Mul(e, Mul(w[shift], Value(divisor, d, w)))
        BY <2>4, <2>6, <2>10, <2>13, <3>1, <4>1, ValueShift
      <4>. QED
        BY <2>13, <4>2
    <3>4. w[shift] \in Elements
      <4>1. shift \in 0..o
        BY <2>6
      <4>. QED
        BY <3>1, <4>1 DEF Over
    <3>5. Value(c, o, w) = 0
      BY <2>4, <3>3, <3>4, ZeroLaws
    <3>6. Value(mod, o, w) \in Elements
      BY <3>1, ValueType
    <3>. QED
      BY <3>2, <3>5, <3>6, AddLaws
  <2>14. KeepsValue(row, mod, o, divisor, d)
    BY <2>13 DEF KeepsValue
  <2>. QED
    BY <2>11, <2>12, <2>14 DEF row
<1>. QED
  BY <1>1, <1>2

\* The remainder has nothing from the divisor's order on, and the dividend's value
\* wherever the divisor has none.
LEMMA PolyModKeeps ==
  ASSUME NEW o \in Nat, NEW d \in 0..o, NEW divisor \in [0..d -> Elements], divisor[d] # 0,
         NEW dividend \in [0..o -> Elements]
  PROVE  /\ \A k \in d..o : PolyMod(dividend, o, divisor, d)[k] = 0
         /\ KeepsValue(PolyMod(dividend, o, divisor, d), dividend, o, divisor, d)
<1>1. PICK s : Divides(s, dividend, o, divisor, d)
               /\ PolyMod(dividend, o, divisor, d) = s[o - d + 1]
  BY PolyModRecursion
<1>. DEFINE n == o - d + 1
            Done(k) == /\ \A j \in (o + 1 - k)..o : s[k][j] = 0
                       /\ KeepsValue(s[k], dividend, o, divisor, d)
            Good == {k \in 0..n : Done(k)}
<1>2. /\ s[0] = dividend
      /\ \A k \in 1..n : s[k] = DivisionRow(s[k - 1], o, divisor, d, o + 1 - k)
      /\ \A k \in 0..n : s[k] \in [0..o -> Elements]
  BY <1>1 DEF Divides
<1>3. n \in Nat /\ o + 1 - n = d
  OBVIOUS
<1>4. 0 \in Good
  <2>1. \A j \in (o + 1 - 0)..o : FALSE
    OBVIOUS
  <2>2. KeepsValue(s[0], dividend, o, divisor, d)
    BY <1>2 DEF KeepsValue
  <2>. QED
    BY <2>1, <2>2
<1>5. ASSUME NEW k \in 1..n, k - 1 \in Good PROVE k \in Good
  <2>. DEFINE at == o + 1 - k
              row == DivisionRow(s[k - 1], o, divisor, d, at)
  <2>1. /\ at \in d..o /\ k \in 0..n /\ k - 1 \in 0..n
        /\ o + 1 - (k - 1) = at + 1
        /\ \A j \in at..o : j = at \/ j \in (at + 1)..o
    BY <1>3
  <2>2. s[k - 1] \in [0..o -> Elements] /\ s[k] = row
    BY <1>2, <2>1
  <2>3. /\ \A j \in (at + 1)..o : s[k - 1][j] = 0
        /\ KeepsValue(s[k - 1], dividend, o, divisor, d)
    BY <1>5, <2>1
  <2>. HIDE DEF row, at
  <2>4. /\ row[at] = 0
        /\ \A j \in (at + 1)..o : row[j] = s[k - 1][j]
        /\ KeepsValue(row, s[k - 1], o, divisor, d)
    BY <2>1, <2>2, RowAdds DEF row
  <2>5. \A j \in at..o : s[k][j] = 0
    BY <2>1, <2>2, <2>3, <2>4
  <2>6. KeepsValue(s[k], dividend, o, divisor, d)
    BY <2>2, <2>3, <2>4 DEF KeepsValue
  <2>. QED
    BY <2>1, <2>5, <2>6 DEF at
<1>6. \A k \in 0..n : k \in Good
  <2>. HIDE DEF Good, n
  <2>. QED
    BY <1>3, <1>4, <1>5, UpTo
<1>7. Done(n)
  BY <1>3, <1>6
<1>. QED
  BY <1>1, <1>3, <1>7

-----------------------------------------------------------------------------
(* What one call computes *)

LEMMA Sizes ==
  /\ MinDistance \in Nat /\ MinDistance > 0 /\ MinDistance < FieldMax
  /\ BlockLength - 1 \in Nat /\ MinDistance - 1 \in Nat
  /\ Powers = 0..(BlockLength - 1) /\ MinDistance \in 0..(BlockLength - 1)
BY CodecAssumption DEF Powers, BlockLength

LEMMA GeneratorTypes ==
  /\ \A k \in 0..(MinDistance - 1) : GeneratorRoots[k] \in 1..FieldMax
  /\ Generator \in [0..MinDistance -> Elements]
<1>1. ASSUME NEW k \in 0..(MinDistance - 1) PROVE GeneratorRoots[k] \in 1..FieldMax
  <2>1. (GeneratorRootGap * (k + FirstConsecutiveRoot)) % FieldMax \in 0..(2 * FieldMax + 1)
    BY Sizes, FieldTypes DEF GeneratorRootGap, FirstConsecutiveRoot
  <2>. QED
    BY <2>1, FieldTypes DEF GeneratorRoots
<1>2. \A k \in 0..(MinDistance - 1) : GeneratorRoots[k] \in Elements
  BY <1>1, FieldTypes, Zenon
<1>3. FromRoots(GeneratorRoots, MinDistance) \in [0..MinDistance -> Elements]
  BY <1>2, Sizes, FromRootsType, Zenon
<1>. QED
  BY <1>1, <1>3 DEF Generator

LEMMA EncodedType ==
  ASSUME NEW msg \in [0..(MessageLength - 1) -> Elements]
  PROVE  Encoded(msg) \in [Powers -> Elements]
<1>. DEFINE polynomial == [p \in Powers |-> IF p < MinDistance THEN 0 ELSE msg[p - MinDistance]]
            remainder == PolyMod(polynomial, BlockLength - 1, Generator, MinDistance)
<1>1. polynomial \in [Powers -> Elements]
  <2>1. ASSUME NEW p \in Powers, ~(p < MinDistance) PROVE msg[p - MinDistance] \in Elements
    <3>1. p - MinDistance \in 0..(MessageLength - 1)
      BY <2>1, Sizes, FieldTypes DEF MessageLength, Powers, BlockLength
    <3>. QED
      BY <3>1
  <2>2. 0 \in Elements
    BY FieldTypes
  <2>. QED
    BY <2>1, <2>2
<1>2. Encoded(msg) = [p \in Powers |-> IF p < MinDistance THEN remainder[p] ELSE polynomial[p]]
  BY DEF Encoded
<1>. HIDE DEF polynomial
<1>3. remainder \in [Powers -> Elements]
  BY <1>1, Sizes, GeneratorTypes, PolyModType
<1>. HIDE DEF remainder
<1>. QED
  BY <1>1, <1>2, <1>3

LEMMA SyndromesType ==
  ASSUME NEW received \in [Powers -> Elements]
  PROVE  Syndromes(received) \in [0..(MinDistance - 1) -> Elements]
<1>1. ASSUME NEW k \in 0..(MinDistance - 1)
      PROVE  EvalLut(received, BlockLength - 1, GeneratorRootExp[k]) \in Elements
  <2>. DEFINE lut == BuildExpLut(GeneratorRoots[k], BlockLength - 1)
  <2>1. GeneratorRootExp[k] = lut
    BY DEF GeneratorRootExp
  <2>2. GeneratorRoots[k] \in Elements /\ GeneratorRoots[k] # 0
    BY GeneratorTypes, FieldTypes
  <2>3. lut \in [0..(BlockLength - 1) -> 1..FieldMax]
    BY <2>2, Sizes, BuildExpLutType
  <2>. HIDE DEF lut
  <2>4. \A j \in 0..(BlockLength - 1) : lut[j] \in 0..FieldMax /\ received[j] \in Elements
    BY <2>3, Sizes, FieldTypes
  <2>. QED
    BY <2>1, <2>4, Sizes, EvalLutType
<1>. QED
  BY <1>1 DEF Syndromes

LEMMA RootsFromLocationsType ==
  ASSUME NEW locations \in Seq(Powers)
  PROVE  \A k \in 1..Len(locations) : RootsFromLocations(locations)[k] \in Elements
<1>. SUFFICES ASSUME NEW k \in 1..Len(locations)
              PROVE  RootsFromLocations(locations)[k] \in Elements
  OBVIOUS
<1>1. locations[k] \in 0..(2 * FieldMax + 1)
  <2>1. locations[k] \in Powers
    OBVIOUS
  <2>. QED
    BY <2>1, FieldTypes DEF Powers, BlockLength
<1>2. Pow(Exp[locations[k]], GeneratorRootGap) \in Elements
  BY <1>1, FieldTypes, PowType DEF GeneratorRootGap
<1>. QED
  BY <1>2, ArithmeticTypes, FieldTypes DEF RootsFromLocations

LEMMA ErasureLocatorType ==
  ASSUME NEW locations \in Seq(Powers)
  PROVE  FromRoots([k \in 0..(Len(locations) - 1) |-> RootsFromLocations(locations)[k + 1]],
                   Len(locations)) \in [0..Len(locations) -> Elements]
<1>. DEFINE n == Len(locations)
            roots == [k \in 0..(n - 1) |-> RootsFromLocations(locations)[k + 1]]
<1>1. n \in Nat
  OBVIOUS
<1>2. \A k \in 0..(n - 1) : roots[k] \in Elements
  <2>1. \A k \in 0..(n - 1) : k + 1 \in 1..n
    BY <1>1
  <2>. QED
    BY <2>1, RootsFromLocationsType
<1>. HIDE DEF roots, n
<1>3. FromRoots(roots, n) \in [0..n -> Elements]
  BY <1>1, <1>2, FromRootsType
<1>. QED
  BY <1>3 DEF roots, n

LEMMA ModifiedSyndromesType ==
  ASSUME NEW s \in [0..(MinDistance - 1) -> Elements], NEW locations \in Seq(Powers)
  PROVE  ModifiedSyndromes(s, locations) \in [0..(MinDistance - 1) -> Elements]
<1>. DEFINE n == Len(locations)
            erasureLocator ==
              FromRoots([k \in 0..(n - 1) |-> RootsFromLocations(locations)[k + 1]], n)
            modified == PolyMul(erasureLocator, n, s, MinDistance - 1, MinDistance - 1)
<1>1. ModifiedSyndromes(s, locations) =
        IF n = 0 THEN s
        ELSE [k \in 0..(MinDistance - 1) |-> IF k + n < MinDistance THEN modified[k + n] ELSE s[k]]
  BY DEF ModifiedSyndromes
<1>4. erasureLocator \in [0..n -> Elements]
  BY ErasureLocatorType, Zenon
<1>2. n \in Nat
  OBVIOUS
<1>. HIDE DEF erasureLocator, n
<1>3. modified \in [0..(MinDistance - 1) -> Elements]
  <2>1. \A k \in 0..n : erasureLocator[k] \in Elements
    BY <1>4
  <2>2. \A k \in 0..(MinDistance - 1) : s[k] \in Elements
    OBVIOUS
  <2>. QED
    BY <1>2, <2>1, <2>2, Sizes, PolyMulType
<1>. HIDE DEF modified
<1>. QED
  BY <1>1, <1>2, <1>3, Sizes

-----------------------------------------------------------------------------
(* What the syndromes are *)

\* the powers of the generator's root k
RootPowers(k) == [p \in 0..(BlockLength - 1) |-> Exp[GeneratorRootExp[k][p]]]

\* the value at the generator's root k
SyndromeOf(a, k) == Value(a, BlockLength - 1, RootPowers(k))

Vanishes(a) == \A k \in 0..(MinDistance - 1) : SyndromeOf(a, k) = 0

LEMMA SmallModulo ==
  ASSUME NEW n \in Nat \ {0}, NEW a \in 0..(n - 1)
  PROVE  a % n = a
OBVIOUS

LEMMA RootPowersAre ==
  ASSUME NEW k \in 0..(MinDistance - 1)
  PROVE  /\ GeneratorRoots[k] = Exp[k + 1] /\ k + 1 \in 1..(FieldMax - 1)
         /\ GeneratorRoots[k] \in Elements
         /\ PowersOf(RootPowers(k), GeneratorRoots[k], BlockLength - 1)
         /\ Over(RootPowers(k), BlockLength - 1)
         /\ \A a : Over(a, BlockLength - 1) =>
              EvalLut(a, BlockLength - 1, GeneratorRootExp[k]) = SyndromeOf(a, k)
<1>. DEFINE x == GeneratorRoots[k]
            lut == BuildExpLut(x, BlockLength - 1)
            n == BlockLength - 1
<1>1. GeneratorRootExp[k] = lut
  BY DEF GeneratorRootExp
<1>2. x \in Nonzero /\ x \in Elements /\ n \in Nat
  BY GeneratorTypes, Sizes, ZeroLaws DEF Nonzero
<1>3. x = Exp[k + 1] /\ k + 1 \in 1..(FieldMax - 1)
  <2>1. k + 1 \in 1..(FieldMax - 1) /\ 1 * (k + 1) = k + 1
    BY Sizes, FieldTypes
  <2>2. FieldMax \in Nat \ {0} /\ k + 1 \in 0..(FieldMax - 1)
    BY <2>1, FieldTypes
  <2>3. (k + 1) % FieldMax = k + 1
    BY <2>2, SmallModulo
  <2>. QED
    BY <2>1, <2>3 DEF GeneratorRoots, GeneratorRootGap, FirstConsecutiveRoot
<1>4. RootPowers(k) = [p \in 0..n |-> Exp[lut[p]]]
  BY <1>1 DEF RootPowers
<1>. HIDE DEF n, x
<1>5. ASSUME NEW a, Over(a, n)
      PROVE  EvalLut(a, n, lut) = Value(a, n, [p \in 0..n |-> Exp[lut[p]]])
  BY <1>2, <1>5, EvalLutIs DEF n
<1>6. PowersOf([p \in 0..n |-> Exp[lut[p]]], x, n)
  <2>1. Over([p \in 0..n |-> 0], n)
    BY FieldTypes DEF Over
  <2>. QED
    BY <1>2, <2>1, EvalLutIs DEF n
<1>. HIDE DEF lut
<1>7. PowersOf(RootPowers(k), x, n)
  BY <1>4, <1>6
<1>8. Over(RootPowers(k), n)
  BY <1>7 DEF PowersOf, Over
<1>9. \A a : Over(a, n) => EvalLut(a, n, GeneratorRootExp[k]) = SyndromeOf(a, k)
  BY <1>1, <1>4, <1>5 DEF SyndromeOf, n
<1>. QED
  BY <1>2, <1>3, <1>7, <1>8, <1>9 DEF n, x

LEMMA GeneratorVanishes ==
  /\ Generator[MinDistance] = 1
  /\ \A k \in 0..(MinDistance - 1) : Value(Generator, MinDistance, RootPowers(k)) = 0
<1>1. \A k \in 0..(MinDistance - 1) : GeneratorRoots[k] \in Elements
  BY GeneratorTypes, FieldTypes, Zenon
<1>2. /\ FromRoots(GeneratorRoots, MinDistance)[MinDistance] = 1
      /\ \A m \in 0..(MinDistance - 1) : \A w :
           PowersOf(w, GeneratorRoots[m], MinDistance) =>
             Value(FromRoots(GeneratorRoots, MinDistance), MinDistance, w) = 0
  BY <1>1, Sizes, FromRootsVanishes
<1>3. ASSUME NEW k \in 0..(MinDistance - 1)
      PROVE  PowersOf(RootPowers(k), GeneratorRoots[k], MinDistance)
  <2>1. \A j \in 0..MinDistance : j \in 0..(BlockLength - 1)
    BY Sizes
  <2>2. \A j \in 1..MinDistance : j \in 1..(BlockLength - 1)
    BY Sizes
  <2>3. PowersOf(RootPowers(k), GeneratorRoots[k], BlockLength - 1)
    BY RootPowersAre
  <2>. QED
    BY <2>1, <2>2, <2>3 DEF PowersOf
<1>. QED
  BY <1>2, <1>3 DEF Generator

\* What is encoded vanishes at the roots of the generator.
LEMMA EncodedVanishes ==
  ASSUME NEW msg \in [0..(MessageLength - 1) -> Elements]
  PROVE  Vanishes(Encoded(msg))
<1>. DEFINE n == BlockLength - 1
            polynomial == [p \in Powers |-> IF p < MinDistance THEN 0 ELSE msg[p - MinDistance]]
            remainder == PolyMod(polynomial, BlockLength - 1, Generator, MinDistance)
<1>1. polynomial \in [Powers -> Elements]
  <2>1. ASSUME NEW p \in Powers, ~(p < MinDistance) PROVE msg[p - MinDistance] \in Elements
    <3>1. p - MinDistance \in 0..(MessageLength - 1)
      BY <2>1, Sizes, FieldTypes DEF MessageLength, Powers, BlockLength
    <3>. QED
      BY <3>1
  <2>. QED
    BY <2>1, FieldTypes
<1>2. Encoded(msg) = [p \in Powers |-> IF p < MinDistance THEN remainder[p] ELSE polynomial[p]]
  BY DEF Encoded
<1>3. \A p \in Powers : p < MinDistance => polynomial[p] = 0
  OBVIOUS
<1>. HIDE DEF polynomial, n
<1>4. n \in Nat /\ MinDistance \in 0..n /\ Powers = 0..n
  BY Sizes DEF n
<1>5. Generator \in [0..MinDistance -> Elements] /\ Generator[MinDistance] # 0
  BY GeneratorTypes, GeneratorVanishes
<1>6. /\ \A k \in MinDistance..n : remainder[k] = 0
      /\ KeepsValue(remainder, polynomial, n, Generator, MinDistance)
  BY <1>1, <1>4, <1>5, PolyModKeeps DEF n
<1>7. remainder \in [0..n -> Elements]
  BY <1>1, <1>4, <1>5, PolyModType DEF n
<1>. HIDE DEF remainder
<1>8. Plus(Encoded(msg), remainder, polynomial, n)
  <2>1. ASSUME NEW p \in 0..n
        PROVE  Encoded(msg)[p] = Add(remainder[p], polynomial[p])
    <3>1. p \in Powers /\ remainder[p] \in Elements /\ polynomial[p] \in Elements
      BY <1>1, <1>4, <1>7
    <3>2. CASE p < MinDistance
      BY <1>2, <1>3, <3>1, <3>2, AddLaws
    <3>3. CASE ~(p < MinDistance)
      <4>1. remainder[p] = 0
        BY <1>4, <1>6, <3>3
      <4>. QED
        BY <1>2, <3>1, <3>3, <4>1, AddLaws
    <3>. QED
      BY <3>2, <3>3
  <2>. QED
    BY <2>1 DEF Plus
<1>9. Over(remainder, n) /\ Over(polynomial, n)
  BY <1>1, <1>4, <1>7 DEF Over
<1>10. ASSUME NEW k \in 0..(MinDistance - 1) PROVE SyndromeOf(Encoded(msg), k) = 0
  <2>. DEFINE w == RootPowers(k)
  <2>1. PowersOf(w, GeneratorRoots[k], n) /\ GeneratorRoots[k] \in Elements /\ Over(w, n)
    BY RootPowersAre DEF n
  <2>2. Value(Generator, MinDistance, w) = 0
    BY GeneratorVanishes
  <2>. HIDE DEF w
  <2>3. Value(remainder, n, w) = Value(polynomial, n, w)
    BY <1>6, <2>1, <2>2 DEF KeepsValue
  <2>4. Value(Encoded(msg), n, w) = Add(Value(remainder, n, w), Value(polynomial, n, w))
    BY <1>4, <1>8, <1>9, <2>1, ValueSum
  <2>5. Value(polynomial, n, w) \in Elements
    BY <1>4, <1>9, <2>1, ValueType
  <2>6. Value(Encoded(msg), n, w) = 0
    BY <2>3, <2>4, <2>5, AddLaws
  <2>. QED
    BY <2>6 DEF SyndromeOf, w, n
<1>. QED
  BY <1>10 DEF Vanishes

\* What is received of a block that vanishes has the syndromes of the noise alone.
LEMMA SyndromesAreNoise ==
  ASSUME NEW s \in [Powers -> Elements], NEW e \in [Powers -> Elements], Vanishes(s)
  PROVE  \A k \in 0..(MinDistance - 1) :
           Syndromes([p \in Powers |-> Add(s[p], e[p])])[k] = SyndromeOf(e, k)
<1>. DEFINE n == BlockLength - 1
            c == [p \in Powers |-> Add(s[p], e[p])]
<1>1. n \in Nat /\ Powers = 0..n
  BY Sizes
<1>2. \A p \in Powers : c[p] = Add(s[p], e[p]) /\ c[p] \in Elements
  BY FieldTypes
<1>. HIDE DEF n, c
<1>3. Over(s, n) /\ Over(e, n) /\ Over(c, n) /\ Plus(c, s, e, n)
  BY <1>1, <1>2 DEF Over, Plus
<1>4. ASSUME NEW k \in 0..(MinDistance - 1) PROVE Syndromes(c)[k] = SyndromeOf(e, k)
  <2>. DEFINE w == RootPowers(k)
  <2>1. Over(w, n)
    BY RootPowersAre DEF n
  <2>2. Syndromes(c)[k] = SyndromeOf(c, k)
    BY <1>3, RootPowersAre DEF Syndromes, n
  <2>3. SyndromeOf(s, k) = 0
    BY DEF Vanishes
  <2>. HIDE DEF w
  <2>4. Value(c, n, w) = Add(Value(s, n, w), Value(e, n, w))
    BY <1>1, <1>3, <2>1, ValueSum
  <2>5. Value(e, n, w) \in Elements
    BY <1>1, <1>3, <2>1, ValueType
  <2>. QED
    BY <2>2, <2>3, <2>4, <2>5, AddLaws DEF SyndromeOf, w, n
<1>. QED
  BY <1>4 DEF c

-----------------------------------------------------------------------------
(* The noise has a locator: a factor for every symbol that is damaged *)

\* of symbol p: what it adds to the syndromes, up to its value
Column(p) == [k \in 0..(MinDistance - 1) |-> RootPowers(k)[p]]

Geometric(s, x, n) == \A k \in 1..n : s[k] = Mul(x, s[k - 1])

LEMMA ExpStep ==
  ASSUME NEW k \in 1..FieldMax
  PROVE  Exp[k] = Mul(Exp[k - 1], Exp[1]) /\ Exp[k] \in Nonzero /\ Exp[1] \in Nonzero
         /\ Exp[k - 1] \in Nonzero
<1>1. /\ 1 \in 1..FieldMax /\ 1 \in 1..(2 * FieldMax) /\ Wrapped(1) = 1
      /\ k \in 0..(2 * FieldMax + 1) /\ 1 \in 0..(2 * FieldMax + 1)
      /\ k - 1 \in 0..(2 * FieldMax + 1)
  BY FieldTypes DEF Wrapped
<1>2. Exp[k] \in Nonzero /\ Exp[1] \in Nonzero /\ Exp[k - 1] \in Nonzero /\ Log[Exp[1]] = 1
  BY <1>1, LogOfExp, FieldTypes DEF Nonzero
<1>3. CASE k = 1
  <2>1. Exp[0] = 1
    BY FieldAssumption, Zenon
  <2>2. Exp[1] \in Elements
    BY <1>2, ZeroLaws
  <2>3. Exp[k - 1] = 1
    BY <1>3, <2>1
  <2>. QED
    BY <1>2, <1>3, <2>2, <2>3, OneTimes
<1>4. CASE k # 1
  <2>1. k - 1 \in 1..(2 * FieldMax) /\ Wrapped(k - 1) = k - 1 /\ (k - 1) + 1 = k
    BY <1>4, FieldTypes DEF Wrapped
  <2>2. Log[Exp[k - 1]] = k - 1
    BY <2>1, LogOfExp
  <2>3. Mul(Exp[k - 1], Exp[1]) = Exp[(k - 1) + 1]
    <3>1. Mul(Exp[k - 1], Exp[1]) = Exp[Log[Exp[k - 1]] + Log[Exp[1]]]
      BY <1>2, MulByLog, Zenon
    <3>. QED
      BY <1>2, <2>2, <3>1, Zenon
  <2>. QED
    BY <1>2, <2>1, <2>3
<1>. QED
  BY <1>3, <1>4

LEMMA MulPairs ==
  ASSUME NEW a \in Elements, NEW b \in Elements, NEW c \in Elements, NEW d \in Elements
  PROVE  Mul(Mul(a, b), Mul(c, d)) = Mul(Mul(a, c), Mul(b, d))
<1>1. Mul(b, d) \in Elements /\ Mul(c, d) \in Elements
  BY ArithmeticTypes
<1>2. Mul(Mul(a, b), Mul(c, d)) = Mul(a, Mul(b, Mul(c, d)))
  BY <1>1, MulAssociates
<1>3. Mul(b, Mul(c, d)) = Mul(c, Mul(b, d))
  BY MulExchange
<1>4. Mul(a, Mul(c, Mul(b, d))) = Mul(Mul(a, c), Mul(b, d))
  BY <1>1, MulAssociates
<1>. QED
  BY <1>2, <1>3, <1>4

\* From one root of the generator to the next, symbol p counts Exp[p] times.
LEMMA ColumnIsGeometric ==
  ASSUME NEW p \in Powers
  PROVE  /\ Geometric(Column(p), Exp[p], MinDistance - 1)
         /\ \A k \in 0..(MinDistance - 1) : Column(p)[k] \in Elements
         /\ Exp[p] \in Elements
<1>. DEFINE n == BlockLength - 1
            w(k) == RootPowers(k)
<1>1. /\ Powers = 0..n /\ n \in Nat /\ p \in 0..n
      /\ \A q \in 1..n : q \in 1..FieldMax /\ q \in 0..n /\ q - 1 \in 0..n
      /\ \A k \in 1..(MinDistance - 1) : k \in 0..(MinDistance - 1) /\ k - 1 \in 0..(MinDistance - 1)
                                         /\ k + 1 \in 1..FieldMax /\ (k - 1) + 1 = (k + 1) - 1
  BY Sizes, FieldTypes DEF BlockLength
<1>2. \A q \in 0..n : Exp[q] \in Elements
  <2>1. \A q \in 0..n : q \in 0..(2 * FieldMax + 1)
    BY Sizes, FieldTypes DEF BlockLength
  <2>. QED
    BY <2>1, FieldTypes
<1>3. \A k \in 0..(MinDistance - 1) :
        /\ PowersOf(w(k), GeneratorRoots[k], n) /\ GeneratorRoots[k] \in Elements
        /\ GeneratorRoots[k] = Exp[k + 1]
  BY RootPowersAre
<1>. HIDE DEF n, w
<1>4. \A k \in 0..(MinDistance - 1) : \A q \in 0..n : w(k)[q] \in Elements
  BY <1>3 DEF PowersOf
<1>5. ASSUME NEW k \in 1..(MinDistance - 1) PROVE w(k)[p] = Mul(Exp[p], w(k - 1)[p])
  <2>. DEFINE r == GeneratorRoots[k]
              s == GeneratorRoots[k - 1]
              Good == {q \in 0..n : w(k)[q] = Mul(Exp[q], w(k - 1)[q])}
  <2>1. r = Mul(s, Exp[1]) /\ r \in Elements /\ s \in Elements /\ Exp[1] \in Elements
    <3>1. Exp[k + 1] = Mul(Exp[(k + 1) - 1], Exp[1]) /\ Exp[1] \in Nonzero
      BY <1>1, ExpStep
    <3>2. r = Exp[k + 1] /\ s = Exp[(k + 1) - 1] /\ r \in Elements /\ s \in Elements
      BY <1>1, <1>3
    <3>. QED
      BY <3>1, <3>2, ZeroLaws
  <2>2. PowersOf(w(k), r, n) /\ PowersOf(w(k - 1), s, n)
    BY <1>1, <1>3
  <2>. HIDE DEF r, s
  <2>3. 0 \in Good
    <3>1. w(k)[0] = 1 /\ w(k - 1)[0] = 1 /\ Exp[0] = 1
      BY <2>2, FieldAssumption DEF PowersOf
    <3>2. Mul(1, 1) = 1
      BY OneTimes, FieldTypes
    <3>. QED
      BY <1>1, <3>1, <3>2
  <2>4. ASSUME NEW q \in 1..n, q - 1 \in Good PROVE q \in Good
    <3>. DEFINE u == w(k - 1)[q - 1]
    <3>1. w(k)[q] = Mul(w(k)[q - 1], r) /\ w(k - 1)[q] = Mul(u, s)
      BY <2>2 DEF PowersOf
    <3>2. w(k)[q - 1] = Mul(Exp[q - 1], u)
      BY <2>4
    <3>3. u \in Elements /\ Exp[q - 1] \in Elements
      BY <1>1, <1>2, <1>4
    <3>4. Mul(s, Exp[1]) = Mul(Exp[1], s)
      BY <2>1, ZeroLaws
    <3>. HIDE DEF u
    <3>5. w(k)[q] = Mul(Mul(Exp[q - 1], u), Mul(Exp[1], s))
      BY <2>1, <3>1, <3>2, <3>4
    <3>6. Mul(Mul(Exp[q - 1], u), Mul(Exp[1], s)) = Mul(Mul(Exp[q - 1], Exp[1]), Mul(u, s))
      BY <2>1, <3>3, MulPairs
    <3>7. Exp[q] = Mul(Exp[q - 1], Exp[1])
      BY <1>1, ExpStep
    <3>. QED
      BY <1>1, <3>1, <3>5, <3>6, <3>7
  <2>5. \A q \in 0..n : q \in Good
    <3>. HIDE DEF Good
    <3>. QED
      BY <1>1, <2>3, <2>4, UpTo
  <2>. QED
    BY <1>1, <2>5
<1>6. \A k \in 0..(MinDistance - 1) : Column(p)[k] = w(k)[p]
  BY DEF Column, w
<1>. HIDE DEF Column
<1>7. Geometric(Column(p), Exp[p], MinDistance - 1)
  BY <1>1, <1>5, <1>6 DEF Geometric
<1>. QED
  BY <1>1, <1>2, <1>4, <1>6, <1>7

\* s follows the recurrence a of length l from there on
FollowsAll(a, l, s, n) == \A k \in l..(n - 1) : Against(a, l, s, k) = 0

\* c is a, multiplied by 1 + x
Longer(c, a, l, x) ==
  \A j \in 0..(l + 1) :
    c[j] = Add(IF j - 0 \in 0..l THEN Mul(1, a[j - 0]) ELSE 0,
               IF j - 1 \in 0..l THEN Mul(x, a[j - 1]) ELSE 0)

LEMMA LongerAgainst ==
  ASSUME NEW l \in Nat, NEW a, Over(a, l), NEW x \in Elements, NEW c, Longer(c, a, l, x),
         NEW s, NEW k \in Int, Back(s, l + 1, k)
  PROVE  /\ Against(c, l + 1, s, k) = Add(Against(a, l, s, k), Mul(x, Against(a, l, s, k - 1)))
         /\ Against(a, l, s, k) \in Elements /\ Against(a, l, s, k - 1) \in Elements
<1>. DEFINE b == [j \in 0..(l + 1) |-> IF j - 0 \in 0..l THEN Mul(1, a[j - 0]) ELSE 0]
            d == [j \in 0..(l + 1) |-> IF j - 1 \in 0..l THEN Mul(x, a[j - 1]) ELSE 0]
            n == l + 1
<1>1. n \in Nat /\ 0 + l <= n /\ 1 + l <= n /\ 0 \in Nat /\ 1 \in Nat /\ k - 0 = k
      /\ 1 \in Elements
      /\ \A j \in 0..l : j \in 0..n /\ j + 1 \in 0..n /\ (k - 1) - j = k - (j + 1)
  BY FieldTypes
<1>2. Shifted(b, n, 0, 1, a, l) /\ Shifted(d, n, 1, x, a, l)
  BY DEF Shifted
<1>3. \A j \in 0..n : b[j] \in Elements /\ d[j] \in Elements
  BY <1>1, ArithmeticTypes, FieldTypes DEF Over
<1>4. \A j \in 0..n : c[j] = Add(b[j], d[j])
  BY DEF Longer
<1>5. Back(s, n, k)
  OBVIOUS
<1>. HIDE DEF b, d, n
<1>6. Against(b, n, s, k) = Mul(1, Against(a, l, s, k - 0))
  BY <1>1, <1>2, <1>5, AgainstShift
<1>7. Against(d, n, s, k) = Mul(x, Against(a, l, s, k - 1))
  BY <1>1, <1>2, <1>5, AgainstShift
<1>8. Readable(b, n, s, k) /\ Readable(d, n, s, k)
  BY <1>3, <1>5 DEF Readable, Back
<1>9. Against(c, n, s, k) = Add(Against(b, n, s, k), Against(d, n, s, k))
  BY <1>1, <1>4, <1>8, AgainstSum
<1>10. Readable(a, l, s, k) /\ Readable(a, l, s, k - 1)
  BY <1>1, <1>5 DEF Readable, Back, Over
<1>11. Against(a, l, s, k) \in Elements /\ Against(a, l, s, k - 1) \in Elements
  BY <1>10, AgainstTerms
<1>12. Against(b, n, s, k) = Against(a, l, s, k)
  BY <1>1, <1>6, <1>11, OneTimes
<1>. QED
  BY <1>7, <1>9, <1>11, <1>12 DEF n

\* What is geometric goes against any recurrence as a geometric sequence again.
LEMMA GeometricAgainst ==
  ASSUME NEW n \in Nat, NEW s, \A j \in 0..n : s[j] \in Elements,
         NEW x \in Elements, Geometric(s, x, n),
         NEW l \in Nat, NEW a, Over(a, l), NEW k \in (l + 1)..n
  PROVE  Against(a, l, s, k) = Mul(x, Against(a, l, s, k - 1))
<1>. DEFINE t == [j \in 0..l |-> Mul(a[j], s[(k - 1) - j])]
            u == [j \in 0..l |-> Mul(a[j], s[k - j])]
<1>1. l + 1 \in Nat /\ (l + 1) - 1 = l
      /\ \A j \in 0..l : k - j \in 1..n /\ (k - j) - 1 = (k - 1) - j /\ (k - 1) - j \in 0..n
  OBVIOUS
<1>2. Readable(a, l, s, k - 1)
  BY <1>1 DEF Readable, Over
<1>3. Terms(l + 1, t)
  BY <1>2, AgainstTerms
<1>4. ASSUME NEW j \in 0..l PROVE u[j] = Mul(x, t[j])
  <2>1. s[k - j] = Mul(x, s[(k - 1) - j])
    BY <1>1 DEF Geometric
  <2>2. a[j] \in Elements /\ s[(k - 1) - j] \in Elements
    BY <1>1 DEF Over
  <2>3. Mul(a[j], Mul(x, s[(k - 1) - j])) = Mul(x, Mul(a[j], s[(k - 1) - j]))
    BY <2>2, MulExchange
  <2>. QED
    BY <2>1, <2>3
<1>. HIDE DEF t, u
<1>5. Sum(l + 1, u) = Mul(x, Sum(l + 1, t))
  BY <1>1, <1>3, <1>4, SumScale
<1>. QED
  BY <1>5 DEF Against, t, u

\* the symbols of e that are damaged, below n
DamagedBelow(e, n) == {p \in 0..(n - 1) : e[p] # 0}

\* a locates what is damaged below n
Locates(a, l, e, n) ==
  /\ a \in [0..l -> Elements] /\ a[0] = 1
  /\ \A p \in DamagedBelow(e, n) : FollowsAll(a, l, Column(p), MinDistance)

LEMMA DamagedBelowStep ==
  ASSUME NEW e, NEW n \in Nat \ {0}
  PROVE  /\ IsFiniteSet(DamagedBelow(e, n - 1))
         /\ e[n - 1] = 0 => DamagedBelow(e, n) = DamagedBelow(e, n - 1)
         /\ e[n - 1] # 0 => /\ DamagedBelow(e, n) = DamagedBelow(e, n - 1) \cup {n - 1}
                            /\ Cardinality(DamagedBelow(e, n))
                                 = Cardinality(DamagedBelow(e, n - 1)) + 1
         /\ Cardinality(DamagedBelow(e, n - 1)) \in Nat
<1>1. IsFiniteSet(DamagedBelow(e, n - 1))
  <2>1. 0 \in Int /\ n - 1 - 1 \in Int
    OBVIOUS
  <2>2. IsFiniteSet(0..(n - 1 - 1))
    BY <2>1, FS_Interval
  <2>3. DamagedBelow(e, n - 1) \in SUBSET (0..(n - 1 - 1))
    BY DEF DamagedBelow
  <2>. QED
    BY <2>2, <2>3, FS_Subset
<1>2. n - 1 \in 0..(n - 1) /\ n - 1 \notin 0..(n - 1 - 1)
      /\ \A p : p \in 0..(n - 1) <=> p = n - 1 \/ p \in 0..(n - 1 - 1)
  OBVIOUS
<1>3. e[n - 1] = 0 => DamagedBelow(e, n) = DamagedBelow(e, n - 1)
  BY <1>2 DEF DamagedBelow
<1>4. ASSUME e[n - 1] # 0
      PROVE  /\ DamagedBelow(e, n) = DamagedBelow(e, n - 1) \cup {n - 1}
             /\ Cardinality(DamagedBelow(e, n)) = Cardinality(DamagedBelow(e, n - 1)) + 1
  <2>1. DamagedBelow(e, n) = DamagedBelow(e, n - 1) \cup {n - 1}
    BY <1>2, <1>4 DEF DamagedBelow
  <2>2. n - 1 \notin DamagedBelow(e, n - 1)
    BY <1>2 DEF DamagedBelow
  <2>. QED
    BY <1>1, <2>1, <2>2, FS_AddElement
<1>. QED
  BY <1>1, <1>3, <1>4, FS_CardinalityType

\* The factor for one more damaged symbol.
LEMMA LocatesOneMore ==
  ASSUME NEW e, NEW n \in Nat \ {0}, \A p \in 0..(n - 1) : p \in Powers,
         NEW l \in Nat, NEW a, Locates(a, l, e, n - 1), e[n - 1] # 0
  PROVE  \E c : Locates(c, l + 1, e, n)
<1>. DEFINE p == n - 1
            x == Exp[p]
            c == [j \in 0..(l + 1) |->
                    Add(IF j - 0 \in 0..l THEN Mul(1, a[j - 0]) ELSE 0,
                        IF j - 1 \in 0..l THEN Mul(x, a[j - 1]) ELSE 0)]
<1>1. p \in Powers /\ x \in Elements /\ Geometric(Column(p), x, MinDistance - 1)
  <2>1. p \in Powers
    OBVIOUS
  <2>. QED
    BY <2>1, ColumnIsGeometric
<1>2. a \in [0..l -> Elements] /\ a[0] = 1 /\ Over(a, l)
  BY DEF Locates, Over
<1>3. Longer(c, a, l, x)
  BY DEF Longer
<1>4. c \in [0..(l + 1) -> Elements]
  BY <1>1, <1>2, FieldTypes, ArithmeticTypes
<1>5. c[0] = 1
  <2>1. c[0] = Add(Mul(1, a[0]), 0)
    OBVIOUS
  <2>2. Mul(1, 1) = 1 /\ Add(1, 0) = 1
    BY OneTimes, AddLaws, FieldTypes
  <2>. QED
    BY <1>2, <2>1, <2>2
<1>6. \A q \in DamagedBelow(e, n) : q = p \/ q \in DamagedBelow(e, n - 1)
  BY DamagedBelowStep
<1>7. \A q \in DamagedBelow(e, n) : q \in Powers
  BY DEF DamagedBelow
<1>. HIDE DEF c, x
<1>8. ASSUME NEW q \in DamagedBelow(e, n), NEW k \in (l + 1)..(MinDistance - 1)
      PROVE  Against(c, l + 1, Column(q), k) = 0
  <2>. DEFINE s == Column(q)
  <2>1. \A j \in 0..(MinDistance - 1) : s[j] \in Elements
    BY <1>7, ColumnIsGeometric
  <2>. HIDE DEF s
  <2>2. k \in Int /\ k \in l..(MinDistance - 1) /\ k - 1 \in l..(MinDistance - 1)
        /\ \A j \in 0..(l + 1) : k - j \in 0..(MinDistance - 1)
    BY Sizes
  <2>3. Back(s, l + 1, k)
    BY <2>1, <2>2 DEF Back
  <2>4. /\ Against(c, l + 1, s, k) = Add(Against(a, l, s, k), Mul(x, Against(a, l, s, k - 1)))
        /\ Against(a, l, s, k) \in Elements /\ Against(a, l, s, k - 1) \in Elements
    BY <1>1, <1>2, <1>3, <2>2, <2>3, LongerAgainst
  <2>5. CASE q = p
    <3>1. Geometric(s, x, MinDistance - 1)
      BY <1>1, <2>5 DEF s
    <3>2. Against(a, l, s, k) = Mul(x, Against(a, l, s, k - 1))
      BY <1>1, <1>2, <2>1, <3>1, Sizes, GeometricAgainst
    <3>. QED
      BY <2>4, <3>2, AddLaws DEF s
  <2>6. CASE q \in DamagedBelow(e, n - 1)
    <3>1. FollowsAll(a, l, s, MinDistance)
      BY <2>6 DEF Locates, s
    <3>2. Against(a, l, s, k) = 0 /\ Against(a, l, s, k - 1) = 0
      BY <2>2, <3>1 DEF FollowsAll
    <3>3. Mul(x, 0) = 0 /\ Add(0, 0) = 0
      BY <1>1, ZeroLaws, AddLaws, FieldTypes
    <3>. QED
      BY <2>4, <3>2, <3>3 DEF s
  <2>. QED
    BY <1>6, <2>5, <2>6
<1>9. \A q \in DamagedBelow(e, n) : FollowsAll(c, l + 1, Column(q), MinDistance)
  BY <1>8 DEF FollowsAll
<1>. QED
  BY <1>4, <1>5, <1>9 DEF Locates

\* A recurrence as long as symbols are damaged.
LEMMA LocatorExists ==
  ASSUME NEW e \in [Powers -> Elements]
  PROVE  \A n \in 0..BlockLength :
           /\ Cardinality(DamagedBelow(e, n)) \in Nat
           /\ \E a : Locates(a, Cardinality(DamagedBelow(e, n)), e, n)
<1>. DEFINE Done(n) == /\ Cardinality(DamagedBelow(e, n)) \in Nat
                       /\ \E a : Locates(a, Cardinality(DamagedBelow(e, n)), e, n)
            Good == {n \in 0..BlockLength : Done(n)}
<1>1. BlockLength \in Nat
  BY FieldTypes DEF BlockLength
<1>2. 0 \in Good
  <2>1. DamagedBelow(e, 0) = {}
    BY DEF DamagedBelow
  <2>2. Cardinality(DamagedBelow(e, 0)) = 0
    BY <2>1, FS_EmptySet
  <2>3. Locates([j \in 0..0 |-> 1], 0, e, 0)
    BY <2>1, FieldTypes DEF Locates
  <2>. QED
    BY <1>1, <2>2, <2>3
<1>3. ASSUME NEW n \in 1..BlockLength, n - 1 \in Good PROVE n \in Good
  <2>1. n \in Nat \ {0} /\ n \in 0..BlockLength /\ \A p \in 0..(n - 1) : p \in Powers
    BY <1>1 DEF Powers
  <2>. DEFINE l == Cardinality(DamagedBelow(e, n - 1))
  <2>2. PICK a : l \in Nat /\ Locates(a, l, e, n - 1)
    BY <1>3
  <2>3. CASE e[n - 1] = 0
    <3>1. DamagedBelow(e, n) = DamagedBelow(e, n - 1)
      BY <2>1, <2>3, DamagedBelowStep
    <3>2. Locates(a, l, e, n)
      BY <2>2, <3>1 DEF Locates
    <3>. QED
      BY <2>1, <2>2, <3>1, <3>2
  <2>4. CASE e[n - 1] # 0
    <3>1. Cardinality(DamagedBelow(e, n)) = l + 1
      BY <2>1, <2>4, DamagedBelowStep
    <3>. HIDE DEF l
    <3>2. \E c : Locates(c, l + 1, e, n)
      BY <2>1, <2>2, <2>4, LocatesOneMore
    <3>3. Cardinality(DamagedBelow(e, n)) \in Nat
      BY <2>2, <3>1
    <3>. QED
      BY <2>1, <3>1, <3>2, <3>3
  <2>. QED
    BY <2>3, <2>4
<1>4. \A n \in 0..BlockLength : n \in Good
  <2>. HIDE DEF Good
  <2>. QED
    BY <1>1, <1>2, <1>3, UpTo
<1>. QED
  BY <1>4

\* The syndromes are sums of columns, and follow what every column follows.
LEMMA NoiseFollows ==
  ASSUME NEW e \in [Powers -> Elements], NEW l \in Nat, NEW a,
         Locates(a, l, e, BlockLength),
         NEW s, \A k \in 0..(MinDistance - 1) : s[k] = SyndromeOf(e, k)
  PROVE  FollowsAll(a, l, s, MinDistance)
<1>. DEFINE n == BlockLength - 1
<1>1. n \in Nat /\ n + 1 \in Nat /\ (n + 1) - 1 = n /\ Powers = 0..n
      /\ l + 1 \in Nat /\ (l + 1) - 1 = l
  BY Sizes
<1>2. \A j \in 0..l : a[j] \in Elements
  BY DEF Locates
<1>3. \A p \in 0..n : \A k \in 0..(MinDistance - 1) :
        Column(p)[k] = RootPowers(k)[p] /\ Column(p)[k] \in Elements /\ e[p] \in Elements
  BY <1>1, ColumnIsGeometric DEF Column
<1>4. \A p \in 0..n : e[p] # 0 => FollowsAll(a, l, Column(p), MinDistance)
  BY DEF Locates, DamagedBelow
<1>5. ASSUME NEW k \in l..(MinDistance - 1) PROVE Against(a, l, s, k) = 0
  <2>. DEFINE t == [j \in 0..l |-> [p \in 0..n |-> Mul(a[j], Mul(e[p], RootPowers(k - j)[p]))]]
              row(j) == [p \in 0..n |-> Mul(e[p], RootPowers(k - j)[p])]
              col(p) == [j \in 0..l |-> Mul(a[j], Column(p)[k - j])]
              colT(p) == [j \in 0..l |-> t[j][p]]
              rows == [j \in 0..l |-> Sum(n + 1, t[j])]
              cols == [p \in 0..n |-> Sum(l + 1, colT(p))]
              term == [j \in 0..l |-> Mul(a[j], s[k - j])]
  <2>1. \A j \in 0..l : k - j \in 0..(MinDistance - 1)
    BY Sizes
  <2>2. ASSUME NEW j \in 0..l
        PROVE  Terms(n + 1, t[j]) /\ Sum(n + 1, t[j]) = term[j]
    <3>1. s[k - j] = Sum(n + 1, row(j))
      BY <2>1 DEF SyndromeOf, Value
    <3>2. \A p \in 0..n : row(j)[p] \in Elements
      BY <1>3, <2>1, ArithmeticTypes
    <3>3. \A p \in 0..n : t[j][p] = Mul(a[j], row(j)[p])
      OBVIOUS
    <3>4. term[j] = Mul(a[j], s[k - j])
      OBVIOUS
    <3>. HIDE DEF t, row, term, n
    <3>5. Terms(n + 1, row(j)) /\ Terms(n + 1, t[j])
      BY <1>1, <1>2, <3>2, <3>3, ArithmeticTypes DEF Terms
    <3>6. Sum(n + 1, t[j]) = Mul(a[j], Sum(n + 1, row(j)))
      <4>1. a[j] \in Elements /\ n + 1 \in Nat
            /\ \A p \in 0..((n + 1) - 1) : t[j][p] = Mul(a[j], row(j)[p])
        BY <1>1, <1>2, <3>3
      <4>. QED
        BY <3>5, <4>1, SumScale, ZenonT(60)
    <3>. QED
      BY <3>1, <3>4, <3>5, <3>6
  <2>3. ASSUME NEW p \in 0..n PROVE Sum(l + 1, colT(p)) = 0
    <3>1. Readable(a, l, Column(p), k)
      BY <1>2, <1>3, <2>1 DEF Readable
    <3>2. Terms(l + 1, col(p)) /\ Against(a, l, Column(p), k) \in Elements
      BY <3>1, AgainstTerms
    <3>3. Against(a, l, Column(p), k) = Sum(l + 1, col(p))
      BY DEF Against
    <3>4. ASSUME NEW j \in 0..l PROVE colT(p)[j] = Mul(e[p], col(p)[j])
      <4>1. RootPowers(k - j)[p] = Column(p)[k - j] /\ Column(p)[k - j] \in Elements
            /\ e[p] \in Elements
        BY <1>3, <2>1
      <4>2. Mul(a[j], Mul(e[p], Column(p)[k - j])) = Mul(e[p], Mul(a[j], Column(p)[k - j]))
        BY <1>2, <4>1, MulExchange
      <4>3. colT(p)[j] = Mul(a[j], Mul(e[p], RootPowers(k - j)[p]))
        OBVIOUS
      <4>4. col(p)[j] = Mul(a[j], Column(p)[k - j])
        OBVIOUS
      <4>. QED
        BY <4>1, <4>2, <4>3, <4>4
    <3>5. e[p] \in Elements
      BY <1>1
    <3>. HIDE DEF colT, col, n
    <3>6. Sum(l + 1, colT(p)) = Mul(e[p], Sum(l + 1, col(p)))
      BY <1>1, <3>2, <3>4, <3>5, SumScale
    <3>7. CASE e[p] = 0
      BY <3>2, <3>3, <3>6, <3>7, ZeroLaws
    <3>8. CASE e[p] # 0
      <4>1. Against(a, l, Column(p), k) = 0
        BY <1>4, <3>8 DEF FollowsAll
      <4>. QED
        BY <3>3, <3>5, <3>6, <4>1, ZeroLaws
    <3>. QED
      BY <3>7, <3>8
  <2>4. Sum(l + 1, rows) = Sum(n + 1, cols)
    <3>1. \A j \in 0..((l + 1) - 1) : Terms(n + 1, t[j])
      BY <1>1, <2>2
    <3>2. SameSums(l + 1, n + 1, t)
      <4>. HIDE DEF t, n
      <4>. QED
        BY <1>1, <3>1, SumSwap
    <3>3. Sum(l + 1, [j \in 0..((l + 1) - 1) |-> Sum(n + 1, t[j])]) =
            Sum(n + 1, [p \in 0..((n + 1) - 1) |-> Sum(l + 1, [j \in 0..((l + 1) - 1) |-> t[j][p]])])
      <4>. HIDE DEF t, n
      <4>. QED
        BY <3>2 DEF SameSums
    <3>. HIDE DEF n
    <3>. QED
      BY <1>1, <3>3
  <2>5. Sum(n + 1, cols) = 0
    <3>1. \A p \in 0..((n + 1) - 1) : cols[p] = 0
      BY <1>1, <2>3
    <3>. HIDE DEF cols, n
    <3>. QED
      BY <1>1, <3>1, SumZeros
  <2>6. term = rows
    <3>. HIDE DEF t
    <3>. QED
      BY <2>2
  <2>7. Against(a, l, s, k) = Sum(l + 1, term)
    BY DEF Against
  <2>. HIDE DEF term, rows, cols, n
  <2>. QED
    BY <2>4, <2>5, <2>6, <2>7
<1>. QED
  BY <1>5 DEF FollowsAll

-----------------------------------------------------------------------------
(* Polynomials at the elements but 0 *)

\* the powers of x as the code tabulates them
PowerTable(x, n) == [j \in 0..n |-> Exp[BuildExpLut(x, n)[j]]]

\* a(x)
At(a, n, x) == Value(a, n, PowerTable(x, n))

LEMMA NoZeroDivisors ==
  ASSUME NEW x \in Elements, NEW y \in Elements
  PROVE  Mul(x, y) = 0 <=> x = 0 \/ y = 0
<1>1. CASE x = 0 \/ y = 0
  BY <1>1, ZeroLaws
<1>2. CASE x \in Nonzero /\ y \in Nonzero
  BY <1>2, MulByLog, ZeroLaws, SMTT(30)
<1>. QED
  BY <1>1, <1>2, ZeroLaws

LEMMA PowerTableIs ==
  ASSUME NEW x \in Nonzero, NEW n \in Nat
  PROVE  /\ PowersOf(PowerTable(x, n), x, n)
         /\ \A j \in 0..n : PowerTable(x, n)[j] \in Nonzero
         /\ x \in Elements
<1>1. Over([j \in 0..n |-> 0], n)
  BY FieldTypes DEF Over
<1>2. PowersOf(PowerTable(x, n), x, n)
  BY <1>1, EvalLutIs DEF PowerTable
<1>3. Logarithms(BuildExpLut(x, n), x, n)
  BY LutRecursion
<1>4. ASSUME NEW j \in 0..n PROVE PowerTable(x, n)[j] \in Nonzero
  <2>1. BuildExpLut(x, n)[j] \in 1..FieldMax
    BY <1>3 DEF Logarithms
  <2>2. BuildExpLut(x, n)[j] \in 0..(2 * FieldMax + 1)
    BY <2>1, FieldTypes
  <2>. QED
    BY <2>2, FieldTypes DEF PowerTable, Nonzero
<1>. QED
  BY <1>2, <1>4, ZeroLaws

LEMMA PowersBelow ==
  ASSUME NEW x, NEW m \in Nat, NEW w, PowersOf(w, x, m), NEW n \in 0..m
  PROVE  PowersOf(w, x, n) /\ Over(w, n)
<1>1. \A j \in 0..n : j \in 0..m
  OBVIOUS
<1>2. \A j \in 1..n : j \in 1..m
  OBVIOUS
<1>. QED
  BY <1>1, <1>2 DEF PowersOf, Over

LEMMA PowersUnique ==
  ASSUME NEW x, NEW n \in Nat, NEW w, PowersOf(w, x, n), NEW v, PowersOf(v, x, n)
  PROVE  \A j \in 0..n : w[j] = v[j]
<1>. DEFINE Same == {j \in 0..n : w[j] = v[j]}
<1>1. 0 \in Same
  BY DEF PowersOf
<1>2. ASSUME NEW j \in 1..n, j - 1 \in Same PROVE j \in Same
  BY <1>2 DEF PowersOf
<1>3. \A j \in 0..n : j \in Same
  <2>. HIDE DEF Same
  <2>. QED
    BY <1>1, <1>2, UpTo
<1>. QED
  BY <1>3

\* Any table of powers will do.
LEMMA AtIs ==
  ASSUME NEW x \in Nonzero, NEW n \in Nat, NEW w, PowersOf(w, x, n), NEW a
  PROVE  Value(a, n, w) = At(a, n, x)
<1>. DEFINE v == PowerTable(x, n)
<1>1. PowersOf(v, x, n)
  BY PowerTableIs
<1>. HIDE DEF v
<1>2. \A j \in 0..n : w[j] = v[j]
  BY <1>1, PowersUnique
<1>3. [j \in 0..n |-> Mul(a[j], w[j])] = [j \in 0..n |-> Mul(a[j], v[j])]
  BY <1>2
<1>. QED
  BY <1>3 DEF Value, At, v

LEMMA AtType ==
  ASSUME NEW x \in Nonzero, NEW n \in Nat, NEW a, Over(a, n)
  PROVE  At(a, n, x) \in Elements
<1>1. Over(PowerTable(x, n), n)
  BY PowerTableIs DEF PowersOf, Over
<1>. QED
  BY <1>1, ValueType DEF At

\* What the code evaluates with a table that may be longer.
LEMMA EvalLutAt ==
  ASSUME NEW x \in Nonzero, NEW m \in Nat, NEW n \in 0..m, NEW a, Over(a, n)
  PROVE  EvalLut(a, n, BuildExpLut(x, m)) = At(a, n, x)
<1>. DEFINE long == BuildExpLut(x, m)
            short == BuildExpLut(x, n)
            Same == {k \in 0..n : long[k] = short[k]}
<1>1. Logarithms(long, x, m) /\ Logarithms(short, x, n) /\ n \in Nat
  BY LutRecursion
<1>2. \A k \in 0..n : k \in 0..m
  OBVIOUS
<1>. HIDE DEF long, short
<1>3. 0 \in Same
  BY <1>1 DEF Logarithms
<1>4. ASSUME NEW k \in 1..n, k - 1 \in Same PROVE k \in Same
  <2>1. k \in 1..m /\ k \in 0..n
    OBVIOUS
  <2>. QED
    BY <1>1, <1>4, <2>1 DEF Logarithms
<1>5. \A k \in 0..n : k \in Same
  <2>. HIDE DEF Same
  <2>. QED
    BY <1>1, <1>3, <1>4, UpTo
<1>6. long[0] = short[0] /\ short[0] # 0
  <2>1. 0 \in 0..n
    OBVIOUS
  <2>. QED
    BY <1>1, <1>5, <2>1, FieldTypes DEF Logarithms
<1>7. [k \in 0..n |-> IF a[k] = 0 THEN 0 ELSE MulLogElement(Log[a[k]], long[k])]
        = [k \in 0..n |-> IF a[k] = 0 THEN 0 ELSE MulLogElement(Log[a[k]], short[k])]
  BY <1>5
<1>8. EvalLut(a, n, long) = EvalLut(a, n, short)
  BY <1>6, <1>7 DEF EvalLut
<1>9. EvalLut(a, n, short) = At(a, n, x)
  BY <1>1, EvalLutIs DEF short, At, PowerTable
<1>. QED
  BY <1>8, <1>9 DEF long

LEMMA ValueLast ==
  ASSUME NEW n \in Nat \ {0}, NEW a, Over(a, n), NEW w, Over(w, n)
  PROVE  Value(a, n, w) = Add(Value(a, n - 1, w), Mul(a[n], w[n]))
<1>. DEFINE t == [j \in 0..n |-> Mul(a[j], w[j])]
            u == [j \in 0..(n - 1) |-> Mul(a[j], w[j])]
<1>1. \A j \in 0..n : t[j] \in Elements
  BY ArithmeticTypes DEF Over
<1>2. \A j \in 0..(n - 1) : u[j] = t[j]
  OBVIOUS
<1>3. t[n] = Mul(a[n], w[n])
  OBVIOUS
<1>. HIDE DEF t, u
<1>4. n \in Nat /\ n + 1 \in Nat /\ (n + 1) - 1 = n /\ n + 1 \in 1..(n + 1) /\ (n - 1) + 1 = n
  OBVIOUS
<1>5. Terms(n + 1, t) /\ Terms(n, t)
  BY <1>1, <1>4 DEF Terms
<1>6. Sum(n + 1, t) = Add(Sum(n, t), t[n])
  <2>1. Unfolds(n + 1, t)
    BY <1>4, <1>5, SumUnfolds
  <2>. QED
    BY <1>4, <2>1 DEF Unfolds
<1>7. Sum(n, u) = Sum(n, t)
  BY <1>2, <1>4, <1>5, SumCong
<1>8. Value(a, n - 1, w) = Sum(n, u)
  BY <1>4 DEF Value, u
<1>. QED
  BY <1>3, <1>6, <1>7, <1>8 DEF Value, t

-----------------------------------------------------------------------------
(* Taking out a factor 1 + x *)

\* b times 1 + x is c, but for what is left at the power n + 1
Deflates(b, c, x, n) ==
  /\ Over(b, n) /\ b[0] = c[0]
  /\ \A j \in 1..n : b[j] = Add(c[j], Mul(x, b[j - 1])) /\ c[j] = Add(b[j], Mul(x, b[j - 1]))

Deflated(c, x, n) == [j \in 0..n |-> Against(c, j, PowerTable(x, n), j)]

LEMMA DeflatedDeflates ==
  ASSUME NEW x \in Nonzero, NEW n \in Nat, NEW c, Over(c, n)
  PROVE  Deflates(Deflated(c, x, n), c, x, n)
<1>. DEFINE w == PowerTable(x, n)
            b == Deflated(c, x, n)
<1>1. PowersOf(w, x, n) /\ x \in Elements
  BY PowerTableIs
<1>2. \A j \in 0..n : b[j] = Against(c, j, w, j)
  BY DEF Deflated
<1>. HIDE DEF w, b
<1>3. \A j \in 0..n : w[j] \in Elements /\ c[j] \in Elements
  BY <1>1 DEF PowersOf, Over
<1>4. ASSUME NEW j \in 0..n PROVE Readable(c, j, w, j) /\ b[j] \in Elements
  <2>1. \A u \in 0..j : u \in 0..n /\ j - u \in 0..n
    OBVIOUS
  <2>2. Readable(c, j, w, j)
    BY <1>3, <2>1 DEF Readable
  <2>3. j \in Nat
    OBVIOUS
  <2>. QED
    BY <1>2, <2>2, <2>3, AgainstTerms
<1>5. w[0] = 1 /\ 1 \in Elements
  BY <1>1, FieldTypes DEF PowersOf
<1>6. \A j \in 0..n : Mul(c[j], 1) = c[j]
  BY <1>3, <1>5, OneTimes, ZeroLaws
<1>7. b[0] = c[0]
  <2>. DEFINE t == [u \in 0..0 |-> Mul(c[u], w[0 - u])]
  <2>1. 0 \in 0..n /\ 0 \in 0..0 /\ 0 - 0 = 0 /\ 0 + 1 = 1
    OBVIOUS
  <2>2. t[0] = Mul(c[0], w[0])
    BY <2>1
  <2>3. b[0] = Sum(1, t)
    BY <1>2, <2>1 DEF Against
  <2>. HIDE DEF t
  <2>. QED
    BY <1>3, <1>5, <1>6, <2>1, <2>2, <2>3, SumOfOne
<1>8. ASSUME NEW j \in 1..n PROVE b[j] = Add(c[j], Mul(x, b[j - 1]))
  <2>. DEFINE t == [u \in 0..j |-> Mul(c[u], w[j - u])]
              v == [u \in 0..(j - 1) |-> Mul(c[u], w[(j - 1) - u])]
  <2>1. /\ j \in 0..n /\ j - 1 \in 0..n /\ j \in Nat /\ (j - 1) + 1 = j /\ j + 1 \in Nat
        /\ (j + 1) - 1 = j /\ j - j = 0 /\ j + 1 \in 1..(j + 1) /\ j - 1 \in Nat
        /\ \A u \in 0..(j - 1) : u \in 0..j /\ j - u \in 1..n /\ (j - u) - 1 = (j - 1) - u
                                 /\ (j - 1) - u \in 0..n /\ u \in 0..n
    OBVIOUS
  <2>2. Terms(j + 1, t) /\ Terms(j, v)
    <3>1. Readable(c, j, w, j) /\ Readable(c, j - 1, w, j - 1)
      BY <1>4, <2>1
    <3>2. Terms(j + 1, t)
      BY <2>1, <3>1, AgainstTerms
    <3>3. Terms((j - 1) + 1, v)
      BY <2>1, <3>1, AgainstTerms
    <3>. QED
      BY <2>1, <3>2, <3>3
  <2>3. \A u \in 0..(j - 1) : t[u] = Mul(x, v[u])
    <3>1. ASSUME NEW u \in 0..(j - 1) PROVE t[u] = Mul(x, v[u])
      <4>1. w[j - u] = Mul(w[(j - 1) - u], x)
        BY <1>1, <2>1 DEF PowersOf
      <4>2. c[u] \in Elements /\ w[(j - 1) - u] \in Elements
        BY <1>3, <2>1
      <4>3. w[j - u] = Mul(x, w[(j - 1) - u])
        BY <1>1, <4>1, <4>2, ZeroLaws
      <4>4. Mul(c[u], Mul(x, w[(j - 1) - u])) = Mul(x, Mul(c[u], w[(j - 1) - u]))
        BY <1>1, <4>2, MulExchange
      <4>5. t[u] = Mul(c[u], w[j - u]) /\ v[u] = Mul(c[u], w[(j - 1) - u])
        BY <2>1
      <4>. QED
        BY <4>3, <4>4, <4>5
    <3>. QED
      BY <3>1
  <2>4. t[j] = c[j]
    BY <1>5, <1>6, <2>1
  <2>5. b[j] = Sum(j + 1, t) /\ b[j - 1] = Sum(j, v)
    <3>1. b[j - 1] = Sum((j - 1) + 1, v)
      BY <1>2, <2>1 DEF Against
    <3>. QED
      BY <1>2, <2>1, <3>1 DEF Against
  <2>. HIDE DEF t, v
  <2>6. Sum(j + 1, t) = Add(Sum(j, t), t[j])
    <3>1. Unfolds(j + 1, t)
      BY <2>1, <2>2, SumUnfolds
    <3>. QED
      BY <2>1, <3>1 DEF Unfolds
  <2>7. Sum(j, t) = Mul(x, Sum(j, v))
    BY <1>1, <2>1, <2>2, <2>3, SumScale
  <2>8. Mul(x, b[j - 1]) \in Elements /\ c[j] \in Elements
    BY <1>1, <1>3, <1>4, <2>1, ArithmeticTypes
  <2>. QED
    BY <2>4, <2>5, <2>6, <2>7, <2>8, AddLaws
<1>9. ASSUME NEW j \in 1..n PROVE c[j] = Add(b[j], Mul(x, b[j - 1]))
  <2>1. j \in 0..n /\ j - 1 \in 0..n
    OBVIOUS
  <2>. DEFINE y == Mul(x, b[j - 1])
  <2>2. y \in Elements /\ c[j] \in Elements
    BY <1>1, <1>3, <1>4, <2>1, ArithmeticTypes
  <2>3. b[j] = Add(c[j], y)
    BY <1>8
  <2>. HIDE DEF y
  <2>4. Add(Add(c[j], y), y) = Add(c[j], Add(y, y)) /\ Add(y, y) = 0 /\ Add(c[j], 0) = c[j]
    BY <2>2, AddLaws
  <2>. QED
    BY <2>3, <2>4 DEF y
<1>. QED
  BY <1>4, <1>7, <1>8, <1>9 DEF Deflates, Over, b


LEMMA DeflatedAt ==
  ASSUME NEW n \in Nat \ {0}, NEW c, NEW b, NEW x \in Nonzero, NEW r \in Nonzero,
         Deflates(b, c, x, n)
  PROVE  /\ At(c, n, r) = Add(At(b, n, r), Mul(x, Mul(r, At(b, n - 1, r))))
         /\ At(b, n, r) = Add(At(b, n - 1, r), Mul(b[n], PowerTable(r, n)[n]))
         /\ At(b, n - 1, r) \in Elements /\ PowerTable(r, n)[n] \in Nonzero
<1>. DEFINE w == PowerTable(r, n)
            d == [j \in 0..n |-> IF j - 1 \in 0..(n - 1) THEN Mul(x, b[j - 1]) ELSE 0]
<1>1. PowersOf(w, r, n) /\ w[n] \in Nonzero /\ r \in Elements /\ x \in Elements
  <2>1. n \in Nat /\ n \in 0..n
    OBVIOUS
  <2>. QED
    BY <2>1, PowerTableIs, ZeroLaws
<1>2. n \in Nat /\ n - 1 \in Nat /\ n - 1 \in 0..n /\ 1 + (n - 1) <= n /\ 1 \in 1..n /\ 1 - 1 = 0
  OBVIOUS
<1>3. Over(b, n) /\ Over(b, n - 1)
  BY <1>2 DEF Deflates, Over
<1>4. Shifted(d, n, 1, x, b, n - 1)
  BY DEF Shifted
<1>5. \A j \in 0..n : d[j] \in Elements
  <2>1. ASSUME NEW j \in 0..n PROVE d[j] \in Elements
    <3>1. CASE j - 1 \in 0..(n - 1)
      <4>1. b[j - 1] \in Elements
        BY <1>3, <3>1 DEF Over
      <4>. QED
        BY <1>1, <3>1, <4>1, ArithmeticTypes
    <3>2. CASE j - 1 \notin 0..(n - 1)
      BY <3>2, FieldTypes
    <3>. QED
      BY <3>1, <3>2
  <2>. QED
    BY <2>1
<1>6. Plus(c, b, d, n)
  <2>1. ASSUME NEW j \in 0..n PROVE c[j] = Add(b[j], d[j])
    <3>1. CASE j = 0
      <4>1. d[0] = 0 /\ c[0] = b[0] /\ b[0] \in Elements
        BY <1>3 DEF Deflates, Over
      <4>. QED
        BY <3>1, <4>1, AddLaws
    <3>2. CASE j # 0
      <4>1. j \in 1..n /\ j - 1 \in 0..(n - 1)
        BY <3>2
      <4>. QED
        BY <4>1 DEF Deflates
    <3>. QED
      BY <3>1, <3>2
  <2>. QED
    BY <2>1 DEF Plus
<1>. HIDE DEF w, d
<1>7. Over(d, n) /\ Over(w, n) /\ PowersOf(w, r, n - 1) /\ Over(w, n - 1)
  <2>1. PowersOf(w, r, n - 1) /\ Over(w, n - 1)
    BY <1>1, <1>2, PowersBelow
  <2>2. Over(w, n)
    BY <1>1 DEF PowersOf, Over
  <2>. QED
    BY <1>5, <2>1, <2>2 DEF Over
<1>8. Value(c, n, w) = Add(Value(b, n, w), Value(d, n, w))
  BY <1>2, <1>3, <1>6, <1>7, ValueSum
<1>9. Value(d, n, w) = Mul(x, Mul(w[1], Value(b, n - 1, w)))
  <2>1. 1 \in Nat
    OBVIOUS
  <2>. QED
    BY <1>1, <1>2, <1>3, <1>4, <2>1, ValueShift
<1>10. w[1] = r
  <2>1. w[0] = 1 /\ w[1] = Mul(w[0], r)
    BY <1>1, <1>2 DEF PowersOf
  <2>. QED
    BY <1>1, <2>1, OneTimes
<1>11. Value(b, n - 1, w) = At(b, n - 1, r) /\ At(b, n - 1, r) \in Elements
  BY <1>2, <1>3, <1>7, AtIs, AtType
<1>12. Value(b, n, w) = Add(Value(b, n - 1, w), Mul(b[n], w[n]))
  BY <1>3, <1>7, ValueLast
<1>. QED
  BY <1>1, <1>8, <1>9, <1>10, <1>11, <1>12 DEF At, w

\* 1 + x y, which is 0 where y is the inverse of x
Off(x, y) == Add(1, Mul(x, y))

LEMMA FactorOut ==
  ASSUME NEW n \in Nat \ {0}, NEW c, NEW b, NEW x \in Nonzero, NEW root \in Nonzero,
         Mul(x, root) = 1, Deflates(b, c, x, n), At(c, n, root) = 0
  PROVE  /\ b[n] = 0
         /\ \A r \in Nonzero : At(c, n, r) = Mul(Off(x, r), At(b, n - 1, r))
         /\ \A r \in Nonzero : At(b, n, r) = At(b, n - 1, r)
<1>1. x \in Elements /\ root \in Elements /\ n \in 0..n /\ b[n] \in Elements /\ 1 \in Elements
  <2>1. n \in 0..n
    OBVIOUS
  <2>. QED
    BY <2>1, ZeroLaws, FieldTypes DEF Deflates, Over
<1>2. b[n] = 0
  <2>. DEFINE y == At(b, n - 1, root)
              z == PowerTable(root, n)[n]
  <2>1. /\ At(c, n, root) = Add(At(b, n, root), Mul(x, Mul(root, y)))
        /\ At(b, n, root) = Add(y, Mul(b[n], z))
        /\ y \in Elements /\ z \in Nonzero
    BY DeflatedAt
  <2>. HIDE DEF y, z
  <2>2. Mul(x, Mul(root, y)) = y
    BY <1>1, <2>1, MulAssociates, OneTimes
  <2>3. z \in Elements /\ Mul(b[n], z) \in Elements
    BY <1>1, <2>1, ZeroLaws, ArithmeticTypes
  <2>4. Add(Add(y, Mul(b[n], z)), y) = Mul(b[n], z)
    <3>. DEFINE m == Mul(b[n], z)
    <3>. HIDE DEF m
    <3>1. m \in Elements
      BY <2>3 DEF m
    <3>2. Add(y, m) = Add(m, y) /\ Add(m, Add(y, y)) = Add(Add(m, y), y)
          /\ Add(y, y) = 0 /\ Add(m, 0) = m
      BY <2>1, <3>1, AddLaws
    <3>. QED
      BY <3>2 DEF m
  <2>5. Mul(b[n], z) = 0
    BY <2>1, <2>2, <2>4
  <2>. QED
    BY <1>1, <2>1, <2>3, <2>5, NoZeroDivisors, ZeroLaws
<1>3. ASSUME NEW r \in Nonzero
      PROVE  At(c, n, r) = Mul(Off(x, r), At(b, n - 1, r)) /\ At(b, n, r) = At(b, n - 1, r)
  <2>. DEFINE y == At(b, n - 1, r)
              z == PowerTable(r, n)[n]
  <2>1. /\ At(c, n, r) = Add(At(b, n, r), Mul(x, Mul(r, y)))
        /\ At(b, n, r) = Add(y, Mul(b[n], z))
        /\ y \in Elements /\ z \in Nonzero /\ r \in Elements
    BY DeflatedAt, ZeroLaws
  <2>. HIDE DEF y, z
  <2>2. At(b, n, r) = y
    BY <1>2, <2>1, ZeroLaws, AddLaws
  <2>3. Mul(x, Mul(r, y)) = Mul(Mul(x, r), y) /\ Mul(x, r) \in Elements
    BY <1>1, <2>1, MulAssociates, ArithmeticTypes
  <2>4. Mul(Off(x, r), y) = Add(Mul(1, y), Mul(Mul(x, r), y))
    BY <1>1, <2>1, <2>3, Distributes DEF Off
  <2>5. Mul(1, y) = y
    BY <2>1, OneTimes
  <2>. QED
    BY <2>1, <2>2, <2>3, <2>4, <2>5 DEF y
<1>. QED
  BY <1>2, <1>3

-----------------------------------------------------------------------------
(* The root that stands for a location *)

\* the element that stands for the symbol at the power p
RootOf(p) == Div(1, Exp[p])

LEMMA RootsAre ==
  /\ \A p \in Powers : /\ Exp[p] \in Nonzero /\ RootOf(p) \in Nonzero
                       /\ Mul(Exp[p], RootOf(p)) = 1
  /\ \A p, q \in Powers : Exp[p] = Exp[q] => p = q
<1>1. \A p \in Powers : Exp[p] \in Nonzero
  <2>1. \A p \in Powers : p \in 0..(2 * FieldMax + 1)
    BY FieldTypes DEF Powers, BlockLength
  <2>. QED
    BY <2>1, FieldTypes DEF Nonzero
<1>2. ASSUME NEW p \in Powers PROVE RootOf(p) \in Nonzero /\ Mul(Exp[p], RootOf(p)) = 1
  <2>1. Exp[p] \in Nonzero /\ Exp[p] \in Elements /\ 1 \in Elements
    BY <1>1, ZeroLaws, FieldTypes
  <2>2. RootOf(p) \in Nonzero
    BY <2>1, ArithmeticTypes DEF RootOf, Nonzero
  <2>3. Mul(RootOf(p), Exp[p]) = 1
    BY <2>1, DivLaws DEF RootOf
  <2>. QED
    BY <2>1, <2>2, <2>3, ZeroLaws
<1>3. ASSUME NEW p \in Powers, NEW q \in Powers, Exp[p] = Exp[q] PROVE p = q
  <2>. DEFINE up(j) == IF j = 0 THEN FieldMax ELSE j
  <2>1. FieldMax \in Nat /\ FieldMax > 0
    BY FieldTypes
  <2>2. ASSUME NEW j \in Powers PROVE up(j) \in 1..FieldMax /\ Exp[up(j)] = Exp[j]
    <3>1. Exp[FieldMax] = Exp[0]
      BY FieldAssumption
    <3>2. j \in 0..(FieldMax - 1)
      BY Sizes DEF Powers, BlockLength
    <3>. QED
      BY <2>1, <3>1, <3>2
  <2>3. up(p) = up(q)
    BY <1>3, <2>2, AlgebraAssumption
  <2>4. p \in 0..(FieldMax - 1) /\ q \in 0..(FieldMax - 1)
    BY Sizes DEF Powers, BlockLength
  <2>. QED
    BY <2>1, <2>3, <2>4
<1>. QED
  BY <1>1, <1>2, <1>3

LEMMA Inverses ==
  ASSUME NEW x \in Nonzero, NEW y \in Nonzero, NEW z \in Nonzero,
         Mul(x, y) = 1, Mul(z, y) = 1
  PROVE  x = z
<1>1. x \in Elements /\ y \in Elements /\ z \in Elements
  BY ZeroLaws
<1>2. Mul(x, Mul(z, y)) = Mul(z, Mul(x, y))
  BY <1>1, MulExchange
<1>3. Mul(x, 1) = x /\ Mul(z, 1) = z
  BY <1>1, OneTimes, ZeroLaws, FieldTypes
<1>. QED
  BY <1>2, <1>3

LEMMA RootsDiffer ==
  ASSUME NEW p \in Powers, NEW q \in Powers
  PROVE  /\ Off(Exp[p], RootOf(q)) \in Elements
         /\ Off(Exp[p], RootOf(q)) = 0 <=> p = q
         /\ RootOf(p) = RootOf(q) => p = q
<1>1. /\ Exp[p] \in Nonzero /\ RootOf(p) \in Nonzero /\ Mul(Exp[p], RootOf(p)) = 1
      /\ Exp[q] \in Nonzero /\ RootOf(q) \in Nonzero /\ Mul(Exp[q], RootOf(q)) = 1
      /\ (Exp[p] = Exp[q] => p = q)
  BY RootsAre
<1>. DEFINE m == Mul(Exp[p], RootOf(q))
<1>2. m \in Elements /\ 1 \in Elements
  <2>1. Exp[p] \in Elements /\ RootOf(q) \in Elements
    BY <1>1, ZeroLaws
  <2>. QED
    BY <2>1, ArithmeticTypes, FieldTypes
<1>3. m = 1 => p = q
  BY <1>1, Inverses
<1>4. p = q => m = 1
  BY <1>1
<1>5. RootOf(p) = RootOf(q) => p = q
  BY <1>1, <1>3
<1>. HIDE DEF m
<1>6. Add(1, m) \in Elements
  BY <1>2, FieldTypes
<1>7. Add(1, m) = 0 => m = 1
  <2>1. Add(1, Add(1, m)) = Add(Add(1, 1), m) /\ Add(1, 1) = 0 /\ Add(0, m) = m /\ Add(1, 0) = 1
    BY <1>2, AddLaws
  <2>. QED
    BY <2>1
<1>8. Add(1, 1) = 0
  BY <1>2, AddLaws
<1>. QED
  BY <1>3, <1>4, <1>5, <1>6, <1>7, <1>8 DEF Off, m

LEMMA EveryRoot ==
  ASSUME NEW x \in Nonzero
  PROVE  \E p \in Powers : x = RootOf(p)
<1>1. FieldMax \in Nat /\ FieldMax > 0 /\ x \in Elements /\ 1 \in Elements /\ 1 \in Nonzero
  BY FieldTypes, ZeroLaws DEF Nonzero
<1>. DEFINE y == Div(1, x)
<1>2. y \in Nonzero /\ Mul(y, x) = 1
  BY <1>1, ArithmeticTypes, DivLaws DEF Nonzero
<1>. HIDE DEF y
<1>3. PICK k \in 1..FieldMax : Exp[k] = y
  BY <1>2, FieldAssumption DEF Nonzero
<1>. DEFINE p == IF k = FieldMax THEN 0 ELSE k
<1>4. p \in Powers /\ Exp[p] = y
  <2>1. Exp[FieldMax] = Exp[0]
    BY FieldAssumption
  <2>2. p \in 0..(FieldMax - 1)
    BY <1>1
  <2>. QED
    BY <1>3, <2>1, <2>2 DEF Powers, BlockLength
<1>5. Mul(Exp[p], RootOf(p)) = 1 /\ RootOf(p) \in Nonzero
  BY <1>4, RootsAre
<1>. HIDE DEF p
<1>6. Mul(x, y) = 1 /\ Mul(RootOf(p), y) = 1
  <2>1. y \in Elements /\ RootOf(p) \in Elements
    BY <1>2, <1>5, ZeroLaws
  <2>. QED
    BY <1>1, <1>2, <1>4, <1>5, <2>1, ZeroLaws
<1>7. x = RootOf(p)
  BY <1>2, <1>5, <1>6, Inverses
<1>. QED
  BY <1>4, <1>7

-----------------------------------------------------------------------------
(* A polynomial has no more roots than its order *)

\* c is not 0, and is 0 at the roots of the symbols P ...
Some(c, n) == \E j \in 0..n : c[j] # 0
RootsIn(c, n, P) == \A p \in P : At(c, n, RootOf(p)) = 0
\* ... which are then at most n
Few(n) ==
  \A c : \A P \in SUBSET Powers :
    Over(c, n) /\ Some(c, n) /\ RootsIn(c, n, P) => Cardinality(P) <= n

LEMMA PowersFinite ==
  \A P \in SUBSET Powers : IsFiniteSet(P) /\ Cardinality(P) \in Nat
<1>1. IsFiniteSet(Powers)
  BY Sizes, FS_Interval DEF Powers
<1>. QED
  BY <1>1, FS_Subset, FS_CardinalityType

LEMMA DeflatedSome ==
  ASSUME NEW n \in Nat \ {0}, NEW c, NEW b, NEW x \in Nonzero, Deflates(b, c, x, n),
         b[n] = 0, Some(c, n)
  PROVE  Over(b, n - 1) /\ Some(b, n - 1)
<1>1. Over(b, n - 1)
  BY DEF Deflates, Over
<1>2. Some(b, n - 1)
  <2>. SUFFICES ASSUME \A j \in 0..(n - 1) : b[j] = 0 PROVE FALSE
    BY DEF Some
  <2>1. \A j \in 0..n : b[j] = 0
    OBVIOUS
  <2>2. Mul(x, 0) = 0 /\ Add(0, 0) = 0
    BY ZeroLaws, AddLaws, FieldTypes
  <2>3. \A j \in 0..n : c[j] = 0
    <3>1. \A j \in 1..n : b[j] = 0 /\ b[j - 1] = 0
      BY <2>1
    <3>2. \A j \in 1..n : c[j] = 0
      BY <2>2, <3>1 DEF Deflates
    <3>3. c[0] = 0
      BY <2>1 DEF Deflates
    <3>. QED
      BY <3>2, <3>3
  <2>. QED
    BY <2>3 DEF Some
<1>. QED
  BY <1>1, <1>2

LEMMA FewStep ==
  ASSUME NEW n \in Nat \ {0}, Few(n - 1)
  PROVE  Few(n)
<1>. SUFFICES ASSUME NEW c, NEW P \in SUBSET Powers,
                     Over(c, n), Some(c, n), RootsIn(c, n, P)
              PROVE  Cardinality(P) <= n
  BY DEF Few
<1>1. CASE P = {}
  BY <1>1, FS_EmptySet
<1>2. CASE P # {}
  <2>1. PICK q \in P : TRUE
    BY <1>2
  <2>2. q \in Powers /\ Exp[q] \in Nonzero /\ RootOf(q) \in Nonzero /\ Mul(Exp[q], RootOf(q)) = 1
    BY RootsAre
  <2>. DEFINE b == Deflated(c, Exp[q], n)
  <2>3. Deflates(b, c, Exp[q], n)
    BY <2>2, DeflatedDeflates
  <2>. HIDE DEF b
  <2>4. At(c, n, RootOf(q)) = 0
    BY DEF RootsIn
  <2>5. b[n] = 0 /\ \A r \in Nonzero : At(c, n, r) = Mul(Off(Exp[q], r), At(b, n - 1, r))
    BY <2>2, <2>3, <2>4, FactorOut
  <2>6. Over(b, n - 1) /\ Some(b, n - 1)
    BY <2>2, <2>3, <2>5, DeflatedSome
  <2>7. RootsIn(b, n - 1, P \ {q})
    <3>1. ASSUME NEW p \in P \ {q} PROVE At(b, n - 1, RootOf(p)) = 0
      <4>1. p \in Powers /\ RootOf(p) \in Nonzero /\ p # q /\ n - 1 \in Nat
        BY RootsAre
      <4>2. Off(Exp[q], RootOf(p)) \in Elements /\ Off(Exp[q], RootOf(p)) # 0
        BY <2>2, <4>1, RootsDiffer
      <4>3. At(b, n - 1, RootOf(p)) \in Elements
        BY <2>6, <4>1, AtType
      <4>4. Mul(Off(Exp[q], RootOf(p)), At(b, n - 1, RootOf(p))) = 0
        BY <2>5, <4>1 DEF RootsIn
      <4>. QED
        BY <4>2, <4>3, <4>4, NoZeroDivisors
    <3>. QED
      BY <3>1 DEF RootsIn
  <2>8. Cardinality(P \ {q}) <= n - 1
    BY <2>6, <2>7 DEF Few
  <2>9. Cardinality(P \ {q}) = Cardinality(P) - 1 /\ Cardinality(P) \in Nat
    BY PowersFinite, FS_RemoveElement
  <2>. QED
    BY <2>8, <2>9
<1>. QED
  BY <1>1, <1>2

LEMMA FewRoots == \A n \in Nat : Few(n)
<1>. TAKE m \in Nat
<1>1. Few(0)
  <2>. SUFFICES ASSUME NEW c, NEW P \in SUBSET Powers,
                       Over(c, 0), Some(c, 0), RootsIn(c, 0, P)
                PROVE  Cardinality(P) <= 0
    BY DEF Few
  <2>1. ASSUME NEW p \in P PROVE FALSE
    <3>1. RootOf(p) \in Nonzero /\ 0 \in Nat
      BY RootsAre
    <3>. DEFINE w == PowerTable(RootOf(p), 0)
                t == [j \in 0..0 |-> Mul(c[j], w[j])]
    <3>2. w[0] = 1
      BY <3>1, PowerTableIs DEF PowersOf
    <3>3. t[0] = Mul(c[0], w[0]) /\ 0 + 1 = 1 /\ c[0] \in Elements /\ c[0] # 0
      BY DEF Over, Some
    <3>4. At(c, 0, RootOf(p)) = Sum(1, t)
      BY <3>3 DEF At, Value
    <3>. HIDE DEF w, t
    <3>5. Mul(c[0], 1) = c[0]
      BY <3>3, OneTimes, ZeroLaws, FieldTypes
    <3>6. Sum(1, t) = c[0]
      BY <3>2, <3>3, <3>5, SumOfOne
    <3>. QED
      BY <3>3, <3>4, <3>6 DEF RootsIn
  <2>2. P = {}
    BY <2>1
  <2>. QED
    BY <2>2, FS_EmptySet
<1>2. ASSUME NEW n \in 1..m, Few(n - 1) PROVE Few(n)
  BY <1>2, FewStep
<1>. DEFINE T == {n \in 0..m : Few(n)}
<1>3. 0 \in T
  BY <1>1
<1>4. ASSUME NEW n \in 1..m, n - 1 \in T PROVE n \in T
  BY <1>2, <1>4
<1>5. \A n \in 0..m : n \in T
  <2>. HIDE DEF T
  <2>. QED
    BY <1>3, <1>4, UpTo
<1>. QED
  BY <1>5

-----------------------------------------------------------------------------
(* Values of combinations and of products *)

\* a is the sum of c[u] times t[u], for m of them
Combines(a, n, m, c, t) ==
  \A k \in 0..n : a[k] = Sum(m, [u \in 0..(m - 1) |-> Mul(c[u], t[u][k])])

LEMMA ValueCombination ==
  ASSUME NEW n \in Nat, NEW m \in Nat, NEW a, NEW c, NEW t, NEW w, Over(w, n),
         \A u \in 0..(m - 1) : c[u] \in Elements /\ Over(t[u], n),
         Combines(a, n, m, c, t)
  PROVE  Value(a, n, w) = Sum(m, [u \in 0..(m - 1) |-> Mul(c[u], Value(t[u], n, w))])
<1>. DEFINE g == [k \in 0..n |-> [u \in 0..(m - 1) |-> Mul(w[k], Mul(c[u], t[u][k]))]]
            term == [k \in 0..n |-> Mul(a[k], w[k])]
            row(k) == [u \in 0..(m - 1) |-> Mul(c[u], t[u][k])]
            rows == [k \in 0..n |-> Sum(m, g[k])]
            col(u) == [k \in 0..n |-> Mul(t[u][k], w[k])]
            colG(u) == [k \in 0..n |-> g[k][u]]
            cols == [u \in 0..(m - 1) |-> Sum(n + 1, colG(u))]
            goal == [u \in 0..(m - 1) |-> Mul(c[u], Value(t[u], n, w))]
<1>1. n + 1 \in Nat /\ (n + 1) - 1 = n
  OBVIOUS
<1>2. \A k \in 0..n : w[k] \in Elements
  BY DEF Over
<1>3. \A u \in 0..(m - 1) : \A k \in 0..n : c[u] \in Elements /\ t[u][k] \in Elements
  BY DEF Over
<1>4. ASSUME NEW k \in 0..n
      PROVE  Terms(m, g[k]) /\ Sum(m, g[k]) = term[k]
  <2>1. a[k] = Sum(m, row(k))
    BY DEF Combines
  <2>2. \A u \in 0..(m - 1) : row(k)[u] \in Elements
    BY <1>3, ArithmeticTypes
  <2>3. \A u \in 0..(m - 1) : g[k][u] = Mul(w[k], row(k)[u])
    OBVIOUS
  <2>4. term[k] = Mul(a[k], w[k])
    OBVIOUS
  <2>. HIDE DEF g, row, term
  <2>5. Terms(m, row(k)) /\ Terms(m, g[k])
    BY <1>2, <2>2, <2>3, ArithmeticTypes DEF Terms
  <2>6. Sum(m, g[k]) = Mul(w[k], Sum(m, row(k)))
    BY <1>2, <2>3, <2>5, SumScale
  <2>7. a[k] \in Elements
    BY <2>1, <2>2, SumType
  <2>. QED
    BY <1>2, <2>1, <2>4, <2>5, <2>6, <2>7, ZeroLaws
<1>5. ASSUME NEW u \in 0..(m - 1)
      PROVE  Sum(n + 1, colG(u)) = goal[u]
  <2>1. \A k \in 0..n : col(u)[k] \in Elements
    BY <1>2, <1>3, ArithmeticTypes
  <2>2. ASSUME NEW k \in 0..n PROVE colG(u)[k] = Mul(c[u], col(u)[k])
    <3>1. Mul(w[k], Mul(c[u], t[u][k])) = Mul(c[u], Mul(w[k], t[u][k]))
      BY <1>2, <1>3, MulExchange
    <3>2. Mul(w[k], t[u][k]) = Mul(t[u][k], w[k])
      BY <1>2, <1>3, ZeroLaws
    <3>3. colG(u)[k] = Mul(w[k], Mul(c[u], t[u][k])) /\ col(u)[k] = Mul(t[u][k], w[k])
      OBVIOUS
    <3>. QED
      BY <3>1, <3>2, <3>3
  <2>3. Value(t[u], n, w) = Sum(n + 1, col(u))
    BY DEF Value
  <2>4. goal[u] = Mul(c[u], Value(t[u], n, w))
    OBVIOUS
  <2>. HIDE DEF colG, col, goal
  <2>5. Terms(n + 1, col(u)) /\ c[u] \in Elements
        /\ \A k \in 0..((n + 1) - 1) : colG(u)[k] = Mul(c[u], col(u)[k])
    BY <1>1, <1>3, <2>1, <2>2 DEF Terms
  <2>6. Sum(n + 1, colG(u)) = Mul(c[u], Sum(n + 1, col(u)))
    BY <1>1, <2>5, SumScale
  <2>. QED
    BY <2>3, <2>4, <2>6
<1>6. Sum(n + 1, rows) = Sum(m, cols)
  <2>1. \A k \in 0..((n + 1) - 1) : Terms(m, g[k])
    BY <1>1, <1>4
  <2>. HIDE DEF g
  <2>2. SameSums(n + 1, m, g)
    BY <1>1, <2>1, SumSwap
  <2>. QED
    BY <1>1, <2>2 DEF SameSums
<1>7. rows = term
  BY <1>4
<1>8. cols = goal
  BY <1>5
<1>. QED
  BY <1>6, <1>7, <1>8 DEF Value

LEMMA PolyMulValue ==
  ASSUME NEW m \in Nat, NEW n \in Nat, NEW l, NEW r, Over(l, m), Over(r, n), NEW x \in Nonzero
  PROVE  At(PolyMul(l, m, r, n, m + n), m + n, x) = Mul(At(l, m, x), At(r, n, x))
<1>. DEFINE o == m + n
            w == PowerTable(x, o)
            a == PolyMul(l, m, r, n, o)
            shift(u) == [k \in 0..o |-> IF k - u \in 0..n THEN Mul(1, r[k - u]) ELSE 0]
            t == [u \in 0..m |-> shift(u)]
            v == Value(r, n, w)
            parts == [u \in 0..m |-> Mul(l[u], Value(t[u], o, w))]
            term == [u \in 0..m |-> Mul(l[u], w[u])]
<1>1. /\ o \in Nat /\ m + 1 \in Nat /\ (m + 1) - 1 = m /\ m \in 0..o /\ n \in 0..o
      /\ \A u \in 0..m : u \in Nat /\ u + n <= o /\ u \in 0..o
  OBVIOUS
<1>2. PowersOf(w, x, o) /\ x \in Elements
  BY <1>1, PowerTableIs
<1>3. \A u \in 0..m : l[u] \in Elements
  BY DEF Over
<1>4. 1 \in Elements /\ \A k \in 0..n : r[k] \in Elements /\ Mul(1, r[k]) = r[k]
  BY FieldTypes, OneTimes DEF Over
<1>5. ASSUME NEW u \in 0..m PROVE Over(t[u], o)
  <2>1. ASSUME NEW k \in 0..o PROVE shift(u)[k] \in Elements
    <3>1. CASE k - u \in 0..n
      BY <1>4, <3>1
    <3>2. CASE k - u \notin 0..n
      BY <3>2, FieldTypes
    <3>. QED
      BY <3>1, <3>2
  <2>. QED
    BY <2>1 DEF Over
<1>6. ASSUME NEW k \in 0..o
      PROVE  a[k] = Sum(m + 1, [u \in 0..m |-> Mul(l[u], t[u][k])])
  <2>. DEFINE here == [j \in 0..m |-> IF k - j \in 0..n THEN Mul(l[j], r[k - j]) ELSE 0]
              there == [u \in 0..m |-> Mul(l[u], t[u][k])]
  <2>1. a[k] = Sum(m + 1, here)
    BY DEF PolyMul
  <2>2. ASSUME NEW u \in 0..m PROVE here[u] = there[u]
    <3>1. CASE k - u \in 0..n
      <4>1. t[u][k] = r[k - u]
        BY <1>4, <3>1
      <4>. QED
        BY <3>1, <4>1
    <3>2. CASE k - u \notin 0..n
      <4>1. t[u][k] = 0 /\ here[u] = 0
        BY <3>2
      <4>2. Mul(l[u], 0) = 0
        BY <1>3, ZeroLaws
      <4>. QED
        BY <4>1, <4>2
    <3>. QED
      BY <3>1, <3>2
  <2>3. here = there
    BY <2>2
  <2>. QED
    BY <2>1, <2>3
<1>7. ASSUME NEW u \in 0..m PROVE Shifted(t[u], o, u, 1, r, n)
  BY DEF Shifted
<1>8. t = [u \in 0..m |-> t[u]]
  OBVIOUS
<1>. HIDE DEF o, w, a, t
<1>9. Over(w, o) /\ Over(w, n) /\ Over(w, m) /\ PowersOf(w, x, n) /\ PowersOf(w, x, m)
  <2>1. Over(w, o)
    BY <1>2 DEF PowersOf, Over
  <2>. QED
    BY <1>1, <1>2, <2>1, PowersBelow
<1>10. v \in Elements
  BY <1>9, ValueType
<1>11. Value(a, o, w) = Sum(m + 1, parts)
  <2>1. Combines(a, o, m + 1, l, t)
    BY <1>1, <1>6 DEF Combines
  <2>2. \A u \in 0..((m + 1) - 1) : l[u] \in Elements /\ Over(t[u], o)
    BY <1>1, <1>3, <1>5
  <2>3. Value(a, o, w) = Sum(m + 1, [u \in 0..((m + 1) - 1) |-> Mul(l[u], Value(t[u], o, w))])
    BY <1>1, <1>9, <2>1, <2>2, ValueCombination
  <2>. QED
    BY <1>1, <2>3
<1>12. ASSUME NEW u \in 0..m PROVE parts[u] = Mul(v, term[u]) /\ term[u] \in Elements
  <2>1. Value(t[u], o, w) = Mul(1, Mul(w[u], v))
    BY <1>1, <1>2, <1>4, <1>7, ValueShift
  <2>2. w[u] \in Elements /\ l[u] \in Elements
    BY <1>1, <1>3, <1>9 DEF Over
  <2>. HIDE DEF v
  <2>3. Mul(w[u], v) \in Elements /\ term[u] \in Elements
    BY <1>10, <2>2, ArithmeticTypes
  <2>4. Value(t[u], o, w) = Mul(w[u], v)
    BY <2>1, <2>3, OneTimes
  <2>5. Mul(l[u], Mul(w[u], v)) = Mul(Mul(l[u], w[u]), v)
    BY <1>10, <2>2, MulAssociates
  <2>6. Mul(Mul(l[u], w[u]), v) = Mul(v, Mul(l[u], w[u]))
    BY <1>10, <2>3, ZeroLaws
  <2>. QED
    BY <2>3, <2>4, <2>5, <2>6
<1>13. Sum(m + 1, parts) = Mul(v, Sum(m + 1, term))
  <2>. HIDE DEF parts, term, v
  <2>1. Terms(m + 1, term) /\ \A u \in 0..((m + 1) - 1) : parts[u] = Mul(v, term[u])
    BY <1>1, <1>12 DEF Terms
  <2>. QED
    BY <1>1, <1>10, <2>1, SumScale
<1>14. Value(l, m, w) = Sum(m + 1, term) /\ Value(l, m, w) \in Elements
  BY <1>9, ValueType DEF Value
<1>15. Value(l, m, w) = At(l, m, x) /\ v = At(r, n, x)
  BY <1>9, AtIs
<1>16. Value(a, o, w) = Mul(Value(l, m, w), v)
  <2>. HIDE DEF v, parts, term
  <2>. QED
    BY <1>10, <1>11, <1>13, <1>14, ZeroLaws
<1>. QED
  BY <1>15, <1>16 DEF At, w, a, o

-----------------------------------------------------------------------------
(* Sequences of syndromes are combinations of the columns *)

LEMMA SumSingle ==
  ASSUME NEW n \in Nat, NEW t, Terms(n, t), NEW q \in 0..(n - 1),
         \A k \in 0..(n - 1) : k # q => t[k] = 0
  PROVE  Sum(n, t) = t[q]
<1>1. q + 1 \in 0..n /\ q \in Nat /\ q + 1 \in 1..n /\ (q + 1) - 1 = q
  OBVIOUS
<1>2. Sum(n, t) = Sum(q + 1, t)
  <2>1. \A k \in (q + 1)..(n - 1) : t[k] = 0
    BY <1>1
  <2>. QED
    BY <1>1, <2>1, SumTail
<1>3. Sum(q + 1, t) = Add(Sum(q, t), t[q])
  <2>1. Unfolds(n, t)
    BY SumUnfolds
  <2>. QED
    BY <1>1, <2>1 DEF Unfolds
<1>4. Sum(q, t) = 0
  <2>1. \A k \in 0..(q - 1) : t[k] = 0
    OBVIOUS
  <2>. QED
    BY <1>1, <2>1, SumZeros
<1>5. t[q] \in Elements
  BY DEF Terms
<1>. QED
  BY <1>2, <1>3, <1>4, <1>5, AddLaws

LEMMA ColumnStarts ==
  ASSUME NEW p \in Powers
  PROVE  /\ Column(p)[0] = Exp[p]
         /\ \A k \in 0..(MinDistance - 1) : Column(p)[k] \in Nonzero
<1>. DEFINE n == BlockLength - 1
            v == [j \in 0..n |-> Exp[j]]
            s == Column(p)
            T == {k \in 0..(MinDistance - 1) : s[k] \in Nonzero}
<1>1. n \in Nat /\ p \in 0..n /\ 0 \in 0..(MinDistance - 1) /\ MinDistance - 1 \in Nat /\ n = FieldMax - 1
      /\ 0 + 1 = 1
  BY Sizes DEF BlockLength
<1>2. PowersOf(RootPowers(0), Exp[1], n)
  BY <1>1, RootPowersAre
<1>3. PowersOf(v, Exp[1], n)
  <2>1. v[0] = 1
    BY <1>1, FieldAssumption
  <2>2. \A j \in 1..n : v[j] = Mul(v[j - 1], Exp[1])
    <3>1. ASSUME NEW j \in 1..n PROVE v[j] = Mul(v[j - 1], Exp[1])
      <4>1. j \in 1..FieldMax /\ j - 1 \in 0..n /\ j \in 0..n
        BY <1>1, FieldTypes
      <4>2. Exp[j] = Mul(Exp[j - 1], Exp[1])
        BY <4>1, ExpStep
      <4>. QED
        BY <4>1, <4>2
    <3>. QED
      BY <3>1
  <2>3. \A j \in 0..n : v[j] \in Elements
    BY RootsAre, ZeroLaws DEF Powers
  <2>. QED
    BY <2>1, <2>2, <2>3 DEF PowersOf
<1>4. RootPowers(0)[p] = v[p]
  <2>. HIDE DEF v, n
  <2>. QED
    BY <1>1, <1>2, <1>3, PowersUnique
<1>5. s[0] = Exp[p]
  BY <1>1, <1>4 DEF Column
<1>6. /\ Geometric(s, Exp[p], MinDistance - 1) /\ Exp[p] \in Nonzero
      /\ \A k \in 0..(MinDistance - 1) : s[k] \in Elements
  BY ColumnIsGeometric, RootsAre
<1>. HIDE DEF s
<1>7. 0 \in T
  BY <1>1, <1>5, <1>6
<1>8. ASSUME NEW k \in 1..(MinDistance - 1), k - 1 \in T PROVE k \in T
  <2>1. s[k] = Mul(Exp[p], s[k - 1])
    BY <1>6 DEF Geometric
  <2>2. s[k] \in Nonzero
    BY <1>6, <1>8, <2>1, MulByLog
  <2>. QED
    BY <2>2
<1>9. \A k \in 0..(MinDistance - 1) : k \in T
  <2>. HIDE DEF T
  <2>. QED
    BY <1>1, <1>7, <1>8, UpTo
<1>. QED
  BY <1>5, <1>9 DEF s

LEMMA ColumnAgainst ==
  ASSUME NEW p \in Powers, NEW l \in Nat, NEW a, Over(a, l), NEW k \in l..(MinDistance - 1)
  PROVE  Against(a, l, Column(p), k) = Mul(Column(p)[k], At(a, l, RootOf(p)))
<1>. DEFINE s == Column(p)
            r == RootOf(p)
            x == Exp[p]
            v == PowerTable(r, l)
            T == {j \in 0..l : s[k - j] = Mul(s[k], v[j])}
            t == [j \in 0..l |-> Mul(a[j], s[k - j])]
            u == [j \in 0..l |-> Mul(a[j], v[j])]
<1>1. /\ Geometric(s, x, MinDistance - 1)
      /\ \A j \in 0..(MinDistance - 1) : s[j] \in Elements
  BY ColumnIsGeometric
<1>2. x \in Elements /\ r \in Elements /\ r \in Nonzero /\ Mul(x, r) = 1
  BY RootsAre, ZeroLaws
<1>. HIDE DEF s, r, x
<1>3. PowersOf(v, r, l)
  BY <1>2, PowerTableIs
<1>4. /\ k \in 0..(MinDistance - 1) /\ \A j \in 0..l : k - j \in 0..(MinDistance - 1)
      /\ \A j \in 1..l : k - (j - 1) \in 1..(MinDistance - 1) /\ (k - (j - 1)) - 1 = k - j
      /\ k - 0 = k /\ 0 \in 0..l
  BY Sizes
<1>. HIDE DEF v
<1>5. 0 \in T
  <2>1. v[0] = 1 /\ s[k] \in Elements
    BY <1>1, <1>3, <1>4 DEF PowersOf
  <2>2. Mul(s[k], 1) = s[k]
    BY <2>1, OneTimes, ZeroLaws, FieldTypes
  <2>. QED
    BY <1>4, <2>1, <2>2
<1>6. ASSUME NEW j \in 1..l, j - 1 \in T PROVE j \in T
  <2>1. s[k - (j - 1)] = Mul(x, s[k - j])
    BY <1>1, <1>4 DEF Geometric
  <2>2. j \in 0..l /\ j - 1 \in 0..l
    OBVIOUS
  <2>. DEFINE y == s[k - j]
              z == s[k]
              g == v[j - 1]
  <2>3. y \in Elements /\ z \in Elements /\ g \in Elements
    BY <1>1, <1>3, <1>4, <2>2 DEF PowersOf
  <2>4. v[j] = Mul(g, r)
    BY <1>3 DEF PowersOf
  <2>5. Mul(x, y) = Mul(z, g)
    BY <1>6, <2>1
  <2>. HIDE DEF y, z, g
  <2>6. Mul(r, Mul(x, y)) = y
    <3>1. Mul(r, Mul(x, y)) = Mul(x, Mul(r, y))
      BY <1>2, <2>3, MulExchange
    <3>2. Mul(x, Mul(r, y)) = Mul(Mul(x, r), y)
      BY <1>2, <2>3, MulAssociates
    <3>. QED
      BY <1>2, <2>3, <3>1, <3>2, OneTimes
  <2>7. Mul(r, Mul(z, g)) = Mul(z, Mul(g, r))
    <3>1. Mul(r, Mul(z, g)) = Mul(z, Mul(r, g))
      BY <1>2, <2>3, MulExchange
    <3>2. Mul(r, g) = Mul(g, r)
      BY <1>2, <2>3, ZeroLaws
    <3>. QED
      BY <3>1, <3>2
  <2>8. y = Mul(z, v[j])
    BY <2>4, <2>5, <2>6, <2>7
  <2>. QED
    BY <2>2, <2>8 DEF y, z
<1>7. \A j \in 0..l : j \in T
  <2>. HIDE DEF T
  <2>. QED
    BY <1>5, <1>6, UpTo
<1>8. ASSUME NEW j \in 0..l PROVE t[j] = Mul(s[k], u[j]) /\ u[j] \in Elements
  <2>1. s[k - j] = Mul(s[k], v[j])
    BY <1>7
  <2>2. a[j] \in Elements /\ v[j] \in Elements /\ s[k] \in Elements
    BY <1>1, <1>3, <1>4 DEF PowersOf, Over
  <2>3. Mul(a[j], Mul(s[k], v[j])) = Mul(s[k], Mul(a[j], v[j])) /\ Mul(a[j], v[j]) \in Elements
    BY <2>2, MulExchange, ArithmeticTypes
  <2>. QED
    BY <2>1, <2>3
<1>9. Sum(l + 1, t) = Mul(s[k], Sum(l + 1, u))
  <2>1. l + 1 \in Nat /\ (l + 1) - 1 = l /\ s[k] \in Elements
    BY <1>1, <1>4
  <2>. HIDE DEF t, u
  <2>2. Terms(l + 1, u) /\ \A j \in 0..((l + 1) - 1) : t[j] = Mul(s[k], u[j])
    BY <1>8, <2>1 DEF Terms
  <2>. QED
    BY <2>1, <2>2, SumScale
<1>. QED
  BY <1>9 DEF Against, At, Value, s, r, v

\* Every symbol is weighted with what a is at the root of its power.
Filtered(e, a, l) == [p \in Powers |-> Mul(e[p], At(a, l, RootOf(p)))]

LEMMA AgainstIsValue ==
  ASSUME NEW l \in Nat, NEW k, NEW a, NEW s, Readable(a, l, s, k)
  PROVE  Against(a, l, s, k) = Value([j \in 0..l |-> s[k - j]], l, a)
<1>. DEFINE b == [j \in 0..l |-> s[k - j]]
<1>1. \A j \in 0..l : Mul(a[j], s[k - j]) = Mul(s[k - j], a[j])
  BY ZeroLaws DEF Readable
<1>2. [j \in 0..l |-> Mul(a[j], s[k - j])] = [j \in 0..l |-> Mul(b[j], a[j])]
  BY <1>1
<1>. QED
  BY <1>2 DEF Against, Value

LEMMA FilteredType ==
  ASSUME NEW e \in [Powers -> Elements], NEW l \in Nat, NEW a, Over(a, l)
  PROVE  Filtered(e, a, l) \in [Powers -> Elements]
<1>1. \A p \in Powers : At(a, l, RootOf(p)) \in Elements
  BY RootsAre, AtType
<1>. QED
  BY <1>1, ArithmeticTypes DEF Filtered

LEMMA FilteredSyndromes ==
  ASSUME NEW e \in [Powers -> Elements], NEW s,
         \A k \in 0..(MinDistance - 1) : s[k] = SyndromeOf(e, k),
         NEW l \in Nat, NEW a, Over(a, l), NEW k \in l..(MinDistance - 1)
  PROVE  Against(a, l, s, k) = SyndromeOf(Filtered(e, a, l), k)
<1>. DEFINE n == BlockLength - 1
            back == [j \in 0..l |-> s[k - j]]
            t == [p \in 0..n |-> [j \in 0..l |-> Column(p)[k - j]]]
            f == Filtered(e, a, l)
<1>1. n \in Nat /\ n + 1 \in Nat /\ (n + 1) - 1 = n /\ Powers = 0..n
  BY Sizes
<1>2. k \in 0..(MinDistance - 1) /\ \A j \in 0..l : k - j \in 0..(MinDistance - 1)
  BY Sizes
<1>3. \A p \in 0..n : \A j \in 0..(MinDistance - 1) :
        Column(p)[j] = RootPowers(j)[p] /\ Column(p)[j] \in Elements /\ e[p] \in Elements
  BY <1>1, ColumnIsGeometric DEF Column
<1>4. \A j \in 0..l : back[j] = Sum(n + 1, [p \in 0..n |-> Mul(e[p], t[p][j])])
  <2>1. ASSUME NEW j \in 0..l
        PROVE  back[j] = Sum(n + 1, [p \in 0..n |-> Mul(e[p], t[p][j])])
    <3>1. back[j] = Sum(n + 1, [p \in 0..n |-> Mul(e[p], RootPowers(k - j)[p])])
      BY <1>2 DEF SyndromeOf, Value
    <3>2. \A p \in 0..n : t[p][j] = RootPowers(k - j)[p]
      BY <1>2, <1>3
    <3>. QED
      BY <3>1, <3>2
  <2>. QED
    BY <2>1
<1>5. \A p \in 0..n : e[p] \in Elements /\ Over(t[p], l)
  BY <1>2, <1>3 DEF Over
<1>6. \A p \in 0..n : Readable(a, l, Column(p), k)
  BY <1>2, <1>3 DEF Readable, Over
<1>7. Readable(a, l, s, k)
  <2>1. ASSUME NEW j \in 0..(MinDistance - 1) PROVE s[j] \in Elements
    <3>1. SyndromeOf(e, j) \in Elements
      <4>1. Over(e, n) /\ Over(RootPowers(j), n)
        BY <1>1, RootPowersAre DEF Over
      <4>. QED
        BY <1>1, <4>1, ValueType DEF SyndromeOf
    <3>. QED
      BY <3>1
  <2>. QED
    BY <1>2, <2>1 DEF Readable, Over
<1>8. \A p \in 0..n : t[p] = [j \in 0..l |-> Column(p)[k - j]]
  OBVIOUS
<1>. HIDE DEF n, t
<1>9. Against(a, l, s, k) = Value(back, l, a)
  BY <1>7, AgainstIsValue
<1>10. Value(back, l, a) = Sum(n + 1, [p \in 0..n |-> Mul(e[p], Value(t[p], l, a))])
  <2>1. Combines(back, l, n + 1, e, t)
    BY <1>1, <1>4 DEF Combines
  <2>2. \A p \in 0..((n + 1) - 1) : e[p] \in Elements /\ Over(t[p], l)
    BY <1>1, <1>5
  <2>. HIDE DEF back
  <2>3. Value(back, l, a)
          = Sum(n + 1, [p \in 0..((n + 1) - 1) |-> Mul(e[p], Value(t[p], l, a))])
    BY <1>1, <2>1, <2>2, ValueCombination
  <2>. QED
    BY <1>1, <2>3
<1>11. ASSUME NEW p \in 0..n
       PROVE  Mul(e[p], Value(t[p], l, a)) = Mul(f[p], RootPowers(k)[p])
  <2>. DEFINE c == Column(p)[k]
              y == At(a, l, RootOf(p))
  <2>1. p \in Powers /\ c = RootPowers(k)[p] /\ c \in Elements /\ e[p] \in Elements
    BY <1>1, <1>2, <1>3
  <2>2. y \in Elements /\ f[p] = Mul(e[p], y)
    BY <2>1, RootsAre, AtType DEF Filtered
  <2>3. Value(t[p], l, a) = Against(a, l, Column(p), k)
    <3>1. Readable(a, l, Column(p), k)
      BY <1>6
    <3>2. Against(a, l, Column(p), k) = Value([j \in 0..l |-> Column(p)[k - j]], l, a)
      BY <3>1, AgainstIsValue
    <3>. QED
      BY <1>8, <3>2
  <2>4. Against(a, l, Column(p), k) = Mul(c, y)
    BY <2>1, ColumnAgainst
  <2>. HIDE DEF c, y, f
  <2>5. Mul(c, y) = Mul(y, c) /\ Mul(e[p], Mul(y, c)) = Mul(Mul(e[p], y), c)
    BY <2>1, <2>2, ZeroLaws, MulAssociates
  <2>. QED
    BY <2>1, <2>2, <2>3, <2>4, <2>5
<1>12. [p \in 0..n |-> Mul(e[p], Value(t[p], l, a))] = [p \in 0..n |-> Mul(f[p], RootPowers(k)[p])]
  BY <1>11
<1>. QED
  BY <1>9, <1>10, <1>12 DEF SyndromeOf, Value, n

-----------------------------------------------------------------------------
(* As many syndromes as symbols determine the symbols *)

\* the symbols that f damages
Support(f) == {p \in Powers : f[p] # 0}

LEMMA Stretch ==
  ASSUME NEW from \in Nat, NEW l \in Nat, NEW n \in Nat, NEW d \in Nat, n <= d, from + l < n
  PROVE  /\ from + l \in l..(d - 1) /\ l \in l..(d - 1) /\ from + l \in 0..(d - 1)
         /\ \A j \in 0..l : (from + l) - j \in from..(n - 1) /\ (from + l) - j \in 0..(d - 1)
OBVIOUS

LEMMA OnlyZero ==
  ASSUME NEW f \in [Powers -> Elements], NEW from \in Nat, NEW n \in 0..MinDistance,
         from + Cardinality(Support(f)) <= n,
         \A k \in from..(n - 1) : SyndromeOf(f, k) = 0
  PROVE  \A p \in Powers : f[p] = 0
<1>. SUFFICES ASSUME NEW q \in Powers, f[q] # 0 PROVE FALSE
  OBVIOUS
<1>. DEFINE g == [f EXCEPT ![q] = 0]
            l == Cardinality(DamagedBelow(g, BlockLength))
            s == [k \in 0..(MinDistance - 1) |-> SyndromeOf(f, k)]
            k0 == from + l
<1>1. g \in [Powers -> Elements] /\ BlockLength \in 0..BlockLength /\ Powers = 0..(BlockLength - 1)
  <2>1. BlockLength \in 0..BlockLength
    BY FieldTypes DEF BlockLength
  <2>2. 0 \in Elements
    BY FieldTypes
  <2>. QED
    BY <2>1, <2>2, Sizes
<1>2. DamagedBelow(g, BlockLength) = Support(f) \ {q}
  BY <1>1 DEF DamagedBelow, Support
<1>3. q \in Support(f) /\ Support(f) \in SUBSET Powers
  BY DEF Support
<1>4. l = Cardinality(Support(f)) - 1 /\ l \in Nat /\ Cardinality(Support(f)) \in Nat
  <2>1. IsFiniteSet(Support(f)) /\ Cardinality(Support(f)) \in Nat
    BY <1>3, PowersFinite
  <2>2. Cardinality(Support(f) \ {q}) = Cardinality(Support(f)) - 1
    BY <1>3, <2>1, FS_RemoveElement
  <2>3. Cardinality(Support(f) \ {q}) \in Nat
    BY <1>3, PowersFinite
  <2>. QED
    BY <1>2, <2>1, <2>2, <2>3
<1>5. PICK a : Locates(a, l, g, BlockLength)
  BY <1>1, LocatorExists
<1>. HIDE DEF g, l
<1>6. Over(a, l) /\ a[0] = 1
  BY <1>5 DEF Locates, Over
<1>7. k0 \in l..(MinDistance - 1) /\ l \in l..(MinDistance - 1)
      /\ k0 \in 0..(MinDistance - 1)
      /\ \A j \in 0..l : k0 - j \in from..(n - 1) /\ k0 - j \in 0..(MinDistance - 1)
  <2>. DEFINE c == Cardinality(Support(f))
  <2>1. l = c - 1 /\ l \in Nat /\ c \in Nat /\ from + c <= n
    BY <1>4
  <2>. HIDE DEF c
  <2>2. from + l < n
    BY <2>1
  <2>3. MinDistance \in Nat
    BY Sizes, Zenon
  <2>4. n \in Nat /\ n <= MinDistance
    BY <2>3
  <2>. QED
    BY <2>1, <2>2, <2>3, <2>4, Stretch, Zenon DEF k0
<1>8. ASSUME NEW p \in Support(f), p # q PROVE At(a, l, RootOf(p)) = 0
  <2>1. p \in Powers /\ RootOf(p) \in Nonzero
    BY RootsAre DEF Support
  <2>2. Against(a, l, Column(p), l) = 0
    <3>1. p \in DamagedBelow(g, BlockLength)
      BY <1>2, <1>8
    <3>2. FollowsAll(a, l, Column(p), MinDistance)
      BY <1>5, <3>1 DEF Locates
    <3>. QED
      BY <1>7, <3>2 DEF FollowsAll
  <2>3. Against(a, l, Column(p), l) = Mul(Column(p)[l], At(a, l, RootOf(p)))
    BY <1>4, <1>6, <1>7, <2>1, ColumnAgainst
  <2>4. Column(p)[l] \in Nonzero /\ At(a, l, RootOf(p)) \in Elements
    <3>1. l \in 0..(MinDistance - 1)
      BY <1>4, <1>7
    <3>. QED
      BY <1>4, <1>6, <2>1, <3>1, ColumnStarts, AtType
  <2>. QED
    BY <2>2, <2>3, <2>4, NoZeroDivisors, ZeroLaws
<1>9. Against(a, l, s, k0) = 0
  <2>1. ASSUME NEW j \in 0..l PROVE Mul(a[j], s[k0 - j]) = 0
    <3>1. s[k0 - j] = 0
      BY <1>7
    <3>2. a[j] \in Elements
      BY <1>6 DEF Over
    <3>. QED
      BY <3>1, <3>2, ZeroLaws
  <2>. DEFINE t == [j \in 0..l |-> Mul(a[j], s[k0 - j])]
  <2>2. l + 1 \in Nat /\ (l + 1) - 1 = l
    BY <1>4
  <2>3. \A j \in 0..((l + 1) - 1) : t[j] = 0
    BY <2>1, <2>2
  <2>4. Against(a, l, s, k0) = Sum(l + 1, t)
    BY DEF Against
  <2>. HIDE DEF t
  <2>. QED
    BY <2>2, <2>3, <2>4, SumZeros
<1>10. SyndromeOf(Filtered(f, a, l), k0) = 0
  <2>1. \A k \in 0..(MinDistance - 1) : s[k] = SyndromeOf(f, k)
    OBVIOUS
  <2>. HIDE DEF s, k0
  <2>. QED
    BY <1>4, <1>6, <1>7, <1>9, <2>1, FilteredSyndromes
<1>11. SyndromeOf(Filtered(f, a, l), k0)
         = Mul(Mul(f[q], At(a, l, RootOf(q))), RootPowers(k0)[q])
  <2>. DEFINE h == Filtered(f, a, l)
              m == BlockLength - 1
              t == [p \in 0..m |-> Mul(h[p], RootPowers(k0)[p])]
  <2>1. m + 1 \in Nat /\ (m + 1) - 1 = m /\ q \in 0..m
    BY <1>1, Sizes
  <2>2. h \in [Powers -> Elements]
    BY <1>4, <1>6, FilteredType
  <2>3. \A p \in 0..m : RootPowers(k0)[p] \in Elements
    BY <1>7, RootPowersAre DEF Over
  <2>4. \A p \in 0..m : t[p] \in Elements
    BY <1>1, <2>2, <2>3, ArithmeticTypes
  <2>5. ASSUME NEW p \in 0..m, p # q PROVE t[p] = 0
    <3>1. p \in Powers /\ RootOf(p) \in Nonzero
      BY <1>1, RootsAre
    <3>2. h[p] = 0
      <4>1. h[p] = Mul(f[p], At(a, l, RootOf(p)))
        BY <3>1 DEF Filtered
      <4>2. f[p] \in Elements /\ At(a, l, RootOf(p)) \in Elements
        BY <1>4, <1>6, <3>1, AtType
      <4>3. f[p] = 0 \/ At(a, l, RootOf(p)) = 0
        BY <1>8, <2>5, <3>1 DEF Support
      <4>. QED
        BY <4>1, <4>2, <4>3, ZeroLaws
    <3>3. t[p] = Mul(h[p], RootPowers(k0)[p])
      OBVIOUS
    <3>. HIDE DEF h, t
    <3>. QED
      BY <2>3, <3>2, <3>3, ZeroLaws
  <2>6. t[q] = Mul(Mul(f[q], At(a, l, RootOf(q))), RootPowers(k0)[q])
    BY <1>1 DEF Filtered
  <2>7. SyndromeOf(h, k0) = Sum(m + 1, t)
    BY DEF SyndromeOf, Value
  <2>. HIDE DEF t, m, h
  <2>8. Terms(m + 1, t) /\ q \in 0..((m + 1) - 1)
        /\ \A p \in 0..((m + 1) - 1) : p # q => t[p] = 0
    BY <2>1, <2>4, <2>5 DEF Terms
  <2>9. Sum(m + 1, t) = t[q]
    BY <2>1, <2>8, SumSingle
  <2>. QED
    BY <2>6, <2>7, <2>9 DEF h
<1>12. At(a, l, RootOf(q)) = 0
  <2>1. RootOf(q) \in Nonzero /\ f[q] \in Elements /\ f[q] # 0
    BY RootsAre
  <2>. DEFINE y == At(a, l, RootOf(q))
              c == RootPowers(k0)[q]
  <2>2. y \in Elements
    BY <1>4, <1>6, <2>1, AtType
  <2>3. c \in Nonzero
    <3>1. c = Column(q)[k0]
      BY <1>7 DEF Column
    <3>. QED
      BY <1>7, <3>1, ColumnStarts
  <2>4. Mul(Mul(f[q], y), c) = 0
    BY <1>10, <1>11
  <2>. HIDE DEF y, c
  <2>5. Mul(f[q], y) \in Elements /\ c \in Elements /\ c # 0
    BY <2>1, <2>2, <2>3, ArithmeticTypes, ZeroLaws
  <2>6. y = 0
    BY <2>1, <2>2, <2>4, <2>5, NoZeroDivisors
  <2>. QED
    BY <2>6 DEF y
<1>13. RootsIn(a, l, Support(f))
  BY <1>8, <1>12 DEF RootsIn
<1>14. Some(a, l)
  <2>1. 0 \in 0..l /\ a[0] # 0
    BY <1>4, <1>6
  <2>. QED
    BY <2>1 DEF Some
<1>15. Cardinality(Support(f)) <= l
  <2>1. Few(l)
    BY <1>4, FewRoots
  <2>. QED
    BY <1>3, <1>6, <1>13, <1>14, <2>1 DEF Few
<1>. QED
  BY <1>4, <1>15

-----------------------------------------------------------------------------
(* Forney's formula *)

\* a with coefficients up to n
Padded(a, l, n) == [j \in 0..n |-> IF j <= l THEN a[j] ELSE 0]

LEMMA AtPadded ==
  ASSUME NEW n \in Nat, NEW l \in 0..n, NEW a, Over(a, l), NEW r \in Nonzero
  PROVE  Over(Padded(a, l, n), n) /\ At(Padded(a, l, n), n, r) = At(a, l, r)
<1>. DEFINE c == Padded(a, l, n)
            w == PowerTable(r, n)
            t == [j \in 0..n |-> Mul(c[j], w[j])]
            u == [j \in 0..l |-> Mul(a[j], w[j])]
<1>1. /\ l \in Nat /\ n + 1 \in Nat /\ (n + 1) - 1 = n /\ l + 1 \in 0..(n + 1) /\ (l + 1) - 1 = l
      /\ l + 1 \in Nat /\ \A j \in 0..l : j \in 0..n
  OBVIOUS
<1>2. PowersOf(w, r, n) /\ PowersOf(w, r, l) /\ \A j \in 0..n : w[j] \in Elements
  <2>1. PowersOf(w, r, n) /\ r \in Elements
    BY PowerTableIs
  <2>. HIDE DEF w
  <2>. QED
    BY <2>1, PowersBelow DEF PowersOf
<1>. HIDE DEF w
<1>3. \A j \in 0..l : c[j] = a[j]
  BY <1>1 DEF Padded
<1>4. \A j \in (l + 1)..n : c[j] = 0
  BY DEF Padded
<1>5. \A j \in 0..n : c[j] \in Elements
  BY FieldTypes DEF Padded, Over
<1>. HIDE DEF c
<1>6. \A j \in 0..n : t[j] \in Elements
  BY <1>2, <1>5, ArithmeticTypes
<1>7. \A j \in (l + 1)..n : t[j] = 0
  <2>1. ASSUME NEW j \in (l + 1)..n PROVE t[j] = 0
    <3>1. j \in 0..n /\ c[j] = 0
      BY <1>4
    <3>. QED
      BY <1>2, <3>1, ZeroLaws
  <2>. QED
    BY <2>1
<1>8. \A j \in 0..l : t[j] = u[j]
  BY <1>1, <1>3
<1>9. Value(c, n, w) = Sum(n + 1, t) /\ Value(a, l, w) = Sum(l + 1, u)
  BY DEF Value
<1>. HIDE DEF t, u
<1>10. Sum(n + 1, t) = Sum(l + 1, t)
  <2>1. Terms(n + 1, t) /\ \A j \in (l + 1)..((n + 1) - 1) : t[j] = 0
    BY <1>1, <1>6, <1>7 DEF Terms
  <2>. QED
    BY <1>1, <2>1, SumTail
<1>11. Sum(l + 1, u) = Sum(l + 1, t)
  <2>1. Terms(l + 1, t) /\ \A j \in 0..((l + 1) - 1) : u[j] = t[j]
    BY <1>1, <1>6, <1>8 DEF Terms
  <2>. QED
    BY <1>1, <2>1, SumCong
<1>12. Value(c, n, w) = At(c, n, r) /\ Value(a, l, w) = At(a, l, r)
  BY <1>1, <1>2, AtIs
<1>. QED
  BY <1>5, <1>9, <1>10, <1>11, <1>12 DEF Over, c

LEMMA DeflatesUnique ==
  ASSUME NEW n \in Nat, NEW x, NEW c, NEW a, NEW b, Deflates(a, c, x, n), Deflates(b, c, x, n)
  PROVE  \A j \in 0..n : a[j] = b[j]
<1>. DEFINE Same == {j \in 0..n : a[j] = b[j]}
<1>1. 0 \in Same
  BY DEF Deflates
<1>2. ASSUME NEW j \in 1..n, j - 1 \in Same PROVE j \in Same
  BY <1>2 DEF Deflates
<1>3. \A j \in 0..n : j \in Same
  <2>. HIDE DEF Same
  <2>. QED
    BY <1>1, <1>2, UpTo
<1>. QED
  BY <1>3

\* With a factor taken out, nothing is left at its order and above.
LEMMA DeflatesPadded ==
  ASSUME NEW n \in Nat, NEW l \in 1..n, NEW c, Over(c, l), NEW x \in Nonzero, NEW b,
         Deflates(b, c, x, l), b[l] = 0
  PROVE  Deflates(Padded(b, l - 1, n), Padded(c, l, n), x, n)
<1>. DEFINE d == Padded(b, l - 1, n)
            e == Padded(c, l, n)
<1>1. Mul(x, 0) = 0 /\ Add(0, 0) = 0 /\ 0 \in Elements /\ x \in Elements
  BY ZeroLaws, AddLaws, FieldTypes
<1>2. Over(d, n)
  BY <1>1 DEF Deflates, Over, Padded
<1>3. d[0] = e[0]
  BY DEF Deflates, Padded
<1>4. ASSUME NEW j \in 1..n
      PROVE  d[j] = Add(e[j], Mul(x, d[j - 1])) /\ e[j] = Add(d[j], Mul(x, d[j - 1]))
  <2>1. CASE j < l
    <3>1. j \in 1..l /\ d[j] = b[j] /\ d[j - 1] = b[j - 1] /\ e[j] = c[j]
      BY <2>1 DEF Padded
    <3>. QED
      BY <3>1 DEF Deflates
  <2>2. CASE j = l
    <3>1. j \in 1..l /\ d[j] = b[j] /\ d[j - 1] = b[j - 1] /\ e[j] = c[j]
      BY <2>2 DEF Padded
    <3>. QED
      BY <3>1 DEF Deflates
  <2>3. CASE j > l
    <3>1. d[j] = 0 /\ d[j - 1] = 0 /\ e[j] = 0
      BY <2>3 DEF Padded
    <3>. QED
      BY <1>1, <3>1
  <2>. QED
    BY <2>1, <2>2, <2>3
<1>. QED
  BY <1>2, <1>3, <1>4 DEF Deflates

LEMMA ColumnPowers ==
  ASSUME NEW p \in Powers
  PROVE  \A k \in 0..(MinDistance - 1) :
           Column(p)[k] = Mul(Exp[p], PowerTable(Exp[p], MinDistance)[k])
<1>. DEFINE n == MinDistance - 1
            x == Exp[p]
            w == PowerTable(x, MinDistance)
            s == Column(p)
            T == {k \in 0..n : s[k] = Mul(x, w[k])}
<1>1. n \in Nat /\ MinDistance \in Nat /\ \A k \in 1..n : k \in 1..MinDistance /\ k - 1 \in 0..MinDistance
  BY Sizes
<1>2. x \in Nonzero /\ x \in Elements /\ Geometric(s, x, n) /\ s[0] = x
  BY RootsAre, ZeroLaws, ColumnIsGeometric, ColumnStarts
<1>. HIDE DEF s, x
<1>3. PowersOf(w, x, MinDistance)
  BY <1>1, <1>2, PowerTableIs
<1>. HIDE DEF w
<1>4. 0 \in T
  <2>1. w[0] = 1 /\ Mul(x, 1) = x
    BY <1>2, <1>3, OneTimes, ZeroLaws, FieldTypes DEF PowersOf
  <2>. QED
    BY <1>1, <1>2, <2>1
<1>5. ASSUME NEW k \in 1..n, k - 1 \in T PROVE k \in T
  <2>1. s[k] = Mul(x, s[k - 1]) /\ s[k - 1] = Mul(x, w[k - 1])
    BY <1>2, <1>5 DEF Geometric
  <2>2. w[k] = Mul(w[k - 1], x) /\ w[k - 1] \in Elements
    BY <1>1, <1>3 DEF PowersOf
  <2>3. Mul(x, w[k - 1]) = Mul(w[k - 1], x)
    BY <1>2, <2>2, ZeroLaws
  <2>. QED
    BY <2>1, <2>2, <2>3
<1>6. \A k \in 0..n : k \in T
  <2>. HIDE DEF T
  <2>. QED
    BY <1>1, <1>4, <1>5, UpTo
<1>. QED
  BY <1>6 DEF w, s, x

LEMMA PolyMulIsValue ==
  ASSUME NEW m \in Nat, NEW n \in Nat, NEW o \in Nat, NEW l, NEW r, Over(l, m), Over(r, n),
         NEW k \in 0..o
  PROVE  /\ PolyMul(l, m, r, n, o)[k]
              = Value([j \in 0..m |-> IF k - j \in 0..n THEN r[k - j] ELSE 0], m, l)
         /\ Over([j \in 0..m |-> IF k - j \in 0..n THEN r[k - j] ELSE 0], m)
<1>. DEFINE back == [j \in 0..m |-> IF k - j \in 0..n THEN r[k - j] ELSE 0]
            t == [j \in 0..m |-> IF k - j \in 0..n THEN Mul(l[j], r[k - j]) ELSE 0]
            u == [j \in 0..m |-> Mul(back[j], l[j])]
<1>1. PolyMul(l, m, r, n, o)[k] = Sum(m + 1, t)
  BY DEF PolyMul
<1>2. ASSUME NEW j \in 0..m PROVE t[j] = u[j] /\ back[j] \in Elements
  <2>1. l[j] \in Elements
    BY DEF Over
  <2>2. CASE k - j \in 0..n
    <3>1. r[k - j] \in Elements
      BY <2>2 DEF Over
    <3>2. Mul(l[j], r[k - j]) = Mul(r[k - j], l[j])
      BY <2>1, <3>1, ZeroLaws
    <3>. QED
      BY <2>2, <3>1, <3>2
  <2>3. CASE k - j \notin 0..n
    <3>1. Mul(0, l[j]) = 0 /\ 0 \in Elements
      BY <2>1, ZeroLaws, FieldTypes
    <3>. QED
      BY <2>3, <3>1
  <2>. QED
    BY <2>2, <2>3
<1>3. t = u
  BY <1>2
<1>4. Over(back, m)
  BY <1>2 DEF Over
<1>. QED
  BY <1>1, <1>3, <1>4 DEF Value

\* A locator times a column: the column's factor taken out of the locator.
LEMMA LocatorTimesColumn ==
  ASSUME NEW p \in Powers, NEW l \in 0..MinDistance, NEW a, Over(a, l),
         NEW b, Deflates(b, Padded(a, l, MinDistance), Exp[p], MinDistance)
  PROVE  \A k \in 0..(MinDistance - 1) :
           PolyMul(a, l, Column(p), MinDistance - 1, MinDistance - 1)[k] = Mul(Exp[p], b[k])
<1>. DEFINE d == MinDistance
            x == Exp[p]
            w == PowerTable(x, d)
            c == Padded(a, l, d)
            s == Column(p)
<1>. SUFFICES ASSUME NEW k \in 0..(d - 1)
              PROVE  PolyMul(a, l, s, d - 1, d - 1)[k] = Mul(x, b[k])
  OBVIOUS
<1>1. /\ d \in Nat /\ d - 1 \in Nat /\ l \in Nat /\ k \in Nat /\ k \in 0..d
      /\ k + 1 \in Nat /\ (k + 1) - 1 = k /\ l + 1 \in Nat /\ (l + 1) - 1 = l
      /\ d + 1 \in Nat /\ (d + 1) - 1 = d /\ k + 1 \in 0..(d + 1) /\ l + 1 \in 0..(d + 1)
  BY Sizes
<1>2. x \in Nonzero /\ x \in Elements
  BY RootsAre, ZeroLaws
<1>3. \A j \in 0..(d - 1) : s[j] = Mul(x, w[j]) /\ s[j] \in Elements
  BY ColumnPowers, ColumnIsGeometric
<1>4. \A j \in 0..d : w[j] \in Elements
  BY <1>1, <1>2, PowerTableIs DEF PowersOf
<1>5. Over(c, d) /\ \A j \in 0..d : c[j] = IF j <= l THEN a[j] ELSE 0
  <2>1. \A j \in 0..d : c[j] = IF j <= l THEN a[j] ELSE 0
    BY DEF Padded
  <2>. QED
    BY <2>1, FieldTypes DEF Over
<1>6. b[k] = Against(c, k, w, k)
  <2>1. Deflates(Deflated(c, x, d), c, x, d)
    BY <1>1, <1>2, <1>5, DeflatedDeflates
  <2>2. Deflates(b, c, x, d)
    OBVIOUS
  <2>3. b[k] = Deflated(c, x, d)[k]
    <3>. HIDE DEF c, x, d
    <3>. QED
      BY <1>1, <2>1, <2>2, DeflatesUnique
  <2>. QED
    BY <1>1, <2>3 DEF Deflated
<1>. DEFINE z == [j \in 0..d |-> IF j <= k /\ j <= l THEN Mul(a[j], s[k - j]) ELSE 0]
            t == [j \in 0..l |-> IF k - j \in 0..(d - 1) THEN Mul(a[j], s[k - j]) ELSE 0]
            u == [j \in 0..k |-> Mul(c[j], w[k - j])]
<1>7. PolyMul(a, l, s, d - 1, d - 1)[k] = Sum(l + 1, t)
  BY DEF PolyMul
<1>8. \A j \in 0..l : z[j] = t[j]
  BY <1>1
<1>9. \A j \in 0..d : z[j] \in Elements
  <2>1. ASSUME NEW j \in 0..d PROVE z[j] \in Elements
    <3>1. CASE j <= k /\ j <= l
      <4>1. j \in 0..l /\ k - j \in 0..(d - 1)
        BY <1>1, <3>1
      <4>2. a[j] \in Elements /\ s[k - j] \in Elements
        BY <1>3, <4>1 DEF Over
      <4>. QED
        BY <3>1, <4>2, ArithmeticTypes
    <3>2. CASE ~(j <= k /\ j <= l)
      BY <3>2, FieldTypes
    <3>. QED
      BY <3>1, <3>2
  <2>. QED
    BY <2>1
<1>10. \A j \in (l + 1)..d : z[j] = 0
  BY <1>1
<1>11. \A j \in (k + 1)..d : z[j] = 0
  BY <1>1
<1>12. ASSUME NEW j \in 0..k PROVE z[j] = Mul(x, u[j]) /\ u[j] \in Elements
  <2>1. j \in 0..d /\ k - j \in 0..(d - 1) /\ k - j \in 0..d
    BY <1>1
  <2>2. c[j] \in Elements /\ w[k - j] \in Elements /\ s[k - j] = Mul(x, w[k - j])
    BY <1>3, <1>4, <1>5, <2>1 DEF Over
  <2>3. Mul(c[j], w[k - j]) \in Elements
        /\ Mul(c[j], Mul(x, w[k - j])) = Mul(x, Mul(c[j], w[k - j]))
    BY <1>2, <2>2, ArithmeticTypes, MulExchange
  <2>4. u[j] = Mul(c[j], w[k - j])
    OBVIOUS
  <2>5. CASE j <= l
    <3>1. z[j] = Mul(a[j], s[k - j]) /\ c[j] = a[j]
      BY <1>5, <2>1, <2>5
    <3>. QED
      BY <2>2, <2>3, <2>4, <3>1
  <2>6. CASE ~(j <= l)
    <3>1. z[j] = 0 /\ c[j] = 0
      BY <1>5, <2>1, <2>6
    <3>2. u[j] = 0
      BY <2>2, <2>4, <3>1, ZeroLaws
    <3>3. Mul(x, 0) = 0 /\ 0 \in Elements
      BY <1>2, ZeroLaws, FieldTypes
    <3>. HIDE DEF z, u
    <3>. QED
      BY <3>1, <3>2, <3>3
  <2>. QED
    BY <2>5, <2>6
<1>13. Against(c, k, w, k) = Sum(k + 1, u)
  BY DEF Against
<1>. HIDE DEF z, t, u, d
<1>14. Terms(d + 1, z) /\ Terms(l + 1, z)
  <2>1. \A j \in 0..l : j \in 0..d
    BY <1>1
  <2>. QED
    BY <1>1, <1>9, <2>1 DEF Terms
<1>15. Sum(d + 1, z) = Sum(l + 1, z) /\ Sum(d + 1, z) = Sum(k + 1, z)
  <2>1. /\ \A j \in (l + 1)..((d + 1) - 1) : z[j] = 0
        /\ \A j \in (k + 1)..((d + 1) - 1) : z[j] = 0
    BY <1>1, <1>10, <1>11
  <2>. QED
    BY <1>1, <1>14, <2>1, SumTail
<1>16. Sum(l + 1, t) = Sum(l + 1, z)
  <2>1. \A j \in 0..((l + 1) - 1) : t[j] = z[j]
    BY <1>1, <1>8
  <2>. QED
    BY <1>1, <1>14, <2>1, SumCong
<1>17. Sum(k + 1, z) = Mul(x, Sum(k + 1, u))
  <2>1. Terms(k + 1, u) /\ \A j \in 0..((k + 1) - 1) : z[j] = Mul(x, u[j])
    BY <1>1, <1>12 DEF Terms
  <2>. QED
    BY <1>1, <1>2, <2>1, SumScale
<1>. QED
  BY <1>6, <1>7, <1>13, <1>15, <1>16, <1>17

LEMMA Parity ==
  \A m \in Nat \ {0} : /\ m % 2 = 1 => (m - 1) % 2 = 0
                       /\ m % 2 # 1 => m % 2 = 0 /\ (m - 1) % 2 = 1
  OBVIOUS

\* The derivative at a root is what is left when its factor is taken out.
LEMMA DerivativeAtRoot ==
  ASSUME NEW n \in Nat \ {0}, NEW c, Over(c, n), NEW b, NEW x \in Nonzero, NEW r \in Nonzero,
         Mul(x, r) = 1, Deflates(b, c, x, n), b[n] = 0
  PROVE  /\ Over(Derivative(c, n), n - 1)
         /\ At(Derivative(c, n), n - 1, r) = Mul(x, At(b, n - 1, r))
<1>. DEFINE m == n - 1
            w == PowerTable(r, m)
            a == Derivative(c, n)
            d == [k \in 0..m |-> Mul(a[k], w[k])]
            g == [k \in 0..m |-> Mul(b[k], w[k])]
            rest(k) == IF k % 2 = 0 THEN 0 ELSE Mul(b[k], w[k - 1])
            T == {k \in 0..n : Sum(k, d) = Add(Mul(x, Sum(k, g)), rest(k))}
<1>1. /\ m \in Nat /\ n \in Nat /\ m + 1 = n /\ n - 1 = m
      /\ \A k \in 1..n : k - 1 \in 0..m /\ k \in 0..n /\ (k - 1) + 1 = k /\ k \in Nat \ {0}
      /\ \A k \in 0..m : k \in 0..n
  OBVIOUS
<1>2. x \in Elements /\ r \in Elements /\ 0 \in Elements
  BY ZeroLaws, FieldTypes
<1>3. PowersOf(w, r, m)
  BY <1>1, PowerTableIs
<1>. HIDE DEF w
<1>4. \A k \in 0..m : a[k] = IF (k + 1) % 2 = 1 THEN c[k + 1] ELSE 0
  BY DEF Derivative, SumOf
<1>5. \A k \in 0..n : b[k] \in Elements /\ c[k] \in Elements
  BY DEF Deflates, Over
<1>6. \A k \in 0..m : a[k] \in Elements
  <2>1. \A k \in 0..m : k + 1 \in 0..n
    OBVIOUS
  <2>. QED
    BY <1>2, <1>4, <1>5, <2>1
<1>. HIDE DEF a
<1>7. \A k \in 0..m : d[k] \in Elements /\ g[k] \in Elements /\ w[k] \in Elements
  <2>1. \A k \in 0..m : w[k] \in Elements /\ b[k] \in Elements
    BY <1>1, <1>3, <1>5 DEF PowersOf
  <2>. QED
    BY <1>6, <2>1, ArithmeticTypes
<1>8. \A k \in 1..n : d[k - 1] = Mul(a[k - 1], w[k - 1]) /\ g[k - 1] = Mul(b[k - 1], w[k - 1])
  BY <1>1
<1>9. At(a, m, r) = Sum(n, d) /\ At(b, m, r) = Sum(n, g)
  <2>1. Value(a, m, w) = Sum(n, d) /\ Value(b, m, w) = Sum(n, g)
    BY <1>1 DEF Value
  <2>. QED
    BY <1>1, <1>3, <2>1, AtIs
<1>. HIDE DEF d, g
<1>10. Unfolds(n, d) /\ Unfolds(n, g)
  <2>1. Terms(n, d) /\ Terms(n, g)
    BY <1>1, <1>7 DEF Terms
  <2>. QED
    BY <1>1, <2>1, SumUnfolds
<1>. HIDE DEF m
<1>11. 0 \in T
  <2>1. Sum(0, d) = 0 /\ Sum(0, g) = 0
    BY <1>10 DEF Unfolds
  <2>2. Mul(x, 0) = 0 /\ Add(0, 0) = 0 /\ 0 % 2 = 0
    BY <1>2, ZeroLaws, AddLaws
  <2>. QED
    BY <2>1, <2>2
<1>12. ASSUME NEW k \in 1..n, k - 1 \in T PROVE k \in T
  <2>. DEFINE v == w[k - 1]
              y == b[k - 1]
              sg == Sum(k - 1, g)
              sd == Sum(k - 1, d)
  <2>1. /\ Sum(k, d) = Add(sd, d[k - 1]) /\ Sum(k, g) = Add(sg, g[k - 1])
        /\ sd = Add(Mul(x, sg), rest(k - 1))
    BY <1>10, <1>12 DEF Unfolds
  <2>2. v \in Elements /\ y \in Elements /\ sg \in Elements /\ sd \in Elements
        /\ d[k - 1] = Mul(a[k - 1], v) /\ g[k - 1] = Mul(y, v) /\ b[k] \in Elements
    <3>1. k - 1 \in 0..m /\ k - 1 \in 0..n /\ k \in 0..n
      BY <1>1
    <3>. QED
      BY <1>5, <1>7, <1>8, <1>10, <3>1 DEF Unfolds
  <2>3. a[k - 1] = IF k % 2 = 1 THEN c[k] ELSE 0
    BY <1>1, <1>4
  <2>. HIDE DEF v, y, sg, sd
  <2>4. Mul(x, sg) \in Elements /\ Mul(y, v) \in Elements /\ Mul(x, Mul(y, v)) \in Elements
    BY <1>2, <2>2, ArithmeticTypes
  <2>5. Mul(x, Add(sg, Mul(y, v))) = Add(Mul(x, sg), Mul(x, Mul(y, v)))
    BY <1>2, <2>2, <2>4, Distributes
  <2>6. CASE k % 2 = 1
    <3>1. (k - 1) % 2 = 0 /\ k % 2 # 0
      BY <1>1, <2>6, Parity
    <3>2. rest(k - 1) = 0 /\ rest(k) = Mul(b[k], v)
      BY <3>1 DEF v
    <3>3. d[k - 1] = Add(Mul(b[k], v), Mul(x, Mul(y, v)))
      <4>1. d[k - 1] = Mul(Add(b[k], Mul(x, y)), v)
        <5>1. c[k] = Add(b[k], Mul(x, y))
          BY DEF Deflates, y
        <5>. QED
          BY <2>2, <2>3, <2>6, <5>1
      <4>2. Mul(x, y) \in Elements
        BY <1>2, <2>2, ArithmeticTypes
      <4>3. Mul(Add(b[k], Mul(x, y)), v) = Add(Mul(b[k], v), Mul(Mul(x, y), v))
        BY <2>2, <4>2, Distributes
      <4>4. Mul(x, Mul(y, v)) = Mul(Mul(x, y), v)
        BY <1>2, <2>2, MulAssociates
      <4>. QED
        BY <4>1, <4>3, <4>4
    <3>. HIDE DEF rest
    <3>4. Mul(b[k], v) \in Elements
      BY <2>2, ArithmeticTypes
    <3>. DEFINE f == Mul(b[k], v)
                h == Mul(x, Mul(y, v))
                o == Mul(x, sg)
    <3>5. f \in Elements /\ h \in Elements /\ o \in Elements
      BY <2>4, <3>4
    <3>6. Sum(k, d) = Add(o, Add(f, h)) /\ Mul(x, Sum(k, g)) = Add(o, h)
      <4>1. Add(o, 0) = o
        BY <3>5, AddLaws
      <4>. QED
        BY <2>1, <2>2, <2>5, <3>2, <3>3, <4>1
    <3>7. rest(k) = f
      BY <3>2
    <3>. HIDE DEF f, h, o
    <3>8. Add(o, Add(f, h)) = Add(Add(o, h), f)
      <4>1. Add(f, h) = Add(h, f) /\ Add(o, Add(h, f)) = Add(Add(o, h), f)
        BY <3>5, AddLaws
      <4>. QED
        BY <4>1
    <3>9. Sum(k, d) = Add(Mul(x, Sum(k, g)), rest(k))
      BY <3>6, <3>7, <3>8
    <3>. QED
      BY <1>1, <3>9
  <2>7. CASE k % 2 # 1
    <3>1. (k - 1) % 2 = 1 /\ k % 2 = 0
      BY <1>1, <2>7, Parity
    <3>2. k - 1 \in 1..n /\ k - 2 \in 0..m /\ (k - 1) - 1 = k - 2 /\ k - 1 \in 1..m
      BY <3>1 DEF m
    <3>. DEFINE q == w[k - 2]
    <3>3. rest(k - 1) = Mul(y, q) /\ rest(k) = 0
      BY <3>1, <3>2 DEF y
    <3>4. v = Mul(q, r) /\ q \in Elements
      <4>1. w[k - 1] = Mul(w[(k - 1) - 1], r) /\ w[k - 2] \in Elements
        BY <1>3, <3>2 DEF PowersOf
      <4>. QED
        BY <3>2, <4>1 DEF v
    <3>. HIDE DEF q, rest
    <3>5. Mul(x, Mul(y, v)) = Mul(y, q)
      <4>1. Mul(x, Mul(y, v)) = Mul(y, Mul(x, v))
        BY <1>2, <2>2, MulExchange
      <4>2. Mul(x, v) = Mul(q, Mul(x, r))
        BY <1>2, <3>4, MulExchange
      <4>3. Mul(q, 1) = q
        BY <3>4, OneTimes, ZeroLaws, FieldTypes
      <4>. QED
        BY <4>1, <4>2, <4>3
    <3>6. d[k - 1] = 0
      BY <2>2, <2>3, <2>7, ZeroLaws
    <3>7. Sum(k, d) = Add(Mul(x, sg), Mul(y, q))
      <4>1. Add(sd, 0) = sd
        BY <2>2, AddLaws
      <4>. QED
        BY <2>1, <3>3, <3>6, <4>1
    <3>8. Mul(x, Sum(k, g)) = Add(Mul(x, sg), Mul(y, q))
      BY <2>1, <2>2, <2>5, <3>5
    <3>9. Sum(k, d) \in Elements
      BY <1>1, <1>10 DEF Unfolds
    <3>10. Sum(k, d) = Add(Mul(x, Sum(k, g)), rest(k))
      BY <3>3, <3>7, <3>8, <3>9, AddLaws
    <3>. QED
      BY <1>1, <3>10
  <2>. QED
    BY <2>6, <2>7
<1>13. n \in T
  <2>1. \A k \in 0..n : k \in T
    <3>. HIDE DEF T
    <3>. QED
      BY <1>1, <1>11, <1>12, UpTo
  <2>. QED
    BY <1>1, <2>1
<1>14. rest(n) = 0
  <2>1. w[n - 1] \in Elements
    BY <1>3, <1>7, <1>1
  <2>. QED
    BY <2>1, ZeroLaws
<1>15. Sum(n, d) = Mul(x, Sum(n, g))
  <2>1. Sum(n, g) \in Elements
    BY <1>1, <1>10 DEF Unfolds
  <2>2. Mul(x, Sum(n, g)) \in Elements
    BY <1>2, <2>1, ArithmeticTypes
  <2>3. Sum(n, d) = Add(Mul(x, Sum(n, g)), rest(n))
    BY <1>13
  <2>. HIDE DEF rest
  <2>. QED
    BY <1>14, <2>2, <2>3, AddLaws
<1>. QED
  BY <1>1, <1>6, <1>9, <1>15 DEF Over, a, m


LEMMA BlockSize == BlockLength \in Nat /\ BlockLength = FieldMax
  BY FieldTypes DEF BlockLength

\* the evaluator of the locator a and the syndromes s
Evaluator(a, l, s) == PolyMul(a, l, s, MinDistance - 1, MinDistance - 1)

LEMMA EvaluatorType ==
  ASSUME NEW l \in Nat, NEW a, Over(a, l), NEW s, Over(s, MinDistance - 1)
  PROVE  Over(Evaluator(a, l, s), MinDistance - 1)
<1>1. Evaluator(a, l, s) \in [0..(MinDistance - 1) -> Elements]
  BY Sizes, PolyMulType DEF Evaluator, Over
<1>. QED
  BY <1>1 DEF Over

LEMMA SyndromesOver ==
  ASSUME NEW e \in [Powers -> Elements], NEW s,
         \A k \in 0..(MinDistance - 1) : s[k] = SyndromeOf(e, k)
  PROVE  Over(s, MinDistance - 1)
<1>1. ASSUME NEW k \in 0..(MinDistance - 1) PROVE s[k] \in Elements
  <2>1. Over(e, BlockLength - 1) /\ Over(RootPowers(k), BlockLength - 1)
    BY RootPowersAre DEF Over, Powers
  <2>2. SyndromeOf(e, k) \in Elements
    BY <2>1, Sizes, ValueType DEF SyndromeOf
  <2>. QED
    BY <2>2
<1>. QED
  BY <1>1 DEF Over

\* A coefficient of the evaluator, as a value.
LEMMA EvaluatorIsValue ==
  ASSUME NEW l \in Nat, NEW a, Over(a, l), NEW s, Over(s, MinDistance - 1),
         NEW k \in 0..(MinDistance - 1)
  PROVE  Evaluator(a, l, s)[k]
           = Value([j \in 0..l |-> IF k - j \in 0..(MinDistance - 1) THEN s[k - j] ELSE 0], l, a)
<1>. DEFINE d == MinDistance - 1
            back == [j \in 0..l |-> IF k - j \in 0..d THEN s[k - j] ELSE 0]
<1>1. d \in Nat /\ Over(s, d) /\ k \in 0..d
  BY Sizes, Zenon
<1>2. Evaluator(a, l, s) = PolyMul(a, l, s, d, d)
  BY Zenon DEF Evaluator
<1>. HIDE DEF d
<1>3. PolyMul(a, l, s, d, d)[k] = Value(back, l, a)
  BY <1>1, PolyMulIsValue
<1>. QED
  BY <1>2, <1>3, Zenon DEF d

\* The evaluator is linear in the symbols.
LEMMA EvaluatorCombines ==
  ASSUME NEW e \in [Powers -> Elements], NEW s,
         \A k \in 0..(MinDistance - 1) : s[k] = SyndromeOf(e, k),
         NEW l \in Nat, NEW a, Over(a, l)
  PROVE  Combines(Evaluator(a, l, s), MinDistance - 1, BlockLength, e,
                  [p \in Powers |-> Evaluator(a, l, Column(p))])
<1>. DEFINE d == MinDistance - 1
            n == BlockLength - 1
            ev == [p \in Powers |-> Evaluator(a, l, Column(p))]
<1>1. /\ d \in Nat /\ n \in Nat /\ n + 1 = BlockLength /\ Powers = 0..n /\ BlockLength \in Nat
      /\ BlockLength - 1 = n
  BY Sizes, BlockSize, BlockSize
<1>2. Over(s, d) /\ \A p \in 0..n : Over(Column(p), d)
  BY <1>1, SyndromesOver, ColumnIsGeometric DEF Over
<1>3. ASSUME NEW k \in 0..d
      PROVE  Evaluator(a, l, s)[k] = Sum(BlockLength, [p \in 0..n |-> Mul(e[p], ev[p][k])])
  <2>. DEFINE back(r) == [j \in 0..l |-> IF k - j \in 0..d THEN r[k - j] ELSE 0]
              t == [p \in 0..n |-> back(Column(p))]
  <2>1. Evaluator(a, l, s)[k] = Value(back(s), l, a)
    BY <1>2, EvaluatorIsValue
  <2>2. ASSUME NEW p \in 0..n
        PROVE  ev[p][k] = Value(t[p], l, a) /\ Over(t[p], l) /\ e[p] \in Elements
    <3>1. p \in Powers /\ Over(Column(p), d)
      BY <1>1, <1>2
    <3>2. Evaluator(a, l, Column(p))[k] = Value(back(Column(p)), l, a) /\ Over(back(Column(p)), l)
      BY <1>1, <3>1, PolyMulIsValue DEF Evaluator
    <3>. QED
      BY <3>1, <3>2
  <2>3. ASSUME NEW j \in 0..l
        PROVE  back(s)[j] = Sum(BlockLength, [p \in 0..n |-> Mul(e[p], t[p][j])])
    <3>1. CASE k - j \in 0..d
      <4>1. back(s)[j] = SyndromeOf(e, k - j)
        BY <3>1
      <4>2. \A p \in 0..n : t[p][j] = RootPowers(k - j)[p]
        BY <3>1 DEF Column
      <4>3. [p \in 0..n |-> Mul(e[p], t[p][j])] = [p \in 0..n |-> Mul(e[p], RootPowers(k - j)[p])]
        BY <4>2
      <4>4. SyndromeOf(e, k - j) = Sum(n + 1, [p \in 0..n |-> Mul(e[p], RootPowers(k - j)[p])])
        BY DEF SyndromeOf, Value
      <4>. HIDE DEF t, back, n
      <4>. QED
        BY <1>1, <4>1, <4>3, <4>4
    <3>2. CASE k - j \notin 0..d
      <4>. DEFINE z == [p \in 0..n |-> Mul(e[p], t[p][j])]
      <4>1. back(s)[j] = 0
        BY <3>2
      <4>2. \A p \in 0..n : t[p][j] = 0
        BY <3>2
      <4>3. \A p \in 0..n : z[p] = 0
        BY <1>1, <4>2, ZeroLaws
      <4>. HIDE DEF z, t, back
      <4>4. Sum(BlockLength, z) = 0
        BY <1>1, <4>3, SumZeros
      <4>. QED
        BY <4>1, <4>4 DEF z
    <3>. QED
      BY <3>1, <3>2
  <2>. HIDE DEF t, n, d, ev
  <2>4. Value(back(s), l, a) = Sum(BlockLength, [p \in 0..n |-> Mul(e[p], Value(t[p], l, a))])
    <3>. DEFINE b == back(s)
    <3>1. Combines(b, l, BlockLength, e, t)
      BY <1>1, <2>3 DEF Combines
    <3>2. \A p \in 0..(BlockLength - 1) : e[p] \in Elements /\ Over(t[p], l)
      BY <1>1, <2>2
    <3>. HIDE DEF b
    <3>3. Value(b, l, a) = Sum(BlockLength, [p \in 0..(BlockLength - 1) |-> Mul(e[p], Value(t[p], l, a))])
      BY <1>1, <3>1, <3>2, ValueCombination, SMTT(30)
    <3>. QED
      BY <1>1, <3>3 DEF b
  <2>5. [p \in 0..n |-> Mul(e[p], Value(t[p], l, a))] = [p \in 0..n |-> Mul(e[p], ev[p][k])]
    BY <2>2
  <2>. QED
    BY <2>1, <2>4, <2>5
<1>. QED
  BY <1>1, <1>3 DEF Combines

LEMMA EvaluatorValue ==
  ASSUME NEW e \in [Powers -> Elements], NEW s,
         \A k \in 0..(MinDistance - 1) : s[k] = SyndromeOf(e, k),
         NEW l \in Nat, NEW a, Over(a, l), NEW r \in Nonzero
  PROVE  At(Evaluator(a, l, s), MinDistance - 1, r) =
           Sum(BlockLength,
               [p \in Powers |-> Mul(e[p], At(Evaluator(a, l, Column(p)), MinDistance - 1, r))])
<1>. DEFINE d == MinDistance - 1
            ev == [p \in Powers |-> Evaluator(a, l, Column(p))]
            w == PowerTable(r, d)
<1>1. d \in Nat /\ BlockLength \in Nat /\ Powers = 0..(BlockLength - 1)
  BY Sizes, BlockSize
<1>2. Combines(Evaluator(a, l, s), d, BlockLength, e, ev)
  BY EvaluatorCombines
<1>3. Over(w, d)
  BY <1>1, PowerTableIs DEF PowersOf, Over
<1>4. \A p \in Powers : e[p] \in Elements /\ Over(ev[p], d)
  <2>1. \A p \in Powers : Over(Column(p), d)
    BY ColumnIsGeometric DEF Over
  <2>2. \A p \in Powers : Over(Evaluator(a, l, Column(p)), d)
    BY <2>1, EvaluatorType
  <2>. QED
    BY <2>2
<1>5. \A p \in Powers : ev[p] = Evaluator(a, l, Column(p))
  OBVIOUS
<1>. HIDE DEF ev, d
<1>6. Value(Evaluator(a, l, s), d, w)
        = Sum(BlockLength, [p \in 0..(BlockLength - 1) |-> Mul(e[p], Value(ev[p], d, w))])
  <2>. DEFINE b == Evaluator(a, l, s)
  <2>1. Combines(b, d, BlockLength, e, ev)
    BY <1>2
  <2>2. \A p \in 0..(BlockLength - 1) : e[p] \in Elements /\ Over(ev[p], d)
    BY <1>1, <1>4
  <2>. HIDE DEF b, w
  <2>3. Value(b, d, w)
          = Sum(BlockLength, [p \in 0..(BlockLength - 1) |-> Mul(e[p], Value(ev[p], d, w))])
    BY <1>1, <1>3, <2>1, <2>2, ValueCombination
  <2>. QED
    BY <2>3 DEF b
<1>7. [p \in 0..(BlockLength - 1) |-> Mul(e[p], Value(ev[p], d, w))]
        = [p \in Powers |-> Mul(e[p], At(Evaluator(a, l, Column(p)), d, r))]
  BY <1>1, <1>5 DEF At
<1>. QED
  BY <1>6, <1>7 DEF At, d

\* b is a without the factor of q, which is no factor of b.
TakenOut(b, a, l, q, Q) ==
  /\ Deflates(b, a, Exp[q], l) /\ b[l] = 0
  /\ \A p \in Q : At(b, l - 1, RootOf(p)) = 0 <=> p # q

LEMMA SimpleRoot ==
  ASSUME NEW l \in Nat \ {0}, NEW a, Over(a, l), Some(a, l),
         NEW Q \in SUBSET Powers, Cardinality(Q) = l, RootsIn(a, l, Q), NEW q \in Q
  PROVE  TakenOut(Deflated(a, Exp[q], l), a, l, q, Q)
<1>. DEFINE x == Exp[q]
            b == Deflated(a, x, l)
<1>1. x \in Nonzero /\ RootOf(q) \in Nonzero /\ Mul(x, RootOf(q)) = 1
  BY RootsAre
<1>2. Deflates(b, a, x, l)
  BY <1>1, DeflatedDeflates
<1>. HIDE DEF b
<1>3. b[l] = 0 /\ \A r \in Nonzero : At(a, l, r) = Mul(Off(x, r), At(b, l - 1, r))
  <2>1. At(a, l, RootOf(q)) = 0
    BY DEF RootsIn
  <2>. HIDE DEF x
  <2>. QED
    BY <1>1, <1>2, <2>1, FactorOut
<1>4. Over(b, l - 1) /\ Some(b, l - 1) /\ l - 1 \in Nat
  <2>. HIDE DEF x
  <2>. QED
    BY <1>1, <1>2, <1>3, DeflatedSome
<1>5. ASSUME NEW p \in Q, p # q PROVE At(b, l - 1, RootOf(p)) = 0
  <2>1. RootOf(p) \in Nonzero /\ Off(x, RootOf(p)) \in Elements /\ Off(x, RootOf(p)) # 0
    BY <1>5, RootsAre, RootsDiffer
  <2>2. Mul(Off(x, RootOf(p)), At(b, l - 1, RootOf(p))) = 0
    BY <1>3, <2>1 DEF RootsIn
  <2>3. At(b, l - 1, RootOf(p)) \in Elements
    BY <1>4, <2>1, AtType
  <2>. QED
    BY <2>1, <2>2, <2>3, NoZeroDivisors
<1>6. At(b, l - 1, RootOf(q)) # 0
  <2>. SUFFICES ASSUME At(b, l - 1, RootOf(q)) = 0 PROVE FALSE
    OBVIOUS
  <2>1. RootsIn(b, l - 1, Q)
    BY <1>5 DEF RootsIn
  <2>2. Few(l - 1)
    BY <1>4, FewRoots
  <2>3. Cardinality(Q) <= l - 1
    BY <1>4, <2>1, <2>2 DEF Few
  <2>. QED
    BY <2>3
<1>. QED
  BY <1>2, <1>3, <1>5, <1>6 DEF TakenOut, b

\* v is Forney's quotient at the symbol q
Forneys(v, a, l, s, q) ==
  /\ At(Derivative(a, l), l - 1, RootOf(q)) \in Nonzero
  /\ At(Evaluator(a, l, s), MinDistance - 1, RootOf(q))
       = Mul(v, At(Derivative(a, l), l - 1, RootOf(q)))

LEMMA Forney ==
  ASSUME NEW l \in 1..MinDistance, NEW a, Over(a, l), Some(a, l),
         NEW Q \in SUBSET Powers, Cardinality(Q) = l, RootsIn(a, l, Q),
         NEW e \in [Powers -> Elements], \A p \in Powers \ Q : e[p] = 0,
         NEW s, \A k \in 0..(MinDistance - 1) : s[k] = SyndromeOf(e, k),
         NEW q \in Q
  PROVE  Forneys(e[q], a, l, s, q) /\ Over(Derivative(a, l), l - 1)
<1>. DEFINE d == MinDistance - 1
            r == RootOf(q)
            out(p) == Deflated(a, Exp[p], l)
            term == [p \in Powers |-> Mul(e[p], At(Evaluator(a, l, Column(p)), d, r))]
            z == At(out(q), l - 1, r)
<1>1. /\ l \in Nat /\ l \in Nat \ {0} /\ l - 1 \in Nat /\ l \in 0..MinDistance /\ d \in Nat
      /\ BlockLength \in Nat /\ Powers = 0..(BlockLength - 1) /\ q \in Powers
      /\ MinDistance \in Nat /\ MinDistance \in Nat \ {0} /\ l - 1 \in 0..d /\ l \in 1..MinDistance
  BY Sizes, BlockSize
<1>2. /\ r \in Nonzero /\ \A p \in Powers : Exp[p] \in Nonzero /\ Exp[p] \in Elements
      /\ Mul(Exp[q], r) = 1
  BY <1>1, RootsAre, ZeroLaws
<1>. HIDE DEF r
<1>3. ASSUME NEW p \in Q
      PROVE  /\ TakenOut(out(p), a, l, p, Q) /\ Over(out(p), l - 1)
             /\ At(Evaluator(a, l, Column(p)), d, r) = Mul(Exp[p], At(out(p), l - 1, r))
  <2>. DEFINE b == out(p)
              pad == Padded(b, l - 1, MinDistance)
              ev == Evaluator(a, l, Column(p))
              x == Exp[p]
              w == PowerTable(r, d)
  <2>1. TakenOut(b, a, l, p, Q)
    BY <1>1, SimpleRoot
  <2>2. p \in Powers /\ x \in Nonzero /\ x \in Elements
    BY <1>2
  <2>. HIDE DEF b
  <2>3. Deflates(b, a, x, l) /\ b[l] = 0 /\ Over(b, l - 1)
    BY <2>1 DEF TakenOut, Deflates, Over
  <2>4. Deflates(pad, Padded(a, l, MinDistance), x, MinDistance)
    <3>. HIDE DEF x
    <3>. QED
      BY <1>1, <2>2, <2>3, DeflatesPadded
  <2>5. \A k \in 0..d : ev[k] = Mul(x, pad[k])
    <3>. HIDE DEF pad
    <3>. QED
      BY <1>1, <2>2, <2>4, LocatorTimesColumn DEF Evaluator
  <2>6. \A k \in 0..d : pad[k] = Padded(b, l - 1, d)[k]
    BY <1>1 DEF Padded
  <2>7. Over(Padded(b, l - 1, d), d) /\ At(Padded(b, l - 1, d), d, r) = At(b, l - 1, r)
    BY <1>1, <1>2, <2>3, AtPadded
  <2>8. At(ev, d, r) = Mul(x, At(Padded(b, l - 1, d), d, r))
    <3>. DEFINE c == Padded(b, l - 1, d)
                t == [k \in 0..d |-> Mul(ev[k], w[k])]
                u == [k \in 0..d |-> Mul(c[k], w[k])]
    <3>1. \A k \in 0..d : w[k] \in Elements
      BY <1>1, <1>2, PowerTableIs DEF PowersOf
    <3>2. \A k \in 0..d : ev[k] = Mul(x, c[k]) /\ c[k] \in Elements
      BY <2>5, <2>6, <2>7 DEF Over
    <3>. HIDE DEF c, ev, x, w
    <3>3. ASSUME NEW k \in 0..d PROVE t[k] = Mul(x, u[k]) /\ u[k] \in Elements
      <4>1. Mul(Mul(x, c[k]), w[k]) = Mul(x, Mul(c[k], w[k])) /\ Mul(c[k], w[k]) \in Elements
        BY <2>2, <3>1, <3>2, MulAssociates, ArithmeticTypes
      <4>. QED
        BY <3>2, <4>1
    <3>4. At(ev, d, r) = Sum(d + 1, t) /\ At(c, d, r) = Sum(d + 1, u)
      BY DEF At, Value, w
    <3>. HIDE DEF t, u, d
    <3>5. d + 1 \in Nat /\ (d + 1) - 1 = d
      BY <1>1
    <3>6. Terms(d + 1, u) /\ \A k \in 0..((d + 1) - 1) : t[k] = Mul(x, u[k])
      BY <3>3, <3>5 DEF Terms
    <3>7. Sum(d + 1, t) = Mul(x, Sum(d + 1, u))
      BY <2>2, <3>5, <3>6, SumScale
    <3>. QED
      BY <3>4, <3>7 DEF c
  <2>. QED
    BY <2>1, <2>3, <2>7, <2>8 DEF b
<1>4. ASSUME NEW p \in Powers, p # q PROVE term[p] = 0
  <2>1. CASE p \notin Q
    <3>1. e[p] = 0 /\ Over(Column(p), d)
      BY <2>1, ColumnIsGeometric DEF Over
    <3>2. At(Evaluator(a, l, Column(p)), d, r) \in Elements
      BY <1>1, <1>2, <3>1, EvaluatorType, AtType
    <3>. QED
      BY <3>1, <3>2, ZeroLaws
  <2>2. CASE p \in Q
    <3>1. At(Evaluator(a, l, Column(p)), d, r) = Mul(Exp[p], At(out(p), l - 1, r))
      BY <1>3, <2>2
    <3>2. At(out(p), l - 1, r) = 0
      <4>1. TakenOut(out(p), a, l, p, Q)
        BY <1>3, <2>2
      <4>. QED
        BY <1>4, <4>1 DEF TakenOut, r
    <3>3. e[p] \in Elements
      OBVIOUS
    <3>4. Mul(Exp[p], 0) = 0 /\ Mul(e[p], 0) = 0
      BY <1>2, <3>3, ZeroLaws
    <3>5. term[p] = Mul(e[p], At(Evaluator(a, l, Column(p)), d, r))
      OBVIOUS
    <3>. HIDE DEF term, out, d
    <3>. QED
      BY <3>1, <3>2, <3>4, <3>5
  <2>. QED
    BY <2>1, <2>2
<1>5. TakenOut(out(q), a, l, q, Q) /\ Over(out(q), l - 1)
      /\ term[q] = Mul(e[q], Mul(Exp[q], z))
  BY <1>1, <1>3
<1>6. z \in Nonzero
  <2>1. z # 0
    BY <1>5 DEF TakenOut, r
  <2>2. z \in Elements
    BY <1>1, <1>2, <1>5, AtType
  <2>. QED
    BY <2>1, <2>2, ZeroLaws
<1>7. Over(Derivative(a, l), l - 1) /\ At(Derivative(a, l), l - 1, r) = Mul(Exp[q], z)
  <2>. DEFINE b == out(q)
  <2>1. Deflates(b, a, Exp[q], l) /\ b[l] = 0 /\ Exp[q] \in Nonzero
    BY <1>1, <1>2, <1>5 DEF TakenOut
  <2>. HIDE DEF b
  <2>2. Over(Derivative(a, l), l - 1)
        /\ At(Derivative(a, l), l - 1, r) = Mul(Exp[q], At(b, l - 1, r))
    BY <1>1, <1>2, <2>1, DerivativeAtRoot
  <2>. QED
    BY <2>2 DEF b
<1>8. At(Evaluator(a, l, s), d, r) = Sum(BlockLength, term)
  BY <1>1, <1>2, EvaluatorValue, SMTT(30)
<1>. HIDE DEF z, out
<1>9. Mul(Exp[q], z) \in Nonzero
  BY <1>1, <1>2, <1>6, MulByLog
<1>10. Sum(BlockLength, term) = term[q]
  <2>1. Terms(BlockLength, term)
    <3>1. term[q] \in Elements
      <4>1. e[q] \in Elements /\ Mul(Exp[q], z) \in Elements
        BY <1>1, <1>9, ZeroLaws
      <4>. QED
        BY <1>5, <4>1, ArithmeticTypes
    <3>2. \A p \in Powers : term[p] \in Elements
      <4>. HIDE DEF term
      <4>. QED
        BY <1>4, <3>1, FieldTypes
    <3>. HIDE DEF term
    <3>. QED
      BY <1>1, <3>2 DEF Terms
  <2>. HIDE DEF term
  <2>2. q \in 0..(BlockLength - 1) /\ \A p \in 0..(BlockLength - 1) : p # q => term[p] = 0
    BY <1>1, <1>4
  <2>. QED
    BY <1>1, <2>1, <2>2, SumSingle
<1>11. At(Evaluator(a, l, s), d, r) = Mul(e[q], At(Derivative(a, l), l - 1, r))
  <2>. HIDE DEF term, d
  <2>. QED
    BY <1>5, <1>7, <1>8, <1>10
<1>. QED
  BY <1>7, <1>9, <1>11 DEF Forneys, r

-----------------------------------------------------------------------------
(* What is not to be trusted *)

LEMMA PowOne ==
  /\ \A x \in Nonzero : Pow(x, 0) = 1
  /\ \A p \in Powers : Pow(Exp[p], 1) = Exp[p]
<1>1. FieldMax \in Nat \ {0} /\ Exp[0] = 1 /\ Exp[FieldMax] = 1
  BY FieldTypes, FieldAssumption
<1>2. ASSUME NEW x \in Nonzero PROVE Pow(x, 0) = 1
  <2>1. Log[x] \in 1..FieldMax
    BY LogType DEF Nonzero
  <2>2. Log[x] * 0 = 0
    BY <2>1
  <2>3. 0 % FieldMax = 0
    <3>1. 0 \in 0..(FieldMax - 1)
      BY <1>1
    <3>. QED
      BY <1>1, <3>1, SmallModulo
  <2>. QED
    BY <1>1, <2>2, <2>3 DEF Pow
<1>3. ASSUME NEW p \in Powers PROVE Pow(Exp[p], 1) = Exp[p]
  <2>1. p \in 0..(FieldMax - 1)
    BY DEF Powers, BlockLength
  <2>2. CASE p = 0
    <3>1. Exp[p] = Exp[FieldMax] /\ FieldMax \in 1..(2 * FieldMax)
      BY <1>1, <2>2
    <3>2. Log[Exp[p]] = Wrapped(FieldMax)
      BY <3>1, LogOfExp
    <3>3. Wrapped(FieldMax) = FieldMax /\ FieldMax * 1 = FieldMax
      BY <1>1 DEF Wrapped
    <3>4. FieldMax % FieldMax = 0
      BY <1>1
    <3>. QED
      BY <2>2, <3>2, <3>3, <3>4 DEF Pow
  <2>3. CASE p # 0
    <3>1. p \in 1..(2 * FieldMax) /\ ~(p > FieldMax) /\ p * 1 = p
      BY <1>1, <2>1, <2>3
    <3>2. Log[Exp[p]] = p
      BY <3>1, LogOfExp DEF Wrapped
    <3>3. p % FieldMax = p
      BY <1>1, <2>1, SmallModulo
    <3>. QED
      BY <3>1, <3>2, <3>3 DEF Pow
  <2>. QED
    BY <2>2, <2>3
<1>. QED
  BY <1>2, <1>3

LEMMA RootsFromLocationsAre ==
  ASSUME NEW locations \in Seq(Powers)
  PROVE  \A k \in 1..Len(locations) :
           /\ RootsFromLocations(locations)[k] = RootOf(locations[k])
           /\ locations[k] \in Powers
<1>1. ASSUME NEW k \in 1..Len(locations)
      PROVE  RootsFromLocations(locations)[k] = RootOf(locations[k]) /\ locations[k] \in Powers
  <2>1. locations[k] \in Powers
    OBVIOUS
  <2>2. Pow(Exp[locations[k]], GeneratorRootGap) = Exp[locations[k]]
    BY <2>1, PowOne DEF GeneratorRootGap
  <2>. QED
    BY <2>1, <2>2 DEF RootsFromLocations, RootOf
<1>. QED
  BY <1>1

LEMMA LocationIs ==
  ASSUME NEW p \in Powers
  PROVE  Location(RootOf(p)) = p
<1>. DEFINE y == Exp[p]
            Fit(x) == Pow(x, GeneratorRootGap) = Div(1, RootOf(p))
            First(x) == Fit(x) /\ \A z \in 0..(x - 1) : ~Fit(z)
            found == CHOOSE x \in Elements : First(x)
<1>1. /\ y \in Nonzero /\ RootOf(p) \in Nonzero /\ Mul(y, RootOf(p)) = 1
      /\ RootOf(p) \in Elements /\ 1 \in Elements
  BY RootsAre, ZeroLaws, FieldTypes
<1>2. Div(1, RootOf(p)) = y
  <2>1. Div(1, RootOf(p)) \in Nonzero /\ Mul(Div(1, RootOf(p)), RootOf(p)) = 1
    BY <1>1, ArithmeticTypes, DivLaws DEF Nonzero
  <2>. QED
    BY <1>1, <2>1, Inverses
<1>3. FieldMax \in Nat \ {0} /\ Exp[0] = 1 /\ Exp[FieldMax] = 1
  BY FieldTypes, FieldAssumption
<1>4. p \in 0..(FieldMax - 1)
  BY DEF Powers, BlockLength
<1>5. \A x \in Elements : Fit(x) <=> Exp[Log[x] % FieldMax] = y
  <2>1. ASSUME NEW x \in Elements PROVE Pow(x, GeneratorRootGap) = Exp[Log[x] % FieldMax]
    <3>1. Log[x] * 1 = Log[x]
      <4>1. Log[x] \in 0..FieldMax
        BY LogType
      <4>. QED
        BY <4>1
    <3>. QED
      BY <3>1 DEF Pow, GeneratorRootGap
  <2>. QED
    BY <1>2, <2>1
<1>6. CASE p = 0
  <2>1. Fit(0)
    <3>1. Log[0] = 0 /\ 0 \in Elements /\ 0 % FieldMax = 0
      <4>1. 0 \in 0..(FieldMax - 1)
        BY <1>3
      <4>. QED
        BY <1>3, <4>1, LogType, FieldTypes, SmallModulo
    <3>. QED
      BY <1>5, <1>6, <3>1
  <2>. HIDE DEF Fit
  <2>2. First(0) /\ 0 \in Elements
    BY <2>1, FieldTypes
  <2>3. \A x \in Elements : First(x) => x = 0
    <3>1. ASSUME NEW x \in Elements, First(x), x # 0 PROVE FALSE
      <4>1. 0 \in 0..(x - 1)
        BY <3>1, FieldTypes DEF Elements
      <4>. QED
        BY <2>1, <3>1, <4>1
    <3>. QED
      BY <3>1
  <2>. HIDE DEF First
  <2>4. found = 0
    BY <2>2, <2>3
  <2>. QED
    BY <1>6, <2>4, LogType DEF Location, First, Fit
<1>7. CASE p # 0
  <2>1. \A x \in Elements : Fit(x) => Log[x] = p
    <3>1. ASSUME NEW x \in Elements, Exp[Log[x] % FieldMax] = y PROVE Log[x] = p
      <4>1. Log[x] \in 0..FieldMax
        BY LogType
      <4>2. CASE Log[x] \in 0..(FieldMax - 1)
        <5>1. Log[x] % FieldMax = Log[x]
          BY <1>3, <4>2, SmallModulo
        <5>2. Log[x] \in Powers
          BY <4>2 DEF Powers, BlockLength
        <5>. QED
          BY <3>1, <5>1, <5>2, RootsAre
      <4>3. CASE Log[x] = FieldMax
        <5>1. FieldMax % FieldMax = 0
          BY <1>3
        <5>2. Exp[0] = Exp[p] /\ 0 \in Powers
          BY <1>3, <3>1, <4>3, <5>1 DEF Powers, BlockLength
        <5>. QED
          BY <1>7, <5>2, RootsAre
      <4>. QED
        BY <1>3, <4>1, <4>2, <4>3
    <3>. QED
      BY <1>5, <3>1
  <2>2. Fit(y) /\ y \in Elements
    <3>1. p \in 1..(2 * FieldMax) /\ ~(p > FieldMax)
      BY <1>3, <1>4, <1>7
    <3>2. Log[y] = p
      BY <3>1, LogOfExp DEF Wrapped
    <3>3. p % FieldMax = p
      BY <1>3, <1>4, SmallModulo
    <3>4. y \in Elements
      BY <1>1, ZeroLaws
    <3>. QED
      BY <1>5, <3>2, <3>3, <3>4
  <2>3. \A x \in Elements : Fit(x) => x = y
    <3>1. ASSUME NEW x \in Elements, Fit(x) PROVE x = y
      <4>1. Log[x] = p
        BY <2>1, <3>1
      <4>2. x # 0
        BY <1>7, <4>1, LogType
      <4>3. Exp[Log[x]] = x
        BY <4>2, LogType, FieldTypes
      <4>. QED
        BY <4>1, <4>3
    <3>. QED
      BY <3>1
  <2>4. \A z \in 0..(y - 1) : z \in Elements /\ z # y
    <3>1. y \in Elements
      BY <2>2
    <3>. HIDE DEF y, Fit
    <3>. QED
      BY <3>1, FieldTypes DEF Elements
  <2>. HIDE DEF Fit
  <2>5. First(y)
    BY <2>2, <2>3, <2>4
  <2>6. found = y
    BY <2>2, <2>3, <2>5
  <2>7. Log[y] = p
    BY <2>1, <2>2
  <2>. HIDE DEF y
  <2>. QED
    BY <2>6, <2>7 DEF Location, First, Fit
<1>. QED
  BY <1>6, <1>7

ErasureLocator(locations) ==
  FromRoots([k \in 0..(Len(locations) - 1) |-> RootsFromLocations(locations)[k + 1]],
            Len(locations))

Named(locations) == {locations[k] : k \in 1..Len(locations)}

LEMMA ErasureLocatorIs ==
  ASSUME NEW locations \in Seq(Powers)
  PROVE  /\ Over(ErasureLocator(locations), Len(locations))
         /\ Some(ErasureLocator(locations), Len(locations))
         /\ RootsIn(ErasureLocator(locations), Len(locations), Named(locations))
         /\ Named(locations) \in SUBSET Powers
         /\ Len(locations) \in Nat
<1>. DEFINE n == Len(locations)
            roots == [k \in 0..(n - 1) |-> RootsFromLocations(locations)[k + 1]]
            a == ErasureLocator(locations)
<1>1. n \in Nat /\ \A k \in 1..n : locations[k] \in Powers /\ k - 1 \in 0..(n - 1) /\ (k - 1) + 1 = k
  OBVIOUS
<1>2. \A k \in 0..(n - 1) : roots[k] = RootOf(locations[k + 1]) /\ locations[k + 1] \in Powers
  <2>1. \A k \in 0..(n - 1) : k + 1 \in 1..n
    OBVIOUS
  <2>. QED
    BY <2>1, RootsFromLocationsAre
<1>3. \A k \in 0..(n - 1) : roots[k] \in Nonzero /\ roots[k] \in Elements
  BY <1>2, RootsAre, ZeroLaws
<1>4. a = FromRoots(roots, n)
  BY DEF ErasureLocator
<1>. HIDE DEF roots, n, a
<1>5. a \in [0..n -> Elements]
  BY <1>1, <1>3, <1>4, FromRootsType
<1>6. /\ a[n] = 1
      /\ \A m \in 0..(n - 1) : \A w : PowersOf(w, roots[m], n) => Value(a, n, w) = 0
  BY <1>1, <1>3, <1>4, FromRootsVanishes
<1>7. Some(a, n)
  BY <1>1, <1>6 DEF Some
<1>8. ASSUME NEW k \in 1..n PROVE At(a, n, RootOf(locations[k])) = 0
  <2>1. roots[k - 1] = RootOf(locations[k]) /\ roots[k - 1] \in Nonzero /\ k - 1 \in 0..(n - 1)
    BY <1>1, <1>2, <1>3
  <2>2. PowersOf(PowerTable(roots[k - 1], n), roots[k - 1], n)
    BY <1>1, <2>1, PowerTableIs
  <2>3. Value(a, n, PowerTable(roots[k - 1], n)) = 0
    BY <1>6, <2>1, <2>2
  <2>. QED
    BY <2>1, <2>3 DEF At
<1>9. RootsIn(a, n, Named(locations))
  BY <1>8 DEF RootsIn, Named, n
<1>10. Named(locations) \in SUBSET Powers
  BY <1>1 DEF Named, n
<1>. QED
  BY <1>1, <1>5, <1>7, <1>9, <1>10 DEF Over, a, n

\* With as many roots as its order, a polynomial has no other.
LEMMA NoOtherRoot ==
  ASSUME NEW n \in Nat, NEW a, Over(a, n), Some(a, n),
         NEW P \in SUBSET Powers, Cardinality(P) = n, RootsIn(a, n, P),
         NEW p \in Powers, At(a, n, RootOf(p)) = 0
  PROVE  p \in P
<1>. SUFFICES ASSUME p \notin P PROVE FALSE
  OBVIOUS
<1>1. P \cup {p} \in SUBSET Powers /\ IsFiniteSet(P)
  BY PowersFinite
<1>2. RootsIn(a, n, P \cup {p})
  BY DEF RootsIn
<1>3. Cardinality(P \cup {p}) = n + 1
  BY <1>1, FS_AddElement
<1>4. Few(n)
  BY FewRoots
<1>5. Cardinality(P \cup {p}) <= n
  BY <1>1, <1>2, <1>4 DEF Few
<1>. QED
  BY <1>3, <1>5

LEMMA LaterColumn ==
  ASSUME NEW p \in Powers, NEW n \in Nat, NEW k \in Nat, k + n \in 0..(MinDistance - 1)
  PROVE  /\ Column(p)[k + n] = Mul(PowerTable(Exp[p], MinDistance)[n], Column(p)[k])
         /\ PowerTable(Exp[p], MinDistance)[n] \in Nonzero
<1>. DEFINE x == Exp[p]
            w == PowerTable(x, MinDistance)
<1>1. /\ MinDistance \in Nat /\ n \in 0..MinDistance /\ k \in 0..(MinDistance - n)
      /\ k \in 0..(MinDistance - 1) /\ k + n = n + k /\ k \in 0..MinDistance
  BY Sizes
<1>2. x \in Nonzero /\ x \in Elements
  BY RootsAre, ZeroLaws
<1>3. PowersOf(w, x, MinDistance) /\ w[n] \in Nonzero
  BY <1>1, <1>2, PowerTableIs
<1>4. w[n + k] = Mul(w[n], w[k])
  <2>. HIDE DEF w
  <2>. QED
    BY <1>1, <1>2, <1>3, PowerSum
<1>5. Column(p)[k + n] = Mul(x, w[k + n]) /\ Column(p)[k] = Mul(x, w[k])
  BY <1>1, ColumnPowers
<1>6. w[n] \in Elements /\ w[k] \in Elements
  BY <1>1, <1>3, ZeroLaws DEF PowersOf
<1>. HIDE DEF w, x
<1>7. Mul(x, Mul(w[n], w[k])) = Mul(w[n], Mul(x, w[k]))
  BY <1>2, <1>6, MulExchange
<1>. QED
  BY <1>1, <1>3, <1>4, <1>5, <1>7 DEF w, x

\* The modified syndromes are those of a noise that is the code's but where symbols
\* are erased.
\* f damages what e does, but where symbols are erased
Thinned(f, e, locations) ==
  /\ f \in [Powers -> Elements]
  /\ \A p \in Powers :
       f[p] = 0 <=> e[p] = 0 \/ At(ErasureLocator(locations), Len(locations), RootOf(p)) = 0

LEMMA ModifiedSyndromesAre ==
  ASSUME NEW e \in [Powers -> Elements], NEW s,
         \A k \in 0..(MinDistance - 1) : s[k] = SyndromeOf(e, k),
         NEW locations \in Seq(Powers)
  PROVE  \E f : /\ Thinned(f, e, locations)
                /\ \A k \in 0..(MinDistance - Len(locations) - 1) :
                     ModifiedSyndromes(s, locations)[k] = SyndromeOf(f, k)
<1>. DEFINE n == Len(locations)
            a == ErasureLocator(locations)
            m == BlockLength - 1
<1>1. Over(a, n) /\ Some(a, n) /\ n \in Nat
  BY ErasureLocatorIs
<1>2. m \in Nat /\ Powers = 0..m /\ MinDistance \in Nat
  BY Sizes
<1>3. CASE n = 0
  <2>1. ModifiedSyndromes(s, locations) = s
    BY <1>3 DEF ModifiedSyndromes
  <2>2. ASSUME NEW p \in Powers PROVE At(a, n, RootOf(p)) # 0
    <3>. SUFFICES ASSUME At(a, n, RootOf(p)) = 0 PROVE FALSE
      OBVIOUS
    <3>1. {p} \in SUBSET Powers /\ RootsIn(a, n, {p})
      BY DEF RootsIn
    <3>2. Few(n)
      BY <1>1, FewRoots
    <3>3. Cardinality({p}) <= n
      BY <1>1, <3>1, <3>2 DEF Few
    <3>4. Cardinality({p}) = 1
      BY FS_Singleton
    <3>. QED
      BY <1>3, <3>3, <3>4
  <2>3. Thinned(e, e, locations)
    BY <2>2 DEF Thinned
  <2>4. \A k \in 0..(MinDistance - n - 1) : k \in 0..(MinDistance - 1)
    BY <1>2, <1>3
  <2>. QED
    BY <2>1, <2>3, <2>4
<1>4. CASE n # 0
  <2>. DEFINE g == Filtered(e, a, n)
              w(p) == PowerTable(Exp[p], MinDistance)[n]
              f == [p \in Powers |-> IF n < MinDistance THEN Mul(w(p), g[p]) ELSE g[p]]
              modified == PolyMul(a, n, s, MinDistance - 1, MinDistance - 1)
  <2>1. g \in [Powers -> Elements]
    BY <1>1, FilteredType
  <2>2. Over(s, MinDistance - 1)
    BY SyndromesOver
  <2>3. \A p \in Powers : At(a, n, RootOf(p)) \in Elements /\ g[p] = Mul(e[p], At(a, n, RootOf(p)))
    BY <1>1, RootsAre, AtType DEF Filtered
  <2>4. \A p \in Powers : g[p] = 0 <=> e[p] = 0 \/ At(a, n, RootOf(p)) = 0
    BY <2>3, NoZeroDivisors
  <2>. HIDE DEF g, n, a, m
  <2>5. \A p \in Powers : n < MinDistance => w(p) \in Nonzero
    <3>1. ASSUME NEW p \in Powers, n < MinDistance PROVE w(p) \in Nonzero
      <4>1. 0 + n \in 0..(MinDistance - 1) /\ 0 \in Nat
        BY <1>1, <1>2, <3>1
      <4>. QED
        BY <1>1, <4>1, LaterColumn
    <3>. QED
      BY <3>1
  <2>. HIDE DEF w
  <2>6. Thinned(f, e, locations)
    <3>1. ASSUME NEW p \in Powers PROVE f[p] \in Elements /\ (f[p] = 0 <=> g[p] = 0)
      <4>1. CASE n < MinDistance
        <5>1. f[p] = Mul(w(p), g[p]) /\ w(p) \in Elements /\ w(p) # 0 /\ g[p] \in Elements
          BY <2>1, <2>5, <4>1, ZeroLaws
        <5>2. Mul(w(p), g[p]) \in Elements
          BY <5>1, ArithmeticTypes
        <5>3. Mul(w(p), g[p]) = 0 <=> w(p) = 0 \/ g[p] = 0
          BY <5>1, NoZeroDivisors
        <5>. HIDE DEF f
        <5>. QED
          BY <5>1, <5>2, <5>3
      <4>2. CASE ~(n < MinDistance)
        BY <2>1, <4>2
      <4>. QED
        BY <4>1, <4>2
    <3>2. f = [p \in Powers |-> f[p]]
      OBVIOUS
    <3>. HIDE DEF f
    <3>3. f \in [Powers -> Elements]
      BY <3>1, <3>2
    <3>. QED
      BY <2>4, <3>1, <3>3 DEF Thinned, n, a
  <2>7. ASSUME NEW k \in 0..(MinDistance - n - 1)
        PROVE  ModifiedSyndromes(s, locations)[k] = SyndromeOf(f, k)
    <3>1. /\ k \in 0..(MinDistance - 1) /\ k + n \in n..(MinDistance - 1)
          /\ k + n \in 0..(MinDistance - 1) /\ k + n < MinDistance /\ n < MinDistance /\ k \in Nat
          /\ \A j \in 0..n : (k + n) - j \in 0..(MinDistance - 1)
      BY <1>1, <1>2, Sizes
    <3>2. ModifiedSyndromes(s, locations)[k] = modified[k + n]
      BY <1>4, <3>1 DEF ModifiedSyndromes, ErasureLocator, n, a
    <3>3. modified[k + n] = Against(a, n, s, k + n)
      <4>. DEFINE t == [j \in 0..n |-> IF (k + n) - j \in 0..(MinDistance - 1)
                                        THEN Mul(a[j], s[(k + n) - j]) ELSE 0]
                  u == [j \in 0..n |-> Mul(a[j], s[(k + n) - j])]
      <4>1. modified[k + n] = Sum(n + 1, t)
        BY <3>1 DEF PolyMul
      <4>2. t = u
        BY <3>1
      <4>. QED
        BY <4>1, <4>2 DEF Against
    <3>4. Against(a, n, s, k + n) = SyndromeOf(g, k + n)
      <4>. DEFINE x == k + n
      <4>1. n \in Nat /\ Over(a, n) /\ x \in n..(MinDistance - 1)
        BY <1>1, <3>1, Zenon
      <4>. HIDE DEF x
      <4>2. Against(a, n, s, x) = SyndromeOf(Filtered(e, a, n), x)
        BY <4>1, FilteredSyndromes, Zenon
      <4>. QED
        BY <4>2, Zenon DEF g, x
    <3>5. ASSUME NEW p \in 0..m
          PROVE  Mul(g[p], RootPowers(k + n)[p]) = Mul(f[p], RootPowers(k)[p])
      <4>1. p \in Powers
        BY <1>2
      <4>2. RootPowers(k + n)[p] = Column(p)[k + n] /\ RootPowers(k)[p] = Column(p)[k]
            /\ Column(p)[k] \in Elements
        BY <3>1, <4>1, ColumnIsGeometric DEF Column
      <4>3. Column(p)[k + n] = Mul(w(p), Column(p)[k]) /\ w(p) \in Elements
        BY <1>1, <3>1, <4>1, LaterColumn, ZeroLaws DEF w
      <4>4. f[p] = Mul(w(p), g[p]) /\ g[p] \in Elements
        BY <2>1, <3>1, <4>1
      <4>. DEFINE c == Column(p)[k]
      <4>5. Mul(g[p], Mul(w(p), c)) = Mul(w(p), Mul(g[p], c))
            /\ Mul(w(p), Mul(g[p], c)) = Mul(Mul(w(p), g[p]), c)
        <5>. HIDE DEF c
        <5>1. c \in Elements
          BY <4>2 DEF c
        <5>. QED
          BY <4>3, <4>4, <5>1, MulExchange, MulAssociates
      <4>. HIDE DEF f
      <4>. QED
        BY <4>2, <4>3, <4>4, <4>5
    <3>6. [p \in 0..m |-> Mul(g[p], RootPowers(k + n)[p])] = [p \in 0..m |-> Mul(f[p], RootPowers(k)[p])]
      <4>. HIDE DEF f
      <4>. QED
        BY <3>5
    <3>7. SyndromeOf(g, k + n) = SyndromeOf(f, k)
      <4>. HIDE DEF f
      <4>. QED
        BY <3>6 DEF SyndromeOf, Value, m
    <3>. HIDE DEF f, modified
    <3>. QED
      BY <3>2, <3>3, <3>4, <3>7
  <2>. HIDE DEF f
  <2>. QED
    BY <2>6, <2>7 DEF n
<1>. QED
  BY <1>3, <1>4

-----------------------------------------------------------------------------
(* The roots that are found *)

\* the search's list, element by element
Searches(s, behind) ==
  /\ s[0] = <<>>
  /\ \A k \in 1..(FieldMax + 1) :
       s[k] = IF IsRoot(k - 1, behind) THEN Append(s[k - 1], k - 1) ELSE s[k - 1]
  /\ \A k \in 0..(FieldMax + 1) : s[k] \in Seq(Elements)

LEMMA FoundRecursion ==
  ASSUME NEW behind
  PROVE  \E s : Searches(s, behind) /\ Found(behind) = s[FieldMax + 1]
<1>. DEFINE n == FieldMax + 1
            After(k, v) == IF IsRoot(k - 1, behind) THEN Append(v, k - 1) ELSE v
            Step(s) == [k \in 0..n |-> IF k = 0 THEN <<>> ELSE After(k, s[k - 1])]
            S == CHOOSE s : s = Step(s)
            V == Seq(Elements)
            T == [k \in 0..n |-> V]
            step == [k \in 1..n |-> [v \in V |-> After(k, v)]]
<1>1. Found(behind) = S[n]
  BY DEF Found
<1>2. n \in Nat
  BY FieldTypes
<1>3. ASSUME NEW k \in 1..n, NEW v \in V PROVE After(k, v) \in V
  <2>1. k - 1 \in Elements
    BY FieldTypes DEF Elements
  <2>. QED
    BY <2>1
<1>4. <<>> \in V
  OBVIOUS
<1>. HIDE DEF After, V, n
<1>5. \A k \in 1..n : k - 1 \in 0..n /\ k \in 0..n
  BY <1>2
<1>6. \A k \in 1..n : \A v \in T[k - 1] : step[k][v] = After(k, v)
  BY <1>5
<1>7. \A k \in 1..n : \A v \in T[k - 1] : step[k][v] \in T[k]
  BY <1>3, <1>5
<1>8. <<>> \in T[0]
  BY <1>2, <1>4
<1>. HIDE DEF T, step
<1>9. PICK r : Iterates(r, n, T, <<>>, step)
  BY <1>2, <1>7, <1>8, Iteration, Zenon
<1>10. r = Step(r)
  <2>1. ASSUME NEW k \in 0..n
        PROVE  r[k] = IF k = 0 THEN <<>> ELSE After(k, r[k - 1])
    <3>1. CASE k = 0
      BY <1>9, <3>1 DEF Iterates
    <3>2. CASE k # 0
      <4>1. k \in 1..n /\ k - 1 \in 0..n
        BY <1>2, <3>2
      <4>. QED
        BY <1>6, <1>9, <3>2, <4>1 DEF Iterates
    <3>. QED
      BY <3>1, <3>2
  <2>. QED
    BY <1>9, <2>1 DEF Iterates
<1>. HIDE DEF Step
<1>11. S = Step(S)
  BY <1>10
<1>. HIDE DEF S
<1>12. S[0] = <<>> /\ \A k \in 1..n : S[k] = After(k, S[k - 1])
  <2>1. 0 \in 0..n /\ \A k \in 1..n : k \in 0..n /\ k # 0
    BY <1>2
  <2>. QED
    BY <1>11, <2>1 DEF Step
<1>. DEFINE Reached == {k \in 0..n : S[k] \in V}
<1>13. 0 \in Reached
  BY <1>2, <1>4, <1>12
<1>14. ASSUME NEW k \in 1..n, k - 1 \in Reached PROVE k \in Reached
  <2>1. S[k - 1] \in V /\ k \in 0..n
    BY <1>2, <1>14
  <2>2. S[k] \in V
    BY <1>3, <1>12, <2>1, Zenon
  <2>. QED
    BY <2>1, <2>2
<1>15. \A k \in 0..n : k \in Reached
  <2>. HIDE DEF Reached
  <2>. QED
    BY <1>2, <1>13, <1>14, UpTo
<1>16. Searches(S, behind)
  BY <1>12, <1>15 DEF Searches, V, n, After
<1>. QED
  BY <1>1, <1>16 DEF n

\* The search collects elements.
LEMMA FoundType ==
  ASSUME NEW behind
  PROVE  Found(behind) \in Seq(Elements)
<1>1. PICK s : Searches(s, behind) /\ Found(behind) = s[FieldMax + 1]
  BY FoundRecursion
<1>2. FieldMax + 1 \in 0..(FieldMax + 1)
  BY FieldTypes
<1>. QED
  BY <1>1, <1>2 DEF Searches

LEMMA RootsStoredType ==
  ASSUME NEW found \in Seq(Elements), errorRoots \in [0..(2 * MinDistance - 1) -> Elements]
  PROVE  RootsStored(found) \in [0..(2 * MinDistance - 1) -> Elements]
<1>. DEFINE at(k) == k - Len(erased)
<1>1. ASSUME NEW k \in 0..(2 * MinDistance - 1), at(k) \in 0..(Len(found) - 1)
      PROVE  found[at(k) + 1] \in Elements
  <2>1. at(k) + 1 \in 1..Len(found)
    BY <1>1
  <2>. HIDE DEF at
  <2>. QED
    BY <2>1
<1>. HIDE DEF at
<1>2. RootsStored(found) =
        [k \in 0..(2 * MinDistance - 1) |->
           IF at(k) \in 0..(Len(found) - 1) THEN found[at(k) + 1]
           ELSE IF at(k) \in 0..(errorLocator.order - 1) THEN 0
           ELSE errorRoots[k]]
  BY DEF RootsStored, at
<1>3. 0 \in Elements
  BY FieldTypes
<1>. QED
  BY <1>1, <1>2, <1>3

-----------------------------------------------------------------------------
(* The search for the error locator *)

Balance ==
  /\ numerrors \in Nat /\ delayLength \in Nat \ {0}
  /\ lastErrorLocator.order \in Nat
  /\ errorLocator.order = numerrors
  /\ i + 1 = numerrors + lastErrorLocator.order + delayLength

Searching ==
  phase = "locating" => i \in 0..(MinDistance - Len(erased)) /\ Balance

Finished ==
  phase = "correcting" => errorLocator.order \in 0..(MinDistance - Len(erased))

IInv ==
  /\ script \in Seq(Calls)
  /\ phase = "encoded" => script # <<>>
  /\ Len(erased) \in 0..MinDistance
  /\ Searching /\ Finished

LEMMA IInvInit == Init => IInv
<1>. SUFFICES ASSUME Init PROVE IInv
  OBVIOUS
<1>1. script \in Seq(Calls)
  BY CodecAssumption DEF Init
<1>2. Len(erased) \in 0..MinDistance
  BY CodecAssumption DEF Init
<1>. QED
  BY <1>1, <1>2 DEF Init, IInv, Searching, Finished

\* A call takes the next script entry, whose erasures fit, and starts the search.
LEMMA ReceiveKeeps == IInv /\ (ReceiveClean \/ ReceiveDamaged) => IInv'
<1>. SUFFICES ASSUME IInv, ReceiveClean \/ ReceiveDamaged PROVE IInv'
  OBVIOUS
<1>1. /\ script' = Tail(script) /\ erased' = Head(script).erased
      /\ phase' \in {"returned", "locating"}
  BY DEF ReceiveClean, ReceiveDamaged
<1>2. Head(script) \in Calls /\ script' \in Seq(Calls)
  <2>1. script \in Seq(Calls) /\ script # <<>>
    BY DEF IInv, ReceiveClean, ReceiveDamaged
  <2>. QED
    BY <1>1, <2>1
<1>3. Len(erased') \in 0..MinDistance
  BY <1>1, <1>2, CodecAssumption DEF Calls
<1>4. CASE ReceiveClean
  BY <1>2, <1>3, <1>4 DEF ReceiveClean, IInv, Searching, Finished
<1>5. CASE ReceiveDamaged
  <2>1. errorLocator'.order = 0 /\ lastErrorLocator'.order = 0
    BY <1>5 DEF ReceiveDamaged, One, Poly
  <2>2. numerrors' = 0 /\ i' = 0 /\ delayLength' = 1 /\ phase' = "locating"
    BY <1>5 DEF ReceiveDamaged
  <2>. QED
    BY <1>2, <1>3, <2>1, <2>2, CodecAssumption DEF IInv, Searching, Finished, Balance
<1>. QED
  BY <1>4, <1>5

\* Every iteration keeps the balance.
LEMMA IterationKeeps == IInv /\ (Describes \/ Lengthen \/ Adjust) => IInv'
<1>. SUFFICES ASSUME IInv, Describes \/ Lengthen \/ Adjust PROVE IInv'
  OBVIOUS
<1>1. /\ phase = "locating" /\ phase' = "locating"
      /\ script' = script /\ erased' = erased
      /\ i \in Nat /\ i < MinDistance - Len(erased) /\ i' = i + 1
      /\ Len(erased) \in 0..MinDistance /\ Balance
  BY CodecAssumption
     DEF IInv, Searching, Describes, Lengthen, Adjust, More, call, block, errors
<1>2. i' \in 0..(MinDistance - Len(erased))
  BY <1>1, CodecAssumption
<1>3. CASE Describes
  <2>1. Balance'
    BY <1>1, <1>3, SMTT(30) DEF Describes, Balance, locators
  <2>. QED
    BY <1>1, <1>2, <2>1 DEF IInv, Searching, Finished
<1>4. CASE Lengthen
  <2>1. /\ errorLocator'.order = lastErrorLocator.order + delayLength
        /\ lastErrorLocator'.order = errorLocator.order
    BY <1>4 DEF Lengthen, Poly, Top
  <2>2. numerrors' = i + 1 - numerrors /\ delayLength' = 1
    BY <1>4 DEF Lengthen, RestartDelay
  <2>3. Balance'
    BY <1>1, <2>1, <2>2 DEF Balance
  <2>. QED
    BY <1>1, <1>2, <2>3 DEF IInv, Searching, Finished
<1>5. CASE Adjust
  <2>1. 2 * numerrors > i /\ numerrors' = numerrors /\ delayLength' = delayLength + 1
        /\ lastErrorLocator' = lastErrorLocator
    BY <1>5 DEF Adjust
  <2>2. errorLocator'.order = AdjustedOrder
    BY <1>5 DEF Adjust, Poly
  <2>3. Top = i + 1 - numerrors
    BY <1>1 DEF Top, Balance
  <2>4. AdjustedOrder = numerrors
    BY <1>1, <2>1, <2>3 DEF AdjustedOrder, Balance
  <2>5. Balance'
    BY <1>1, <2>1, <2>2, <2>4, SMTT(30) DEF Balance
  <2>. QED
    BY <1>1, <1>2, <2>5 DEF IInv, Searching, Finished
<1>. QED
  BY <1>3, <1>4, <1>5

\* The search ends with an order that the buffers hold.
LEMMA FactorizeKeeps == IInv /\ Factorize => IInv'
<1>. SUFFICES ASSUME IInv, Factorize PROVE IInv'
  OBVIOUS
<1>1. /\ phase = "locating" /\ phase' = "correcting" /\ i = MinDistance - Len(erased)
      /\ script' = script /\ erased' = erased /\ errorLocator' = errorLocator
  BY DEF Factorize, Located, call, locators
<1>2. Balance /\ Len(erased) \in 0..MinDistance
  BY <1>1 DEF IInv, Searching
<1>3. errorLocator.order \in 0..(MinDistance - Len(erased))
  BY <1>1, <1>2, CodecAssumption DEF Balance
<1>. QED
  BY <1>1, <1>3 DEF IInv, Searching, Finished

LEMMA IInvNext == IInv /\ [Next]_vars => IInv'
<1>. SUFFICES ASSUME IInv, [Next]_vars PROVE IInv'
  OBVIOUS
<1>1. CASE InitRs \/ DestroyRs
  BY <1>1 DEF InitRs, DestroyRs, IInv, Searching, Finished, Balance, call, locators, registers
<1>2. CASE RsEncode
  BY <1>2 DEF RsEncode, IInv, Searching, Finished, Balance, locators, registers
<1>3. CASE ReceiveClean \/ ReceiveDamaged
  BY <1>3, ReceiveKeeps
<1>4. CASE Describes \/ Lengthen \/ Adjust
  BY <1>4, IterationKeeps
<1>5. CASE Factorize
  BY <1>5, FactorizeKeeps
<1>6. CASE FactorizeFails \/ Correct
  BY <1>6 DEF FactorizeFails, Correct, IInv, Searching, Finished, Balance, call, locators, registers
<1>7. CASE UNCHANGED vars
  BY <1>7 DEF vars, IInv, Searching, Finished, Balance, call, locators, registers
<1>. QED
  BY <1>1, <1>2, <1>3, <1>4, <1>5, <1>6, <1>7 DEF Next, RsDecode

LEMMA Inductive == Spec => []IInv
  BY IInvInit, IInvNext, PTL DEF Spec

-----------------------------------------------------------------------------
(* The buffers keep their types *)

Coefficients == [0..MinDistance -> Elements]

Received ==
  /\ receivedPolynomial \in [Powers -> Elements]
  /\ phase = "encoded" => sent \in [Powers -> Elements]
  /\ syndromes \in [0..(MinDistance - 1) -> Elements]
  /\ syndromeCopy \in [0..(MinDistance - 1) -> Elements]

Locators ==
  /\ errorLocator.coeff \in Coefficients /\ lastErrorLocator.coeff \in Coefficients
  /\ lastDiscrepancy \in Elements

Errors ==
  /\ erased \in Seq(Powers)
  /\ errorRoots \in [0..(2 * MinDistance - 1) -> Elements]
  /\ errorVals \in [0..(MinDistance - 1) -> Elements]
  /\ errorLocations \in [0..(MinDistance - 1) -> Powers \cup Junk]

Counters ==
  /\ rs \in {"null", "live", "freed"}
  /\ phase \in {"idle", "encoded", "locating", "correcting", "returned"}
  /\ code \in {"none", "SUCCESS", "REED_SOL_DEC_ERR"}
  /\ i \in 0..MinDistance /\ numerrors \in 0..MinDistance
  /\ delayLength \in 1..(MinDistance + 1)

Typed == Received /\ Locators /\ Errors /\ Counters

LEMMA ZerosType ==
  ASSUME NEW n \in Nat
  PROVE  Zeros(n) \in [0..n -> Elements]
BY FieldTypes DEF Zeros

LEMMA OneType == One.coeff \in Coefficients
<1>1. Zeros(MinDistance) \in Coefficients
  BY Sizes, ZerosType DEF Coefficients
<1>2. One.coeff = [Zeros(MinDistance) EXCEPT ![0] = 1]
  BY DEF One, Poly
<1>. QED
  BY <1>1, <1>2, FieldTypes DEF Coefficients

LEMMA TypedInit == Init => Typed
<1>. SUFFICES ASSUME Init PROVE Typed
  OBVIOUS
<1>1. Received
  <2>1. Zeros(BlockLength - 1) \in [Powers -> Elements]
    BY Sizes, ZerosType
  <2>2. Zeros(MinDistance - 1) \in [0..(MinDistance - 1) -> Elements]
    BY Sizes, ZerosType
  <2>. QED
    BY <2>1, <2>2 DEF Init, Received
<1>2. Locators
  BY OneType, FieldTypes DEF Init, Locators
<1>3. Errors
  <2>1. Zeros(2 * MinDistance - 1) \in [0..(2 * MinDistance - 1) -> Elements]
    <3>1. 2 * MinDistance - 1 \in Nat
      BY Sizes
    <3>. QED
      BY <3>1, ZerosType
  <2>2. PICK junk \in Junk :
          /\ errorVals = [k \in 0..(MinDistance - 1) |-> junk]
          /\ errorLocations = [k \in 0..(MinDistance - 1) |-> junk]
    BY DEF Init
  <2>3. junk \in Elements
    BY CodecAssumption
  <2>. QED
    BY <2>1, <2>2, <2>3 DEF Init, Errors
<1>4. Counters
  BY Sizes DEF Init, Counters
<1>. QED
  BY <1>1, <1>2, <1>3, <1>4 DEF Typed

\* A block is encoded.
LEMMA EncodeTypes ==
  ASSUME script \in Seq(Calls), Typed, RsEncode
  PROVE  Typed'
<1>1. Head(script) \in Calls
  BY DEF RsEncode
<1>2. Head(script).msg \in [0..(MessageLength - 1) -> Elements]
  BY <1>1 DEF Calls
<1>3. sent' \in [Powers -> Elements]
  BY <1>2, EncodedType DEF RsEncode
<1>4. Received'
  BY <1>3 DEF Typed, Received, RsEncode, block
<1>5. Locators'
  BY DEF Typed, Locators, RsEncode, locators, registers
<1>6. Errors'
  BY DEF Typed, Errors, RsEncode, errors
<1>7. Counters'
  BY DEF Typed, Counters, RsEncode, registers
<1>. QED
  BY <1>4, <1>5, <1>6, <1>7 DEF Typed

LEMMA ReturnOfType ==
  ASSUME NEW n
  PROVE  ReturnOf(n) \in {"none", "SUCCESS", "REED_SOL_DEC_ERR"}
BY DEF ReturnOf

\* A block is received: its syndromes, and what is known to be wrong of it.
LEMMA ReceiveTypes ==
  ASSUME script \in Seq(Calls), script # <<>>, Typed, ReceiveClean \/ ReceiveDamaged
  PROVE  Typed'
<1>1. phase = "encoded" /\ noise' = Head(script).noise /\ erased' = Head(script).erased
      /\ receivedPolynomial' = [p \in Powers |-> Add(sent[p], noise'[p])]
      /\ rs' = rs /\ errorVals' = errorVals /\ Erase(erased')
      /\ phase' \in {"returned", "locating"} /\ sent' = sent
  BY DEF ReceiveClean, ReceiveDamaged
<1>2. noise' \in [Powers -> Elements] /\ erased' \in Seq(Powers)
  <2>1. Head(script) \in Calls
    OBVIOUS
  <2>. QED
    BY <1>1, <2>1 DEF Calls
<1>3. receivedPolynomial' \in [Powers -> Elements]
  <2>1. sent \in [Powers -> Elements]
    BY <1>1 DEF Typed, Received
  <2>. QED
    BY <1>1, <1>2, <2>1, FieldTypes
<1>4. Received'
  <2>1. Syndromes(receivedPolynomial') \in [0..(MinDistance - 1) -> Elements]
    BY <1>3, SyndromesType
  <2>2. CASE ReceiveClean
    BY <1>1, <1>3, <2>1, <2>2 DEF ReceiveClean, Typed, Received
  <2>3. CASE ReceiveDamaged
    <3>1. syndromeCopy' \in [0..(MinDistance - 1) -> Elements]
      BY <2>1, <2>3 DEF ReceiveDamaged
    <3>2. syndromes' \in [0..(MinDistance - 1) -> Elements]
      BY <1>2, <2>3, <3>1, ModifiedSyndromesType DEF ReceiveDamaged
    <3>. QED
      BY <1>1, <1>3, <3>1, <3>2 DEF Received
  <2>. QED
    BY <2>2, <2>3
<1>5. Locators'
  <2>1. CASE ReceiveClean
    BY <2>1 DEF ReceiveClean, Typed, Locators, locators, registers
  <2>2. CASE ReceiveDamaged
    BY <2>2, OneType, FieldTypes DEF ReceiveDamaged, Locators
  <2>. QED
    BY <2>1, <2>2
<1>6. Errors'
  <2>. DEFINE locations == erased'
  <2>1. locations \in Seq(Powers) /\ Len(locations) \in Nat
    BY <1>2
  <2>2. \A k \in Nat : k < Len(locations) => k + 1 \in 1..Len(locations)
    BY <2>1
  <2>3. \A k \in 0..(2 * MinDistance - 1) : k \in Nat
    BY Sizes
  <2>4. \A k \in 0..(MinDistance - 1) : k \in Nat
    BY Sizes
  <2>5. errorLocations' = [k \in 0..(MinDistance - 1) |->
                             IF k < Len(locations) THEN locations[k + 1] ELSE errorLocations[k]]
    BY <1>1 DEF Erase, Typed, Errors
  <2>6. errorRoots' = [k \in 0..(2 * MinDistance - 1) |->
                         IF k < Len(locations) THEN RootsFromLocations(locations)[k + 1]
                         ELSE errorRoots[k]]
    BY <1>1 DEF Erase, Typed, Errors
  <2>. HIDE DEF locations
  <2>7. errorLocations' \in [0..(MinDistance - 1) -> Powers \cup Junk]
    BY <2>1, <2>2, <2>4, <2>5 DEF Typed, Errors
  <2>8. errorRoots' \in [0..(2 * MinDistance - 1) -> Elements]
    BY <2>1, <2>2, <2>3, <2>6, RootsFromLocationsType DEF Typed, Errors
  <2>. QED
    BY <1>1, <1>2, <2>7, <2>8 DEF Typed, Errors
<1>7. Counters'
  <2>1. CASE ReceiveClean
    BY <1>1, <2>1, ReturnOfType DEF ReceiveClean, Typed, Counters, registers
  <2>2. CASE ReceiveDamaged
    BY <1>1, <2>2, Sizes DEF ReceiveDamaged, Typed, Counters
  <2>. QED
    BY <2>1, <2>2
<1>. QED
  BY <1>4, <1>5, <1>6, <1>7 DEF Typed

\* The discrepancy reads coefficients and syndromes inside their buffers.
LEMMA DiscrepancyType ==
  ASSUME IInv, Typed, More
  PROVE  Discrepancy \in Elements
<1>. DEFINE term == [j \in 0..(numerrors - 1) |->
                       Mul(errorLocator.coeff[j + 1], syndromes[i - j - 1])]
<1>1. /\ numerrors \in Nat /\ i \in Nat /\ numerrors <= i /\ i <= MinDistance - 1
  <2>1. Balance /\ i \in 0..(MinDistance - Len(erased)) /\ Len(erased) \in 0..MinDistance
        /\ i < MinDistance - Len(erased)
    BY DEF IInv, Searching, More
  <2>2. numerrors \in Nat /\ delayLength \in Nat \ {0} /\ lastErrorLocator.order \in Nat
        /\ i + 1 = numerrors + lastErrorLocator.order + delayLength
    BY <2>1 DEF Balance
  <2>3. Len(erased) \in Nat /\ i \in Nat
    BY <2>1, Sizes
  <2>. QED
    BY <2>1, <2>2, <2>3, Sizes, SMTT(30)
<1>2. ASSUME NEW j \in 0..(numerrors - 1) PROVE term[j] \in Elements
  <2>1. j + 1 \in 0..MinDistance /\ i - j - 1 \in 0..(MinDistance - 1)
    BY <1>1, Sizes
  <2>2. errorLocator.coeff[j + 1] \in Elements /\ syndromes[i - j - 1] \in Elements
    BY <2>1 DEF Typed, Locators, Coefficients, Received
  <2>. QED
    BY <2>2, ArithmeticTypes
<1>. HIDE DEF term
<1>3. Sum(numerrors, term) \in Elements
  BY <1>1, <1>2, SumType
<1>4. syndromes[i] \in Elements
  <2>1. i \in 0..(MinDistance - 1)
    BY <1>1, Sizes
  <2>. QED
    BY <2>1 DEF Typed, Received
<1>. QED
  BY <1>3, <1>4, FieldTypes DEF Discrepancy, term

LEMMA CorrectedType ==
  ASSUME IInv, Typed, More
  PROVE  Corrected \in Coefficients
<1>1. ASSUME NEW k \in 0..MinDistance PROVE Correction(k) \in Elements
  <2>1. CASE k - delayLength \in 0..lastErrorLocator.order
    <3>1. delayLength \in Nat /\ k - delayLength \in 0..MinDistance
      <4>1. delayLength \in 1..(MinDistance + 1)
        BY DEF Typed, Counters
      <4>. QED
        BY <2>1, <4>1, Sizes
    <3>2. lastErrorLocator.coeff[k - delayLength] \in Elements /\ lastDiscrepancy \in Elements
      BY <3>1 DEF Typed, Locators, Coefficients
    <3>3. Mul(lastErrorLocator.coeff[k - delayLength], Discrepancy) \in Elements
      BY <3>2, DiscrepancyType, ArithmeticTypes
    <3>. QED
      BY <2>1, <3>2, <3>3, ArithmeticTypes DEF Correction
  <2>2. CASE k - delayLength \notin 0..lastErrorLocator.order
    BY <2>2, FieldTypes DEF Correction
  <2>. QED
    BY <2>1, <2>2
<1>2. ASSUME NEW k \in 0..MinDistance PROVE Add(errorLocator.coeff[k], Correction(k)) \in Elements
  <2>1. errorLocator.coeff[k] \in Elements
    BY DEF Typed, Locators, Coefficients
  <2>. QED
    BY <1>1, <2>1, FieldTypes
<1>. QED
  BY <1>2 DEF Corrected, Coefficients

\* An iteration of the search.
LEMMA IterationTypes ==
  ASSUME IInv, Typed, Describes \/ Lengthen \/ Adjust
  PROVE  Typed'
<1>1. More /\ UNCHANGED <<rs, script, phase, block, errors, call>>
  BY DEF Describes, Lengthen, Adjust
<1>2. Received'
  BY <1>1 DEF Typed, Received, block, call
<1>3. Errors'
  BY <1>1 DEF Typed, Errors, errors, call
<1>4. Locators'
  <2>1. CASE Describes
    BY <2>1 DEF Describes, Typed, Locators, locators
  <2>2. CASE Lengthen
    <3>1. lastErrorLocator'.coeff =
            [k \in 0..MinDistance |->
               IF k <= Top THEN errorLocator.coeff[k] ELSE lastErrorLocator.coeff[k]]
      BY <2>2 DEF Lengthen, Poly
    <3>2. lastErrorLocator'.coeff \in Coefficients
      BY <3>1 DEF Typed, Locators, Coefficients
    <3>3. errorLocator'.coeff = Corrected /\ lastDiscrepancy' = Discrepancy
      BY <2>2 DEF Lengthen, Poly
    <3>. QED
      BY <1>1, <3>2, <3>3, CorrectedType, DiscrepancyType DEF Locators
  <2>3. CASE Adjust
    <3>1. errorLocator'.coeff = Corrected /\ lastErrorLocator' = lastErrorLocator
          /\ lastDiscrepancy' = lastDiscrepancy
      BY <2>3 DEF Adjust, Poly
    <3>. QED
      BY <1>1, <3>1, CorrectedType DEF Typed, Locators
  <2>. QED
    BY <2>1, <2>2, <2>3
<1>5. Counters'
  <2>1. phase' = "locating"
    BY <1>1 DEF More
  <2>2. IInv'
    BY IterationKeeps
  <2>3. Balance' /\ i' \in 0..(MinDistance - Len(erased')) /\ Len(erased') \in 0..MinDistance
    BY <2>1, <2>2 DEF IInv, Searching
  <2>4. /\ numerrors' \in Nat /\ delayLength' \in Nat \ {0} /\ lastErrorLocator'.order \in Nat
        /\ i' + 1 = numerrors' + lastErrorLocator'.order + delayLength'
    BY <2>3 DEF Balance
  <2>5. i' \in 0..MinDistance
    BY <2>3, Sizes
  <2>6. numerrors' \in 0..MinDistance /\ delayLength' \in 1..(MinDistance + 1)
    BY <2>4, <2>5, Sizes
  <2>. QED
    BY <1>1, <2>1, <2>5, <2>6 DEF Typed, Counters, call
<1>. QED
  BY <1>2, <1>3, <1>4, <1>5 DEF Typed

\* The locator is factorised, or is not.
LEMMA FactorizeTypes ==
  ASSUME Typed, FactorizeFails \/ Factorize
  PROVE  Typed'
<1>1. PICK behind : errorRoots' = RootsStored(Found(behind))
  BY DEF FactorizeFails, Factorize
<1>2. errorRoots' \in [0..(2 * MinDistance - 1) -> Elements]
  BY <1>1, FoundType, RootsStoredType DEF Typed, Errors
<1>3. /\ UNCHANGED <<rs, script, block, locators, errorVals, errorLocations, registers,
                     erased, syndromeCopy, sent>>
      /\ phase' \in {"returned", "correcting"}
  BY DEF FactorizeFails, Factorize, call
<1>4. code' \in {"none", "SUCCESS", "REED_SOL_DEC_ERR"}
  BY ReturnOfType DEF FactorizeFails, Factorize, call, Typed, Counters
<1>5. Received'
  BY <1>3 DEF Typed, Received, block
<1>6. Locators'
  BY <1>3 DEF Typed, Locators, locators, registers
<1>7. Errors'
  BY <1>2, <1>3 DEF Typed, Errors
<1>8. Counters'
  BY <1>3, <1>4 DEF Typed, Counters, registers
<1>. QED
  BY <1>5, <1>6, <1>7, <1>8 DEF Typed

\* The locator of erasures and errors has the coefficients its order asks for.
LEMMA FullLocatorType ==
  ASSUME IInv, Typed, phase = "correcting"
  PROVE  /\ FullOrder \in 0..MinDistance
         /\ \A k \in 0..FullOrder : FullLocator[k] \in Elements
<1>. DEFINE n == Len(erased)    o == errorLocator.order
            erasureLocator ==
              FromRoots([k \in 0..(n - 1) |-> RootsFromLocations(erased)[k + 1]], n)
<1>1. o \in 0..(MinDistance - n) /\ n \in 0..MinDistance
  BY DEF IInv, Finished
<1>2. n \in Nat /\ o \in Nat /\ n + o \in 0..MinDistance
  BY <1>1, Sizes
<1>3. FullOrder = n + o
  BY DEF FullOrder
<1>4. \A k \in 0..o : errorLocator.coeff[k] \in Elements
  <2>1. \A k \in 0..o : k \in 0..MinDistance
    BY <1>2, Sizes
  <2>. QED
    BY <2>1 DEF Typed, Locators, Coefficients
<1>5. erased \in Seq(Powers)
  BY DEF Typed, Errors
<1>6. erasureLocator \in [0..n -> Elements]
  BY <1>5, ErasureLocatorType, Zenon
<1>. HIDE DEF erasureLocator
<1>7. PolyMul(erasureLocator, n, errorLocator.coeff, o, n + o) \in [0..(n + o) -> Elements]
  <2>1. \A k \in 0..n : erasureLocator[k] \in Elements
    BY <1>6
  <2>2. n + o \in Nat
    BY <1>2
  <2>. HIDE DEF n, o
  <2>. QED
    BY <1>2, <1>4, <2>1, <2>2, PolyMulType
<1>8. FullLocator = IF n = 0 THEN errorLocator.coeff
                    ELSE PolyMul(erasureLocator, n, errorLocator.coeff, o, n + o)
  BY <1>3 DEF FullLocator, erasureLocator
<1>. HIDE DEF n, o
<1>9. CASE n = 0
  <2>1. n + o = o
    BY <1>2, <1>9
  <2>. QED
    BY <1>2, <1>3, <1>4, <1>8, <1>9, <2>1
<1>10. CASE n # 0
  BY <1>2, <1>3, <1>7, <1>8, <1>10
<1>. QED
  BY <1>9, <1>10

LEMMA ErrorValueType ==
  ASSUME IInv, Typed, phase = "correcting", FullOrder > 0, NEW root \in 1..FieldMax
  PROVE  ErrorValue(root) \in Elements
<1>. DEFINE lut == ElementExp[root]
            derivative == Derivative(FullLocator, FullOrder)
<1>1. lut \in [0..(MinDistance - 1) -> 1..FieldMax]
  <2>1. root \in Elements /\ root # 0
    BY FieldTypes
  <2>2. ElementExp[root] = BuildExpLut(root, MinDistance - 1)
    BY <2>1 DEF ElementExp
  <2>. QED
    BY <2>1, <2>2, Sizes, BuildExpLutType, ZenonT(60)
<1>2. FullOrder \in 0..MinDistance /\ \A k \in 0..FullOrder : FullLocator[k] \in Elements
  BY FullLocatorType
<1>. HIDE DEF lut
<1>3. \A k \in 0..(MinDistance - 1) : lut[k] \in 0..FieldMax
  BY <1>1, FieldTypes
<1>4. EvalLut(ErrorEvaluator, MinDistance - 1, lut) \in Elements
  <2>1. \A k \in 0..(MinDistance - 1) : syndromeCopy[k] \in Elements
    BY DEF Typed, Received
  <2>2. FullOrder \in Nat
    BY <1>2, Sizes
  <2>3. ErrorEvaluator \in [0..(MinDistance - 1) -> Elements]
    BY <1>2, <2>1, <2>2, Sizes, PolyMulType DEF ErrorEvaluator
  <2>. QED
    BY <1>3, <2>3, Sizes, EvalLutType
<1>5. EvalLut(derivative, FullOrder - 1, lut) \in Elements
  <2>1. FullOrder - 1 \in Nat /\ \A k \in 0..(FullOrder - 1) : k \in 0..(MinDistance - 1) /\ k + 1 \in 0..FullOrder
    BY <1>2, Sizes
  <2>2. \A k \in 0..(FullOrder - 1) : derivative[k] \in Elements
    <3>1. \A k \in 0..(FullOrder - 1) : derivative[k] = SumOf(FullLocator[k + 1], k + 1)
      BY DEF Derivative
    <3>. HIDE DEF derivative
    <3>2. \A k \in 0..(FullOrder - 1) : SumOf(FullLocator[k + 1], k + 1) \in Elements
      BY <1>2, <2>1, FieldTypes DEF SumOf
    <3>. QED
      BY <3>1, <3>2
  <2>. HIDE DEF derivative
  <2>. QED
    BY <1>3, <2>1, <2>2, EvalLutType
<1>6. Pow(root, FirstConsecutiveRoot - 1) \in Elements
  <2>1. root \in Elements /\ FirstConsecutiveRoot - 1 \in {0, 1}
    BY FieldTypes DEF FirstConsecutiveRoot
  <2>. QED
    BY <2>1, PowType, FieldTypes
<1>. HIDE DEF derivative
<1>7. Div(EvalLut(ErrorEvaluator, MinDistance - 1, lut), EvalLut(derivative, FullOrder - 1, lut))
        \in Elements
  BY <1>4, <1>5, ArithmeticTypes
<1>. QED
  BY <1>6, <1>7, ArithmeticTypes DEF ErrorValue, lut, derivative

\* The block is corrected, at locations that are indices of it.
LEMMA CorrectTypes ==
  ASSUME IInv, Typed, Correct
  PROVE  Typed'
<1>. DEFINE fresh(k) == k < FullOrder /\ errorRoots[k] # 0
<1>1. phase = "correcting"
  BY DEF Correct
<1>2. FullOrder \in 0..MinDistance /\ FullOrder \in Nat
  BY <1>1, FullLocatorType, Sizes
<1>3. ASSUME NEW k \in 0..(MinDistance - 1), fresh(k)
      PROVE  errorRoots[k] \in 1..FieldMax /\ FullOrder > 0
  <2>1. k \in 0..(2 * MinDistance - 1)
    BY Sizes
  <2>2. errorRoots[k] \in Elements /\ errorRoots[k] # 0
    BY <1>3, <2>1 DEF Typed, Errors
  <2>3. FullOrder > 0
    BY <1>2, <1>3, Sizes
  <2>. QED
    BY <2>2, <2>3, FieldTypes, Zenon
<1>4. errorLocations' \in [0..(MinDistance - 1) -> Powers \cup Junk]
  <2>1. errorLocations' =
          [k \in 0..(MinDistance - 1) |->
             IF fresh(k) THEN Location(errorRoots[k]) ELSE errorLocations[k]]
    BY DEF Correct, Typed, Errors
  <2>. HIDE DEF fresh
  <2>2. \A k \in 0..(MinDistance - 1) : fresh(k) => Location(errorRoots[k]) \in Powers
    BY <1>3, LocationType
  <2>. QED
    BY <2>1, <2>2 DEF Typed, Errors
<1>5. errorVals' \in [0..(MinDistance - 1) -> Elements]
  <2>1. errorVals' =
          [k \in 0..(MinDistance - 1) |->
             IF fresh(k) THEN ErrorValue(errorRoots[k]) ELSE errorVals[k]]
    BY DEF Correct, Typed, Errors
  <2>. HIDE DEF fresh
  <2>2. \A k \in 0..(MinDistance - 1) : fresh(k) => ErrorValue(errorRoots[k]) \in Elements
    BY <1>1, <1>3, ErrorValueType
  <2>. QED
    BY <2>1, <2>2 DEF Typed, Errors
<1>6. receivedPolynomial' \in [Powers -> Elements]
  <2>. DEFINE term(p) == [k \in 0..(MinDistance - 1) |->
                            IF errorLocations'[k] = p THEN errorVals'[k] ELSE 0]
  <2>1. ASSUME NEW p \in Powers PROVE Add(receivedPolynomial[p], Sum(FullOrder, term(p))) \in Elements
    <3>1. ASSUME NEW k \in 0..(FullOrder - 1) PROVE term(p)[k] \in Elements
      <4>1. k \in 0..(MinDistance - 1)
        BY <1>2, Sizes
      <4>. QED
        BY <1>5, <4>1, FieldTypes
    <3>. HIDE DEF term
    <3>2. Sum(FullOrder, term(p)) \in Elements
      BY <1>2, <3>1, SumType
    <3>3. receivedPolynomial[p] \in Elements
      BY DEF Typed, Received
    <3>. QED
      BY <3>2, <3>3, FieldTypes
  <2>2. receivedPolynomial' = [p \in Powers |-> Add(receivedPolynomial[p], Sum(FullOrder, term(p)))]
    BY DEF Correct, Typed, Errors
  <2>. HIDE DEF term
  <2>. QED
    BY <2>1, <2>2
<1>7. /\ phase' = "returned" /\ syndromes' = syndromeCopy /\ code' = ReturnOf(MessageLength)
      /\ UNCHANGED <<rs, script, locators, errorRoots, registers, erased, syndromeCopy>>
  BY DEF Correct
<1>8. Received'
  BY <1>6, <1>7 DEF Typed, Received
<1>9. Locators'
  BY <1>7 DEF Typed, Locators, locators, registers
<1>10. Errors'
  BY <1>4, <1>5, <1>7 DEF Typed, Errors
<1>11. Counters'
  BY <1>7, ReturnOfType DEF Typed, Counters, registers
<1>. QED
  BY <1>8, <1>9, <1>10, <1>11 DEF Typed

LEMMA TypedNext == IInv /\ Typed /\ [Next]_vars => Typed'
<1>. SUFFICES ASSUME IInv, Typed, [Next]_vars PROVE Typed'
  OBVIOUS
<1>1. CASE InitRs \/ DestroyRs
  BY <1>1 DEF InitRs, DestroyRs, Typed, Received, Locators, Errors, Counters,
              block, locators, errors, registers, call
<1>2. CASE RsEncode
  BY <1>2, EncodeTypes DEF IInv
<1>3. CASE ReceiveClean \/ ReceiveDamaged
  <2>1. script \in Seq(Calls) /\ script # <<>>
    BY <1>3 DEF IInv, ReceiveClean, ReceiveDamaged
  <2>. QED
    BY <1>3, <2>1, ReceiveTypes
<1>4. CASE Describes \/ Lengthen \/ Adjust
  BY <1>4, IterationTypes
<1>5. CASE FactorizeFails \/ Factorize
  BY <1>5, FactorizeTypes
<1>6. CASE Correct
  BY <1>6, CorrectTypes
<1>7. CASE UNCHANGED vars
  BY <1>7 DEF vars, Typed, Received, Locators, Errors, Counters,
              block, locators, errors, registers, call
<1>. QED
  BY <1>1, <1>2, <1>3, <1>4, <1>5, <1>6, <1>7 DEF Next, RsDecode

-----------------------------------------------------------------------------
(* What the search for the error locator finds *)

\* the errors found so far, and no more: a polynomial of order numerrors ...
Monic ==
  /\ errorLocator.coeff[0] = 1
  /\ \A k \in (numerrors + 1)..MinDistance : errorLocator.coeff[k] = 0

\* ... that the syndromes follow
Fits ==
  \A k \in numerrors..(i - 1) : Against(errorLocator.coeff, numerrors, syndromes, k) = 0

\* the one put aside was wrong delayLength iterations before, by lastDiscrepancy
LastFailed ==
  /\ lastDiscrepancy \in Nonzero
  /\ numerrors = 0 => lastErrorLocator.order = 0
  /\ numerrors # 0 =>
       /\ \A k \in lastErrorLocator.order..(i - delayLength - 1) :
            Against(lastErrorLocator.coeff, lastErrorLocator.order, syndromes, k) = 0
       /\ Against(lastErrorLocator.coeff, lastErrorLocator.order, syndromes, i - delayLength)
            = lastDiscrepancy

\* n numbers of s are too many for the recurrence a of length l
Refuted(a, l, s, n) == \E k \in l..(n - 1) : Against(a, l, s, k) # 0

NoneBelow(m, s, n) ==
  \A l \in 0..(m - 1) : \A a \in [0..l -> Elements] : a[0] = 1 => Refuted(a, l, s, n)

NoneShorter == NoneBelow(numerrors, syndromes, i)

Tracking == phase = "locating" => Monic /\ Fits /\ LastFailed /\ NoneShorter

\* The numbers of an iteration.
LEMMA Numbers ==
  ASSUME IInv, More
  PROVE  /\ MinDistance \in Nat /\ i \in Nat /\ i < MinDistance
         /\ numerrors \in Nat /\ lastErrorLocator.order \in Nat
         /\ delayLength \in Nat /\ delayLength > 0
         /\ i + 1 = numerrors + lastErrorLocator.order + delayLength
         /\ Top = i + 1 - numerrors
<1>1. Balance /\ i \in 0..(MinDistance - Len(erased)) /\ Len(erased) \in 0..MinDistance
      /\ i < MinDistance - Len(erased)
  BY DEF IInv, Searching, More
<1>2. /\ numerrors \in Nat /\ delayLength \in Nat \ {0} /\ lastErrorLocator.order \in Nat
      /\ i + 1 = numerrors + lastErrorLocator.order + delayLength
  BY <1>1 DEF Balance
<1>3. MinDistance \in Nat
  BY Sizes, Zenon
<1>4. i \in Nat /\ i < MinDistance
  BY <1>1, <1>3
<1>5. lastErrorLocator.order + delayLength = i + 1 - numerrors
  BY <1>2, <1>4
<1>. QED
  BY <1>2, <1>3, <1>4, <1>5 DEF Top

LEMMA Contents ==
  ASSUME Typed
  PROVE  /\ \A k \in 0..(MinDistance - 1) : syndromes[k] \in Elements
         /\ \A k \in 0..MinDistance : errorLocator.coeff[k] \in Elements
                                      /\ lastErrorLocator.coeff[k] \in Elements
         /\ lastDiscrepancy \in Elements
BY DEF Typed, Received, Locators, Coefficients

\* The discrepancy is what the locator is wrong by at the power i.
LEMMA DiscrepancyIs ==
  ASSUME IInv, Typed, More, Monic
  PROVE  Discrepancy = Against(errorLocator.coeff, numerrors, syndromes, i)
<1>1. \A j \in 0..numerrors : j \in 0..MinDistance /\ i - j \in 0..(MinDistance - 1)
  BY Numbers
<1>2. Readable(errorLocator.coeff, numerrors, syndromes, i)
  BY <1>1, Contents DEF Readable
<1>3. numerrors \in Nat /\ i \in Int
  BY Numbers
<1>. QED
  BY <1>2, <1>3, AgainstHead DEF Monic, Discrepancy

\* The correction is the last locator, delayLength powers up.
LEMMA CorrectedAgainst ==
  ASSUME IInv, Typed, More, Monic, LastFailed,
         NEW n \in Nat, numerrors <= n, Top <= n, NEW k \in n..i
  PROVE  Against(Corrected, n, syndromes, k) =
           Add(Against(errorLocator.coeff, numerrors, syndromes, k),
               Mul(Div(Discrepancy, lastDiscrepancy),
                   Against(lastErrorLocator.coeff, lastErrorLocator.order, syndromes,
                           k - delayLength)))
<1>. DEFINE a == errorLocator.coeff
            b == lastErrorLocator.coeff
            o == lastErrorLocator.order
            m == delayLength
            q == Div(Discrepancy, lastDiscrepancy)
            c == [j \in 0..n |-> Correction(j)]
<1>1. /\ m \in Nat /\ o \in Nat /\ m + o <= n /\ k \in Int /\ numerrors \in 0..n
      /\ \A j \in 0..n : j \in 0..MinDistance /\ k - j \in 0..(MinDistance - 1)
      /\ \A j \in 0..o : j \in 0..MinDistance
      /\ \A j \in (numerrors + 1)..n : j \in (numerrors + 1)..MinDistance
  BY Numbers
<1>2. Discrepancy \in Elements /\ lastDiscrepancy \in Nonzero /\ q \in Elements
  BY DiscrepancyType, DivLaws DEF LastFailed
<1>3. Back(syndromes, n, k)
  BY <1>1, Contents DEF Back
<1>4. Over(b, o)
  BY <1>1, Contents DEF Over
<1>5. Shifted(c, n, m, q, b, o)
  BY <1>2, <1>4, DivLaws DEF Correction, Shifted, Over
<1>6. \A j \in 0..n : c[j] \in Elements
  BY <1>2, <1>4, <1>5, ArithmeticTypes, FieldTypes DEF Shifted, Over
<1>7. \A j \in 0..n : a[j] \in Elements
  BY <1>1, Contents
<1>8. \A j \in 0..n : Corrected[j] = Add(a[j], c[j])
  BY <1>1 DEF Corrected
<1>9. \A j \in (numerrors + 1)..n : a[j] = 0
  BY <1>1 DEF Monic
<1>. HIDE DEF a, b, o, m, q, c
<1>10. Readable(a, n, syndromes, k) /\ Readable(c, n, syndromes, k)
  BY <1>3, <1>6, <1>7 DEF Readable, Back
<1>11. Against(Corrected, n, syndromes, k)
         = Add(Against(a, n, syndromes, k), Against(c, n, syndromes, k))
  BY <1>8, <1>10, AgainstSum
<1>12. Against(a, n, syndromes, k) = Against(a, numerrors, syndromes, k)
  BY <1>1, <1>9, <1>10, AgainstTail
<1>13. Against(c, n, syndromes, k) = Mul(q, Against(b, o, syndromes, k - m))
  BY <1>1, <1>2, <1>3, <1>4, <1>5, AgainstShift
<1>. QED
  BY <1>11, <1>12, <1>13 DEF a, b, o, m, q

LEMMA CorrectedShape ==
  ASSUME IInv, Typed, More, Monic,
         NEW n \in Nat, numerrors <= n, Top <= n
  PROVE  /\ Corrected[0] = 1
         /\ \A k \in (n + 1)..MinDistance : Corrected[k] = 0
<1>1. \A k \in 0..MinDistance : Corrected[k] = Add(errorLocator.coeff[k], Correction(k))
  BY DEF Corrected
<1>2. Corrected[0] = 1
  <2>1. 0 \in 0..MinDistance /\ 0 - delayLength \notin 0..lastErrorLocator.order
    BY Numbers
  <2>2. Corrected[0] = Add(1, 0)
    BY <1>1, <2>1 DEF Correction, Monic
  <2>. QED
    BY <2>2, AddLaws, FieldTypes
<1>3. ASSUME NEW k \in (n + 1)..MinDistance PROVE Corrected[k] = 0
  <2>1. /\ k \in 0..MinDistance /\ k - delayLength \notin 0..lastErrorLocator.order
        /\ k \in (numerrors + 1)..MinDistance
    BY Numbers
  <2>2. Corrected[k] = Add(0, 0)
    BY <1>1, <2>1 DEF Correction, Monic
  <2>. QED
    BY <2>2, AddLaws, FieldTypes
<1>. QED
  BY <1>2, <1>3

\* The corrected locator fits what was read before and what is read now.
LEMMA CorrectedFits ==
  ASSUME IInv, Typed, More, Monic, Fits, LastFailed, numerrors # 0,
         NEW n \in Nat, numerrors <= n, Top <= n, NEW k \in n..i
  PROVE  Against(Corrected, n, syndromes, k) = 0
<1>. DEFINE q == Div(Discrepancy, lastDiscrepancy)
            b(j) == Against(lastErrorLocator.coeff, lastErrorLocator.order, syndromes, j)
            a(j) == Against(errorLocator.coeff, numerrors, syndromes, j)
<1>1. Against(Corrected, n, syndromes, k) = Add(a(k), Mul(q, b(k - delayLength)))
  BY CorrectedAgainst
<1>2. /\ Discrepancy \in Elements /\ q \in Elements
      /\ Mul(q, lastDiscrepancy) = Discrepancy
  BY DiscrepancyType, DivLaws DEF LastFailed
<1>3. CASE k = i
  <2>1. a(k) = Discrepancy
    BY <1>3, DiscrepancyIs
  <2>2. b(k - delayLength) = lastDiscrepancy
    BY <1>3 DEF LastFailed
  <2>. HIDE DEF q, a, b
  <2>. QED
    BY <1>1, <1>2, <2>1, <2>2, AddLaws
<1>4. CASE k # i
  <2>1. k \in numerrors..(i - 1)
        /\ k - delayLength \in lastErrorLocator.order..(i - delayLength - 1)
    BY <1>4, Numbers
  <2>2. a(k) = 0
    BY <2>1 DEF Fits
  <2>3. b(k - delayLength) = 0
    BY <2>1 DEF LastFailed
  <2>. HIDE DEF q, a, b
  <2>. QED
    BY <1>1, <1>2, <2>2, <2>3, AddLaws, ZeroLaws, FieldTypes
<1>. QED
  BY <1>3, <1>4

LEMMA StillRefuted ==
  ASSUME IInv, More, NoneShorter
  PROVE  NoneBelow(numerrors, syndromes, i + 1)
<1>1. ASSUME NEW l \in 0..(numerrors - 1), NEW a, Refuted(a, l, syndromes, i)
      PROVE  Refuted(a, l, syndromes, i + 1)
  <2>1. PICK k \in l..(i - 1) : Against(a, l, syndromes, k) # 0
    BY <1>1 DEF Refuted
  <2>2. k \in l..((i + 1) - 1)
    BY Numbers
  <2>. QED
    BY <2>1, <2>2 DEF Refuted
<1>. QED
  BY <1>1 DEF NoneShorter, NoneBelow

LEMMA DescribesFinds ==
  ASSUME IInv, Typed, Tracking, Describes
  PROVE  Tracking'
<1>1. /\ More /\ Discrepancy = 0 /\ delayLength' = delayLength + 1 /\ i' = i + 1
      /\ errorLocator' = errorLocator /\ lastErrorLocator' = lastErrorLocator
      /\ syndromes' = syndromes /\ numerrors' = numerrors
      /\ lastDiscrepancy' = lastDiscrepancy
  BY DEF Describes, locators, block
<1>2. Monic /\ Fits /\ LastFailed /\ NoneShorter
  BY <1>1 DEF Tracking, More
<1>3. Monic'
  BY <1>1, <1>2 DEF Monic
<1>4. Fits'
  <2>1. Against(errorLocator.coeff, numerrors, syndromes, i) = 0
    BY <1>1, <1>2, DiscrepancyIs
  <2>2. \A k \in numerrors..((i + 1) - 1) : k = i \/ k \in numerrors..(i - 1)
    BY <1>1, Numbers
  <2>3. \A k \in numerrors..((i + 1) - 1) :
          Against(errorLocator.coeff, numerrors, syndromes, k) = 0
    BY <1>2, <2>1, <2>2 DEF Fits
  <2>. QED
    BY <1>1, <2>3 DEF Fits
<1>5. LastFailed'
  <2>1. (i + 1) - (delayLength + 1) = i - delayLength
    BY <1>1, Numbers
  <2>. QED
    BY <1>1, <1>2, <2>1 DEF LastFailed
<1>6. NoneShorter'
  BY <1>1, <1>2, StillRefuted DEF NoneShorter
<1>. QED
  BY <1>3, <1>4, <1>5, <1>6 DEF Tracking

LEMMA AdjustFinds ==
  ASSUME IInv, Typed, Tracking, Adjust
  PROVE  Tracking'
<1>1. /\ More /\ 2 * numerrors > i /\ delayLength' = delayLength + 1 /\ i' = i + 1
      /\ errorLocator'.coeff = Corrected /\ lastErrorLocator' = lastErrorLocator
      /\ syndromes' = syndromes /\ numerrors' = numerrors
      /\ lastDiscrepancy' = lastDiscrepancy
  BY DEF Adjust, block, Poly
<1>2. Monic /\ Fits /\ LastFailed /\ NoneShorter
  BY <1>1 DEF Tracking, More
<1>3. numerrors \in Nat /\ Top <= numerrors /\ numerrors # 0 /\ numerrors <= numerrors
  BY <1>1, Numbers
<1>4. Monic'
  BY <1>1, <1>2, <1>3, CorrectedShape DEF Monic
<1>5. Fits'
  <2>1. \A k \in numerrors..((i + 1) - 1) : k \in numerrors..i
    BY <1>1, Numbers
  <2>2. \A k \in numerrors..((i + 1) - 1) : Against(Corrected, numerrors, syndromes, k) = 0
    BY <1>1, <1>2, <1>3, <2>1, CorrectedFits
  <2>. QED
    BY <1>1, <2>2 DEF Fits
<1>6. LastFailed'
  <2>1. (i + 1) - (delayLength + 1) = i - delayLength
    BY <1>1, Numbers
  <2>. QED
    BY <1>1, <1>2, <2>1 DEF LastFailed
<1>7. NoneShorter'
  BY <1>1, <1>2, StillRefuted DEF NoneShorter
<1>. QED
  BY <1>4, <1>5, <1>6, <1>7 DEF Tracking

LEMMA LengthenFinds ==
  ASSUME IInv, Typed, Tracking, Lengthen
  PROVE  Tracking'
<1>1. /\ More /\ 2 * numerrors <= i /\ delayLength' = 1 /\ i' = i + 1 /\ Discrepancy # 0
      /\ errorLocator'.coeff = Corrected
      /\ lastErrorLocator'.coeff =
           [k \in 0..MinDistance |->
              IF k <= Top THEN errorLocator.coeff[k] ELSE lastErrorLocator.coeff[k]]
      /\ lastErrorLocator'.order = errorLocator.order
      /\ syndromes' = syndromes /\ numerrors' = i + 1 - numerrors
      /\ lastDiscrepancy' = Discrepancy
  BY DEF Lengthen, block, Poly, RestartDelay
<1>2. Monic /\ Fits /\ LastFailed /\ NoneShorter
  BY <1>1 DEF Tracking, More
<1>3. /\ numerrors \in Nat /\ i \in Nat /\ i + 1 - numerrors \in Nat /\ i < MinDistance
      /\ Top = i + 1 - numerrors /\ Top <= i + 1 - numerrors /\ numerrors <= i + 1 - numerrors
      /\ numerrors <= Top /\ i + 1 - numerrors > 0 /\ numerrors \in 0..i
      /\ errorLocator.order = numerrors
  <2>1. errorLocator.order = numerrors
    BY <1>1 DEF IInv, Searching, Balance, More
  <2>. QED
    BY <1>1, <2>1, Numbers, SMTT(30)
<1>4. Monic'
  BY <1>1, <1>2, <1>3, CorrectedShape, ZenonT(60) DEF Monic
<1>5. Fits'
  <2>1. ASSUME NEW k \in (i + 1 - numerrors)..((i + 1) - 1)
        PROVE  Against(Corrected, i + 1 - numerrors, syndromes, k) = 0
    <3>1. k \in (i + 1 - numerrors)..i /\ numerrors # 0
      BY <1>3
    <3>. QED
      BY <1>1, <1>2, <1>3, <3>1, CorrectedFits
  <2>. QED
    BY <1>1, <2>1 DEF Fits
<1>6. LastFailed'
  <2>1. \A k \in 0..numerrors : lastErrorLocator'.coeff[k] = errorLocator.coeff[k]
    <3>1. ASSUME NEW k \in 0..numerrors PROVE k \in 0..MinDistance /\ k <= Top
      <4>1. MinDistance \in Nat
        BY <1>1, Numbers
      <4>. QED
        BY <1>3, <4>1
    <3>. QED
      BY <1>1, <3>1
  <2>2. \A k : Against(lastErrorLocator'.coeff, numerrors, syndromes, k)
                 = Against(errorLocator.coeff, numerrors, syndromes, k)
    <3>1. \A k : [j \in 0..numerrors |-> Mul(lastErrorLocator'.coeff[j], syndromes[k - j])]
                   = [j \in 0..numerrors |-> Mul(errorLocator.coeff[j], syndromes[k - j])]
      BY <2>1
    <3>. QED
      BY <3>1 DEF Against
  <2>3. Discrepancy \in Nonzero
    BY <1>1, DiscrepancyType, ZeroLaws
  <2>4. (i + 1) - 1 = i /\ (i + 1) - 1 - 1 = i - 1
    BY <1>3
  <2>5. \A k \in numerrors..((i + 1) - 1 - 1) :
          Against(lastErrorLocator'.coeff, numerrors, syndromes, k) = 0
    BY <1>2, <2>2, <2>4 DEF Fits
  <2>6. Against(lastErrorLocator'.coeff, numerrors, syndromes, (i + 1) - 1) = Discrepancy
    BY <1>1, <1>2, <2>2, <2>4, DiscrepancyIs
  <2>7. numerrors' # 0 /\ lastErrorLocator'.order = numerrors /\ i' = i + 1
        /\ delayLength' = 1 /\ syndromes' = syndromes /\ lastDiscrepancy' = Discrepancy
    BY <1>1, <1>3
  <2>. QED
    BY <2>3, <2>5, <2>6, <2>7 DEF LastFailed
<1>7. NoneShorter'
  <2>. DEFINE m == i + 1 - numerrors
  <2>1. ASSUME NEW l \in 0..(m - 1), NEW a \in [0..l -> Elements], a[0] = 1
        PROVE  Refuted(a, l, syndromes, i + 1)
    <3>. SUFFICES ASSUME ~Refuted(a, l, syndromes, i + 1) PROVE FALSE
      OBVIOUS
    <3>1. \A k \in l..i : Against(a, l, syndromes, k) = 0
      <4>1. \A k \in l..i : k \in l..((i + 1) - 1)
        BY <1>3
      <4>. QED
        BY <4>1 DEF Refuted
    <3>2. Against(errorLocator.coeff, numerrors, syndromes, i) # 0
      BY <1>1, <1>2, DiscrepancyIs
    <3>3. \A k \in numerrors..(i - 1) :
            Against(errorLocator.coeff, numerrors, syndromes, k) = 0
      BY <1>2 DEF Fits
    <3>4. /\ \A j \in 0..i : syndromes[j] \in Elements
          /\ \A j \in 0..numerrors : errorLocator.coeff[j] \in Elements
          /\ \A j \in 0..l : a[j] \in Elements
      <4>1. /\ \A j \in 0..i : j \in 0..(MinDistance - 1)
            /\ \A j \in 0..numerrors : j \in 0..MinDistance
        <5>1. i \in Nat /\ MinDistance \in Nat /\ i < MinDistance /\ numerrors \in 0..i
          BY <1>1, <1>3, Numbers, Zenon
        <5>. QED
          BY <5>1
      <4>. QED
        BY <4>1, Contents
    <3>5. numerrors + l > i
      <4>1. i \in Nat /\ numerrors \in 0..i /\ l \in Nat
        BY <1>3, <2>1
      <4>. QED
        BY <2>1, <3>1, <3>2, <3>3, <3>4, <4>1, Massey, Zenon
    <3>. QED
      BY <1>3, <3>5
  <2>2. NoneBelow(m, syndromes, i + 1)
    <3>. HIDE DEF m
    <3>. QED
      BY <2>1 DEF NoneBelow
  <2>. QED
    BY <1>1, <2>2 DEF NoneShorter
<1>. QED
  BY <1>4, <1>5, <1>6, <1>7 DEF Tracking

LEMMA ReceiveTracks ==
  ASSUME ReceiveDamaged
  PROVE  Tracking'
<1>1. /\ errorLocator' = One /\ lastErrorLocator' = One
      /\ numerrors' = 0 /\ i' = 0 /\ delayLength' = 1 /\ lastDiscrepancy' = 1
  BY DEF ReceiveDamaged
<1>2. One.order = 0 /\ One.coeff[0] = 1 /\ \A k \in (0 + 1)..MinDistance : One.coeff[k] = 0
  <2>1. One.order = 0 /\ One.coeff = [Zeros(MinDistance) EXCEPT ![0] = 1]
    BY DEF One, Poly
  <2>2. 0 \in 0..MinDistance /\ \A k \in (0 + 1)..MinDistance : k \in 0..MinDistance /\ k # 0
    BY Sizes
  <2>. QED
    BY <2>1, <2>2 DEF Zeros
<1>3. Monic'
  BY <1>1, <1>2 DEF Monic
<1>4. Fits'
  BY <1>1 DEF Fits
<1>5. LastFailed'
  BY <1>1, <1>2, FieldTypes DEF LastFailed, Nonzero
<1>6. NoneShorter'
  BY <1>1 DEF NoneShorter, NoneBelow
<1>. QED
  BY <1>3, <1>4, <1>5, <1>6 DEF Tracking

LEMMA TrackingNext == IInv /\ Typed /\ Tracking /\ [Next]_vars => Tracking'
<1>. SUFFICES ASSUME IInv, Typed, Tracking, [Next]_vars PROVE Tracking'
  OBVIOUS
<1>1. CASE InitRs \/ DestroyRs
  BY <1>1 DEF InitRs, DestroyRs, Tracking, Monic, Fits, LastFailed, NoneShorter,
              block, locators, registers
<1>2. CASE RsEncode \/ ReceiveClean \/ FactorizeFails \/ Factorize \/ Correct
  BY <1>2 DEF RsEncode, ReceiveClean, FactorizeFails, Factorize, Correct, Tracking
<1>3. CASE ReceiveDamaged
  BY <1>3, ReceiveTracks
<1>4. CASE Describes \/ Lengthen \/ Adjust
  BY <1>4, DescribesFinds, LengthenFinds, AdjustFinds
<1>5. CASE UNCHANGED vars
  BY <1>5 DEF vars, Tracking, Monic, Fits, LastFailed, NoneShorter, block, locators, registers
<1>. QED
  BY <1>1, <1>2, <1>3, <1>4, <1>5 DEF Next, RsDecode

LEMMA Tracks == Spec => []Tracking
<1>1. Init => Tracking
  BY DEF Init, Tracking
<1>. QED
  BY <1>1, Inductive, TypedInit, TypedNext, TrackingNext, PTL DEF Spec

\* The recurrence as the code computes it.
LEMMA FollowsIs ==
  ASSUME IInv, Typed, phase = "locating", NEW l \in Nat, NEW a, Over(a, l), a[0] = 1
  PROVE  \A k \in l..(i - 1) :
           Against(a, l, syndromes, k) =
             Add(syndromes[k], Sum(l, [j \in 0..(l - 1) |-> Mul(a[j + 1], syndromes[k - j - 1])]))
<1>1. i \in 0..(MinDistance - Len(erased)) /\ Len(erased) \in 0..MinDistance
  BY DEF IInv, Searching
<1>2. ASSUME NEW k \in l..(i - 1)
      PROVE  Readable(a, l, syndromes, k) /\ k \in Int
  <2>1. \A j \in 0..l : k - j \in 0..(MinDistance - 1)
    BY <1>1, Sizes
  <2>2. k \in Int
    BY <1>1, Sizes
  <2>. QED
    BY <2>1, <2>2, Contents DEF Readable, Over
<1>. QED
  BY <1>2, AgainstHead

-----------------------------------------------------------------------------
(* What the syndromes say of the noise *)

\* a block is sent without syndromes, and has those of the noise when it arrives
Explained ==
  /\ phase = "encoded" => Vanishes(sent)
  /\ phase = "locating" =>
       /\ noise \in [Powers -> Elements]
       /\ erased = <<>> =>
            \A k \in 0..(MinDistance - 1) : syndromes[k] = SyndromeOf(noise, k)

LEMMA ReceiveExplains ==
  ASSUME IInv, Typed, Explained, ReceiveDamaged
  PROVE  Explained'
<1>1. /\ phase = "encoded" /\ script # <<>> /\ script \in Seq(Calls)
      /\ sent \in [Powers -> Elements] /\ Vanishes(sent)
  BY DEF ReceiveDamaged, IInv, Typed, Received, Explained
<1>2. /\ noise' = Head(script).noise
      /\ receivedPolynomial' = [p \in Powers |-> Add(sent[p], noise'[p])]
      /\ syndromeCopy' = Syndromes(receivedPolynomial')
      /\ syndromes' = ModifiedSyndromes(syndromeCopy', erased')
      /\ phase' = "locating"
  BY DEF ReceiveDamaged
<1>3. noise' \in [Powers -> Elements]
  <2>1. Head(script) \in Calls
    BY <1>1
  <2>. QED
    BY <1>2, <2>1 DEF Calls
<1>4. \A k \in 0..(MinDistance - 1) : syndromeCopy'[k] = SyndromeOf(noise', k)
  BY <1>1, <1>2, <1>3, SyndromesAreNoise
<1>5. ASSUME erased' = <<>> PROVE syndromes' = syndromeCopy'
  <2>1. Len(erased') = 0
    BY <1>5
  <2>. QED
    BY <1>2, <2>1 DEF ModifiedSyndromes
<1>6. phase' # "encoded"
  BY <1>2
<1>. QED
  BY <1>3, <1>4, <1>5, <1>6 DEF Explained

LEMMA ExplainedNext == IInv /\ Typed /\ Explained /\ [Next]_vars => Explained'
<1>. SUFFICES ASSUME IInv, Typed, Explained, [Next]_vars PROVE Explained'
  OBVIOUS
<1>1. CASE InitRs \/ DestroyRs
  BY <1>1 DEF InitRs, DestroyRs, Explained, block, call
<1>2. CASE RsEncode
  <2>1. Head(script) \in Calls
    BY <1>2 DEF RsEncode, IInv
  <2>2. Head(script).msg \in [0..(MessageLength - 1) -> Elements]
    BY <2>1 DEF Calls
  <2>3. sent' = Encoded(Head(script).msg) /\ phase' = "encoded"
    BY <1>2 DEF RsEncode
  <2>4. Vanishes(sent')
    BY <2>2, <2>3, EncodedVanishes
  <2>. QED
    BY <2>3, <2>4 DEF Explained
<1>3. CASE ReceiveDamaged
  BY <1>3, ReceiveExplains
<1>4. CASE ReceiveClean \/ FactorizeFails \/ Factorize \/ Correct
  BY <1>4 DEF ReceiveClean, FactorizeFails, Factorize, Correct, Explained
<1>5. CASE Describes \/ Lengthen \/ Adjust
  BY <1>5 DEF Describes, Lengthen, Adjust, Explained, block, call
<1>6. CASE UNCHANGED vars
  BY <1>6 DEF vars, Explained, block, call
<1>. QED
  BY <1>1, <1>2, <1>3, <1>4, <1>5, <1>6 DEF Next, RsDecode

\* Without erasures the locator is never longer than the damage.
LEMMA NoLongerThanDamage ==
  ASSUME IInv, Typed, Tracking, Explained, phase = "locating", erased = <<>>
  PROVE  Cardinality(Damaged) \in Nat /\ numerrors <= Cardinality(Damaged)
<1>. DEFINE l == Cardinality(Damaged)
<1>1. Damaged = DamagedBelow(noise, BlockLength)
  BY DEF Damaged, DamagedBelow, Powers
<1>2. noise \in [Powers -> Elements]
      /\ \A k \in 0..(MinDistance - 1) : syndromes[k] = SyndromeOf(noise, k)
  BY DEF Explained
<1>3. l \in Nat /\ \E a : Locates(a, l, noise, BlockLength)
  <2>1. BlockLength \in 0..BlockLength
    BY FieldTypes DEF BlockLength
  <2>. QED
    BY <1>1, <1>2, <2>1, LocatorExists
<1>4. PICK a : Locates(a, l, noise, BlockLength)
  BY <1>3
<1>. HIDE DEF l
<1>5. FollowsAll(a, l, syndromes, MinDistance)
  BY <1>2, <1>3, <1>4, NoiseFollows
<1>6. NoneBelow(numerrors, syndromes, i) /\ numerrors \in Nat /\ i \in 0..MinDistance
  BY Sizes DEF Tracking, NoneShorter, Typed, Counters
<1>7. ASSUME l < numerrors PROVE FALSE
  <2>1. l \in 0..(numerrors - 1)
    BY <1>3, <1>6, <1>7
  <2>2. Refuted(a, l, syndromes, i)
    BY <1>4, <1>6, <2>1 DEF NoneBelow, Locates
  <2>3. \A k \in l..(i - 1) : k \in l..(MinDistance - 1)
    BY <1>3, <1>6, Sizes
  <2>. QED
    BY <1>5, <2>2, <2>3 DEF Refuted, FollowsAll
<1>8. numerrors <= l
  BY <1>3, <1>6, <1>7
<1>. QED
  BY <1>3, <1>8 DEF l

-----------------------------------------------------------------------------
(* What the search for the error locator ends with *)

\* the first n of t are the syndromes of f
SameSyndromes(t, f, n) == \A k \in 0..(n - 1) : t[k] = SyndromeOf(f, k)

\* Below n a sequence cannot be told from the syndromes.
LEMMA AgainstSyndromes ==
  ASSUME NEW f \in [Powers -> Elements], NEW n \in 0..MinDistance, NEW t,
         SameSyndromes(t, f, n), NEW l \in Nat, NEW a, NEW k \in l..(n - 1)
  PROVE  Against(a, l, t, k)
           = Against(a, l, [j \in 0..(MinDistance - 1) |-> SyndromeOf(f, j)], k)
<1>. DEFINE s == [j \in 0..(MinDistance - 1) |-> SyndromeOf(f, j)]
<1>1. \A j \in 0..l : k - j \in 0..(n - 1) /\ k - j \in 0..(MinDistance - 1)
  BY Sizes
<1>2. \A j \in 0..l : t[k - j] = s[k - j]
  BY <1>1 DEF SameSyndromes
<1>. HIDE DEF s
<1>3. [j \in 0..l |-> Mul(a[j], t[k - j])] = [j \in 0..l |-> Mul(a[j], s[k - j])]
  BY <1>2
<1>. QED
  BY <1>3 DEF Against, s

\* The locator is no longer than the number of symbols that explain the syndromes.
LEMMA ShortLocator ==
  ASSUME NEW f \in [Powers -> Elements], NEW n \in 0..MinDistance, NEW t,
         SameSyndromes(t, f, n), NEW m \in Nat, NoneBelow(m, t, n)
  PROVE  Cardinality(Support(f)) \in Nat /\ m <= Cardinality(Support(f))
<1>. DEFINE l == Cardinality(Support(f))
            s == [j \in 0..(MinDistance - 1) |-> SyndromeOf(f, j)]
<1>1. Support(f) = DamagedBelow(f, BlockLength)
  BY DEF Support, DamagedBelow, Powers
<1>2. l \in Nat /\ \E a : Locates(a, l, f, BlockLength)
  <2>1. BlockLength \in 0..BlockLength
    BY BlockSize
  <2>. QED
    BY <1>1, <2>1, LocatorExists
<1>3. PICK a : Locates(a, l, f, BlockLength)
  BY <1>2
<1>. HIDE DEF l
<1>4. FollowsAll(a, l, s, MinDistance)
  <2>1. \A k \in 0..(MinDistance - 1) : s[k] = SyndromeOf(f, k)
    OBVIOUS
  <2>. HIDE DEF s
  <2>. QED
    BY <1>2, <1>3, <2>1, NoiseFollows
<1>5. ASSUME l < m PROVE FALSE
  <2>1. l \in 0..(m - 1)
    BY <1>2, <1>5
  <2>2. Refuted(a, l, t, n)
    BY <1>3, <2>1 DEF NoneBelow, Locates
  <2>3. PICK k \in l..(n - 1) : Against(a, l, t, k) # 0
    BY <2>2 DEF Refuted
  <2>4. Against(a, l, t, k) = Against(a, l, s, k)
    BY <1>2, AgainstSyndromes
  <2>5. k \in l..(MinDistance - 1)
    BY <1>2, Sizes
  <2>. HIDE DEF s
  <2>. QED
    BY <1>4, <2>3, <2>4, <2>5 DEF FollowsAll
<1>. QED
  BY <1>2, <1>5 DEF l

\* With two syndromes for every symbol, the roots are exactly the symbols'.
LEMMA LocatorRoots ==
  ASSUME NEW f \in [Powers -> Elements], NEW n \in 0..MinDistance, NEW t,
         SameSyndromes(t, f, n), NEW l \in Nat, NEW a, Over(a, l), a[0] = 1,
         l <= Cardinality(Support(f)), 2 * Cardinality(Support(f)) <= n,
         FollowsAll(a, l, t, n)
  PROVE  /\ l = Cardinality(Support(f))
         /\ \A p \in Powers : At(a, l, RootOf(p)) = 0 <=> p \in Support(f)
<1>. DEFINE P == Support(f)
            s == [j \in 0..(MinDistance - 1) |-> SyndromeOf(f, j)]
            h == Filtered(f, a, l)
<1>1. P \in SUBSET Powers /\ IsFiniteSet(P) /\ Cardinality(P) \in Nat
  BY PowersFinite DEF Support
<1>2. h \in [Powers -> Elements]
  BY FilteredType
<1>3. ASSUME NEW k \in l..(n - 1) PROVE SyndromeOf(h, k) = 0
  <2>1. k \in l..(MinDistance - 1)
    BY Sizes
  <2>2. Against(a, l, t, k) = 0
    BY DEF FollowsAll
  <2>3. Against(a, l, t, k) = Against(a, l, s, k)
    BY AgainstSyndromes
  <2>4. \A j \in 0..(MinDistance - 1) : s[j] = SyndromeOf(f, j)
    OBVIOUS
  <2>. HIDE DEF s, P
  <2>5. Against(a, l, s, k) = SyndromeOf(h, k)
    BY <2>1, <2>4, FilteredSyndromes
  <2>. QED
    BY <2>2, <2>3, <2>5
<1>4. \A p \in Powers : h[p] = Mul(f[p], At(a, l, RootOf(p))) /\ At(a, l, RootOf(p)) \in Elements
                         /\ f[p] \in Elements
  BY RootsAre, AtType DEF Filtered
<1>5. Support(h) \subseteq P
  BY <1>4, ZeroLaws DEF Support
<1>. HIDE DEF h, P, s
<1>6. Cardinality(Support(h)) <= Cardinality(P) /\ Cardinality(Support(h)) \in Nat
  <2>1. Support(h) \in SUBSET Powers
    BY DEF Support
  <2>. QED
    BY <1>1, <1>5, <2>1, FS_Subset, PowersFinite
<1>7. \A p \in Powers : h[p] = 0
  <2>1. l + Cardinality(Support(h)) <= n
    BY <1>1, <1>6 DEF P
  <2>. QED
    BY <1>2, <1>3, <2>1, OnlyZero
<1>8. RootsIn(a, l, P)
  <2>1. ASSUME NEW p \in P PROVE At(a, l, RootOf(p)) = 0
    <3>1. p \in Powers /\ f[p] # 0
      BY DEF P, Support
    <3>. QED
      BY <1>4, <1>7, <3>1, NoZeroDivisors
  <2>. QED
    BY <2>1 DEF RootsIn
<1>9. Some(a, l)
  <2>1. 0 \in 0..l
    OBVIOUS
  <2>. QED
    BY <2>1 DEF Some
<1>10. l = Cardinality(P)
  <2>1. Few(l)
    BY FewRoots
  <2>2. Cardinality(P) <= l
    BY <1>1, <1>8, <1>9, <2>1 DEF Few
  <2>. QED
    BY <1>1, <2>2 DEF P
<1>11. ASSUME NEW p \in Powers PROVE At(a, l, RootOf(p)) = 0 <=> p \in P
  BY <1>1, <1>8, <1>9, <1>10, NoOtherRoot DEF RootsIn
<1>. QED
  BY <1>10, <1>11 DEF P

-----------------------------------------------------------------------------
(* The roots that are found are those of the locator *)

\* r lists the roots of the powers P, each once, at from to last.
Lists(r, from, last, P) ==
  /\ \A k \in from..last : \E p \in P : r[k] = RootOf(p)
  /\ \A p \in P : \E k \in from..last : r[k] = RootOf(p)
  /\ \A j, k \in from..last : r[j] = r[k] => j = k

LEMMA ListsCount ==
  ASSUME NEW n \in Nat, NEW r, NEW P \in SUBSET Powers, Lists(r, 1, n, P)
  PROVE  Cardinality(P) = n
<1>. DEFINE f == [k \in 1..n |-> CHOOSE p \in P : r[k] = RootOf(p)]
<1>1. \A k \in 1..n : f[k] \in P /\ r[k] = RootOf(f[k])
  BY DEF Lists
<1>2. f = [k \in 1..n |-> f[k]]
  OBVIOUS
<1>. HIDE DEF f
<1>3. f \in [1..n -> P] /\ DOMAIN f = 1..n
  BY <1>1, <1>2
<1>4. \A j, k \in 1..n : f[j] = f[k] => j = k
  <2>1. ASSUME NEW j \in 1..n, NEW k \in 1..n, f[j] = f[k] PROVE j = k
    <3>1. r[j] = r[k]
      BY <1>1, <2>1
    <3>. QED
      BY <3>1 DEF Lists
  <2>. QED
    BY <2>1
<1>5. \A p \in P : \E k \in 1..n : f[k] = p
  <2>1. ASSUME NEW p \in P PROVE \E k \in 1..n : f[k] = p
    <3>1. PICK k \in 1..n : r[k] = RootOf(p)
      BY DEF Lists
    <3>2. RootOf(f[k]) = RootOf(p) /\ f[k] \in Powers /\ p \in Powers
      BY <1>1, <3>1
    <3>. QED
      BY <3>2, RootsDiffer
  <2>. QED
    BY <2>1
<1>6. f \in Surjection(1..n, P)
  BY <1>3, <1>5 DEF Surjection
<1>7. f \in Injection(1..n, P)
  BY <1>3, <1>4 DEF Injection, IsInjective
<1>8. ExistsBijection(1..n, P)
  BY <1>6, <1>7 DEF ExistsBijection, Bijection
<1>9. IsFiniteSet(1..n) /\ Cardinality(1..n) = n
  BY FS_Interval
<1>. QED
  BY <1>8, <1>9, FS_Bijection

\* the symbols whose roots the locator has
RootSet == {p \in Powers : At(errorLocator.coeff, errorLocator.order, RootOf(p)) = 0}

LEMMA IsRootIs ==
  ASSUME Typed, errorLocator.order \in 0..(MinDistance - 1), errorLocator.coeff[0] = 1,
         NEW x \in Elements, NEW behind
  PROVE  IsRoot(x, behind) <=> \E p \in RootSet : x = RootOf(p)
<1>. DEFINE c == errorLocator.coeff
            o == errorLocator.order
            lut == BuildExpLut(x, MinDistance - 1)
<1>1. /\ o \in Nat /\ o < MinDistance /\ MinDistance - 1 \in Nat /\ o \in 0..(MinDistance - 1)
      /\ 0 \in 0..o /\ Over(c, o) /\ c[0] = 1
  <2>1. \A k \in 0..o : k \in 0..MinDistance
    BY Sizes
  <2>. QED
    BY <2>1, Sizes DEF Typed, Locators, Coefficients, Over
<1>2. /\ \A k \in 0..o : LocatorLog[k] = Log[c[k]]
      /\ \A k \in 0..o : c[k] \in Elements /\ (Log[c[k]] = 0 <=> c[k] = 0)
  <2>1. \A k \in 0..o : LocatorLog[k] = Log[c[k]]
    BY DEF LocatorLog
  <2>2. \A y \in Elements : Log[y] = 0 <=> y = 0
    BY LogType, FieldTypes
  <2>. QED
    BY <1>1, <2>1, <2>2 DEF Over
<1>3. IsRoot(x, behind) <=> EvalLogLut(LocatorLog, o, lut) = 0
  BY <1>1 DEF IsRoot, ElementExp
<1>. HIDE DEF c, o, lut
<1>4. CASE x = 0
  <2>1. lut[0] = 0
    <3>1. 0 \in 0..(MinDistance - 1)
      BY <1>1
    <3>. QED
      BY <1>1, <1>4, <3>1, BuildExpLutType, FieldTypes DEF lut
  <2>2. LocatorLog[0] = Log[1] /\ Log[1] # 0 /\ Exp[Log[1]] = 1
    BY <1>1, <1>2, LogType, FieldTypes
  <2>3. EvalLogLut(LocatorLog, o, lut) = 1
    BY <2>1, <2>2 DEF EvalLogLut
  <2>4. \A p \in RootSet : RootOf(p) \in Nonzero /\ x \notin Nonzero
    BY <1>4, RootsAre, ZeroLaws DEF RootSet
  <2>. QED
    BY <1>3, <2>3, <2>4
<1>5. CASE x # 0
  <2>1. x \in Nonzero
    BY <1>5, ZeroLaws
  <2>2. lut[0] = Log[1] /\ Log[1] # 0
    BY <1>1, <2>1, LutRecursion, LogType, FieldTypes DEF Logarithms, lut
  <2>3. ASSUME NEW k \in 0..o
        PROVE  (IF LocatorLog[k] = 0 THEN 0 ELSE MulLogElement(LocatorLog[k], lut[k]))
                 = (IF c[k] = 0 THEN 0 ELSE MulLogElement(Log[c[k]], lut[k]))
    BY <1>2
  <2>4. EvalLogLut(LocatorLog, o, lut) = EvalLut(c, o, lut)
    BY <2>2, <2>3 DEF EvalLogLut, EvalLut
  <2>5. EvalLut(c, o, lut) = At(c, o, x)
    BY <1>1, <2>1, EvalLutAt DEF lut
  <2>6. PICK p \in Powers : x = RootOf(p)
    BY <2>1, EveryRoot
  <2>7. (\E q \in RootSet : x = RootOf(q)) <=> p \in RootSet
    BY <2>6, RootsDiffer DEF RootSet
  <2>. QED
    BY <1>3, <2>4, <2>5, <2>6, <2>7 DEF RootSet, c, o
<1>. QED
  BY <1>4, <1>5

\* What the search has found among the first n elements.
Collected(v, n, behind) ==
  /\ \A m \in 1..Len(v) : v[m] \in 0..(n - 1) /\ IsRoot(v[m], behind)
  /\ \A x \in 0..(n - 1) : IsRoot(x, behind) => \E m \in 1..Len(v) : v[m] = x
  /\ \A j, m \in 1..Len(v) : v[j] = v[m] => j = m

LEMMA CollectedStep ==
  ASSUME NEW n \in Nat \ {0}, NEW behind, NEW v \in Seq(Elements), Collected(v, n - 1, behind)
  PROVE  Collected(IF IsRoot(n - 1, behind) THEN Append(v, n - 1) ELSE v, n, behind)
<1>1. CASE ~IsRoot(n - 1, behind)
  <2>1. \A m \in 1..Len(v) : v[m] \in 0..(n - 1) /\ IsRoot(v[m], behind)
    BY DEF Collected
  <2>2. ASSUME NEW x \in 0..(n - 1), IsRoot(x, behind) PROVE \E m \in 1..Len(v) : v[m] = x
    <3>1. x \in 0..((n - 1) - 1)
      <4>1. x # n - 1
        BY <1>1, <2>2
      <4>. QED
        BY <4>1
    <3>. QED
      BY <2>2, <3>1 DEF Collected
  <2>. QED
    BY <1>1, <2>1, <2>2 DEF Collected
<1>2. CASE IsRoot(n - 1, behind)
  <2>. DEFINE w == Append(v, n - 1)
  <2>1. /\ Len(w) = Len(v) + 1 /\ Len(v) \in Nat /\ w[Len(v) + 1] = n - 1
        /\ \A m \in 1..Len(v) : w[m] = v[m] /\ m \in 1..Len(w)
        /\ \A m \in 1..Len(w) : m \in 1..Len(v) \/ m = Len(v) + 1
        /\ Len(v) + 1 \in 1..Len(w)
    OBVIOUS
  <2>. HIDE DEF w
  <2>2. \A m \in 1..Len(w) : w[m] \in 0..(n - 1) /\ IsRoot(w[m], behind)
    <3>1. \A m \in 1..Len(v) : w[m] \in 0..(n - 1) /\ IsRoot(w[m], behind)
      BY <2>1 DEF Collected
    <3>2. w[Len(v) + 1] \in 0..(n - 1) /\ IsRoot(w[Len(v) + 1], behind)
      BY <1>2, <2>1
    <3>. QED
      BY <2>1, <3>1, <3>2
  <2>3. ASSUME NEW x \in 0..(n - 1), IsRoot(x, behind) PROVE \E m \in 1..Len(w) : w[m] = x
    <3>1. CASE x = n - 1
      BY <2>1, <3>1
    <3>2. CASE x # n - 1
      <4>1. x \in 0..((n - 1) - 1)
        BY <3>2
      <4>2. PICK m \in 1..Len(v) : v[m] = x
        BY <2>3, <4>1 DEF Collected
      <4>. QED
        BY <2>1, <4>2
    <3>. QED
      BY <3>1, <3>2
  <2>4. ASSUME NEW j \in 1..Len(w), NEW m \in 1..Len(w), w[j] = w[m] PROVE j = m
    <3>1. \A k \in 1..Len(v) : w[k] # n - 1
      <4>1. \A k \in 1..Len(v) : v[k] \in 0..((n - 1) - 1)
        BY DEF Collected
      <4>2. \A y \in 0..((n - 1) - 1) : y # n - 1
        OBVIOUS
      <4>. QED
        BY <2>1, <4>1, <4>2
    <3>2. CASE j \in 1..Len(v) /\ m \in 1..Len(v)
      BY <2>1, <2>4, <3>2 DEF Collected
    <3>3. CASE j \notin 1..Len(v) \/ m \notin 1..Len(v)
      BY <2>1, <2>4, <3>1, <3>3
    <3>. QED
      BY <3>2, <3>3
  <2>5. Collected(w, n, behind)
    BY <2>2, <2>3, <2>4 DEF Collected
  <2>. QED
    BY <1>2, <2>5 DEF w
<1>. QED
  BY <1>1, <1>2

LEMMA FoundCollects ==
  ASSUME NEW behind
  PROVE  Collected(Found(behind), FieldMax + 1, behind) /\ Found(behind) \in Seq(Elements)
<1>. DEFINE n == FieldMax + 1
<1>1. PICK s : Searches(s, behind) /\ Found(behind) = s[n]
  BY FoundRecursion
<1>. DEFINE T == {k \in 0..n : Collected(s[k], k, behind)}
<1>2. n \in Nat
  BY FieldTypes
<1>3. 0 \in T
  <2>1. s[0] = <<>> /\ 0 \in 0..n
    BY <1>1, <1>2 DEF Searches
  <2>2. Collected(<<>>, 0, behind)
    BY DEF Collected
  <2>. QED
    BY <2>1, <2>2
<1>4. ASSUME NEW k \in 1..n, k - 1 \in T PROVE k \in T
  <2>1. /\ k \in 0..n /\ k - 1 \in 0..n /\ k \in Nat \ {0} /\ k \in 1..(FieldMax + 1)
        /\ k - 1 \in 0..(FieldMax + 1)
    BY <1>2
  <2>2. /\ s[k] = IF IsRoot(k - 1, behind) THEN Append(s[k - 1], k - 1) ELSE s[k - 1]
        /\ s[k - 1] \in Seq(Elements)
    BY <1>1, <2>1 DEF Searches
  <2>3. Collected(s[k - 1], k - 1, behind)
    BY <1>4
  <2>4. Collected(s[k], k, behind)
    <3>1. Collected(IF IsRoot(k - 1, behind) THEN Append(s[k - 1], k - 1) ELSE s[k - 1], k, behind)
      BY <2>1, <2>2, <2>3, CollectedStep
    <3>. QED
      BY <2>2, <3>1, Zenon
  <2>. QED
    BY <2>1, <2>4
<1>5. \A k \in 0..n : k \in T
  <2>. HIDE DEF T, n
  <2>. QED
    BY <1>2, <1>3, <1>4, UpTo
<1>6. Found(behind) \in Seq(Elements)
  BY <1>1, <1>2 DEF Searches
<1>. QED
  BY <1>1, <1>2, <1>5, <1>6

LEMMA FoundLists ==
  ASSUME Typed, errorLocator.order \in 0..(MinDistance - 1), errorLocator.coeff[0] = 1, NEW behind
  PROVE  /\ Lists(Found(behind), 1, Len(Found(behind)), RootSet)
         /\ Len(Found(behind)) = Cardinality(RootSet)
         /\ Found(behind) \in Seq(Elements)
<1>. DEFINE f == Found(behind)
<1>1. Collected(f, FieldMax + 1, behind) /\ f \in Seq(Elements) /\ Len(f) \in Nat
  BY FoundCollects
<1>. HIDE DEF f
<1>2. 0..((FieldMax + 1) - 1) = Elements
  BY FieldTypes DEF Elements
<1>3. \A x \in Elements : IsRoot(x, behind) <=> \E p \in RootSet : x = RootOf(p)
  BY IsRootIs
<1>4. \A k \in 1..Len(f) : \E p \in RootSet : f[k] = RootOf(p)
  BY <1>1, <1>2, <1>3 DEF Collected
<1>5. ASSUME NEW p \in RootSet PROVE \E k \in 1..Len(f) : f[k] = RootOf(p)
  <2>1. RootOf(p) \in Elements
    BY RootsAre, ZeroLaws DEF RootSet
  <2>2. IsRoot(RootOf(p), behind)
    BY <1>3, <2>1
  <2>. QED
    BY <1>1, <1>2, <2>1, <2>2 DEF Collected
<1>6. Lists(f, 1, Len(f), RootSet)
  BY <1>1, <1>4, <1>5 DEF Lists, Collected
<1>7. Cardinality(RootSet) = Len(f)
  <2>1. RootSet \in SUBSET Powers
    BY DEF RootSet
  <2>. QED
    BY <1>1, <1>6, <2>1, ListsCount
<1>. QED
  BY <1>1, <1>6, <1>7 DEF f

-----------------------------------------------------------------------------
(* The correction *)

LEMMA DivBack ==
  ASSUME NEW x \in Elements, NEW z \in Nonzero
  PROVE  Div(Mul(x, z), z) = x
<1>1. x \in Elements /\ z \in Elements
  BY ZeroLaws
<1>2. Mul(x, z) \in Elements
  BY <1>1, ArithmeticTypes
<1>3. Div(Mul(x, z), z) \in Elements /\ Mul(Div(Mul(x, z), z), z) = Mul(x, z)
  BY <1>2, DivLaws
<1>. DEFINE y == Div(Mul(x, z), z)
<1>. HIDE DEF y
<1>4. y \in Elements /\ Mul(y, z) = Mul(x, z)
  BY <1>3 DEF y
<1>5. Mul(z, Add(y, x)) = Add(Mul(z, y), Mul(z, x))
  BY <1>1, <1>4, Distributes
<1>6. Mul(z, y) = Mul(y, z) /\ Mul(z, x) = Mul(x, z)
  BY <1>1, <1>4, ZeroLaws
<1>7. Mul(z, Add(y, x)) = 0
  BY <1>2, <1>4, <1>5, <1>6, AddLaws
<1>8. Add(y, x) \in Elements
  BY <1>1, <1>4, FieldTypes
<1>9. Add(y, x) = 0
  BY <1>1, <1>7, <1>8, NoZeroDivisors, ZeroLaws
<1>10. Add(y, Add(x, x)) = Add(Add(y, x), x) /\ Add(x, x) = 0 /\ Add(y, 0) = y /\ Add(0, x) = x
  BY <1>1, <1>4, AddLaws
<1>11. y = x
  BY <1>9, <1>10
<1>. QED
  BY <1>11 DEF y

\* What the code computes for the value of an error is Forney's.
LEMMA ErrorValueIs ==
  ASSUME IInv, Typed, phase = "correcting", FullOrder > 0,
         NEW q \in Powers, NEW v \in Elements,
         Forneys(v, FullLocator, FullOrder, syndromeCopy, q)
  PROVE  ErrorValue(RootOf(q)) = v
<1>. DEFINE r == RootOf(q)
            l == FullOrder
            a == FullLocator
            s == syndromeCopy
            d == Derivative(a, l)
<1>1. r \in Nonzero /\ r \in Elements
  BY RootsAre, ZeroLaws
<1>2. /\ l \in Nat /\ l - 1 \in 0..(MinDistance - 1) /\ MinDistance - 1 \in 0..(MinDistance - 1)
      /\ l - 1 \in Nat /\ MinDistance - 1 \in Nat
  <2>1. l \in 0..MinDistance
    BY FullLocatorType
  <2>. QED
    BY <2>1, Sizes
<1>3. Over(a, l)
  BY FullLocatorType DEF Over
<1>4. Over(s, MinDistance - 1)
  BY DEF Typed, Received, Over
<1>5. Over(d, l - 1)
  <2>1. \A k \in 0..(l - 1) : k + 1 \in 0..l
    BY <1>2
  <2>2. \A k \in 0..(l - 1) : d[k] = SumOf(a[k + 1], k + 1)
    BY DEF Derivative
  <2>. HIDE DEF d, a, l
  <2>3. \A k \in 0..(l - 1) : SumOf(a[k + 1], k + 1) \in Elements
    BY <1>3, <2>1, FieldTypes DEF SumOf, Over
  <2>. QED
    BY <2>2, <2>3 DEF Over
<1>6. /\ At(d, l - 1, r) \in Nonzero
      /\ At(Evaluator(a, l, s), MinDistance - 1, r) = Mul(v, At(d, l - 1, r))
  BY DEF Forneys
<1>7. ErrorEvaluator = Evaluator(a, l, s)
  BY DEF ErrorEvaluator, Evaluator
<1>8. ElementExp[r] = BuildExpLut(r, MinDistance - 1)
  BY <1>1 DEF ElementExp
<1>9. ErrorValue(r) =
        Mul(Pow(r, FirstConsecutiveRoot - 1),
            Div(EvalLut(Evaluator(a, l, s), MinDistance - 1, BuildExpLut(r, MinDistance - 1)),
                EvalLut(d, l - 1, BuildExpLut(r, MinDistance - 1))))
  BY <1>7, <1>8 DEF ErrorValue
<1>10. Pow(r, FirstConsecutiveRoot - 1) = 1
  <2>1. FirstConsecutiveRoot - 1 = 0
    BY DEF FirstConsecutiveRoot
  <2>. QED
    BY <1>1, <2>1, PowOne
<1>. HIDE DEF r, l, a, s, d
<1>11. Over(Evaluator(a, l, s), MinDistance - 1)
  BY <1>2, <1>3, <1>4, EvaluatorType
<1>12. EvalLut(Evaluator(a, l, s), MinDistance - 1, BuildExpLut(r, MinDistance - 1))
         = At(Evaluator(a, l, s), MinDistance - 1, r)
  BY <1>1, <1>2, <1>11, EvalLutAt
<1>13. EvalLut(d, l - 1, BuildExpLut(r, MinDistance - 1)) = At(d, l - 1, r)
  BY <1>1, <1>2, <1>5, EvalLutAt
<1>14. Div(Mul(v, At(d, l - 1, r)), At(d, l - 1, r)) = v
  BY <1>6, DivBack
<1>15. ErrorValue(r) = Mul(1, v)
  BY <1>6, <1>9, <1>10, <1>12, <1>13, <1>14
<1>16. ErrorValue(r) = v
  BY <1>15, OneTimes
<1>. QED
  BY <1>16 DEF r

\* Where the errors and the erasures are, and nowhere else, the code adds.
LEMMA Corrects ==
  ASSUME IInv, Typed, Correct, NEW Q \in SUBSET Powers, NEW v \in [Powers -> Elements],
         \A p \in Powers \ Q : v[p] = 0,
         Lists(errorRoots, 0, FullOrder - 1, Q),
         \A q \in Q : ErrorValue(RootOf(q)) = v[q]
  PROVE  receivedPolynomial' = [p \in Powers |-> Add(receivedPolynomial[p], v[p])]
<1>1. phase = "correcting"
  BY DEF Correct
<1>2. FullOrder \in 0..MinDistance /\ FullOrder \in Nat
  BY <1>1, FullLocatorType, Sizes
<1>. DEFINE term(p) == [k \in 0..(MinDistance - 1) |->
                          IF errorLocations'[k] = p THEN errorVals'[k] ELSE 0]
<1>3. receivedPolynomial' = [p \in Powers |-> Add(receivedPolynomial[p], Sum(FullOrder, term(p)))]
  BY DEF Correct, Typed, Errors
<1>4. ASSUME NEW k \in 0..(FullOrder - 1), NEW q \in Q, errorRoots[k] = RootOf(q)
      PROVE  errorLocations'[k] = q /\ errorVals'[k] = v[q] /\ k \in 0..(MinDistance - 1)
  <2>1. k \in 0..(MinDistance - 1) /\ k < FullOrder
    BY <1>2, Sizes
  <2>2. q \in Powers /\ RootOf(q) # 0
    BY RootsAre, ZeroLaws
  <2>3. errorLocations' = [j \in 0..(MinDistance - 1) |->
                             IF j < FullOrder /\ errorRoots[j] # 0
                             THEN Location(errorRoots[j]) ELSE errorLocations[j]]
    BY DEF Correct, Typed, Errors
  <2>4. errorVals' = [j \in 0..(MinDistance - 1) |->
                        IF j < FullOrder /\ errorRoots[j] # 0
                        THEN ErrorValue(errorRoots[j]) ELSE errorVals[j]]
    BY DEF Correct, Typed, Errors
  <2>5. errorLocations'[k] = Location(RootOf(q))
    BY <1>4, <2>1, <2>2, <2>3
  <2>6. errorVals'[k] = ErrorValue(RootOf(q))
    BY <1>4, <2>1, <2>2, <2>4
  <2>. QED
    BY <2>1, <2>2, <2>5, <2>6, LocationIs
<1>5. ASSUME NEW p \in Powers PROVE Sum(FullOrder, term(p)) = v[p]
  <2>1. \A k \in 0..(FullOrder - 1) : \E q \in Q : errorRoots[k] = RootOf(q)
    BY DEF Lists
  <2>2. ASSUME NEW k \in 0..(FullOrder - 1)
        PROVE  \E q \in Q : errorRoots[k] = RootOf(q) /\ term(p)[k] = IF q = p THEN v[p] ELSE 0
    <3>1. PICK q \in Q : errorRoots[k] = RootOf(q)
      BY <2>1
    <3>2. errorLocations'[k] = q /\ errorVals'[k] = v[q] /\ k \in 0..(MinDistance - 1)
      BY <1>4, <3>1
    <3>3. term(p)[k] = IF q = p THEN v[p] ELSE 0
      BY <3>2
    <3>. QED
      BY <3>1, <3>3
  <2>3. v[p] \in Elements /\ 0 \in Elements
    BY FieldTypes
  <2>. DEFINE t == term(p)
  <2>4. \A k \in 0..(FullOrder - 1) :
          \E q \in Q : errorRoots[k] = RootOf(q) /\ t[k] = IF q = p THEN v[p] ELSE 0
    BY <2>2
  <2>. HIDE DEF t
  <2>5. Terms(FullOrder, t)
    BY <2>3, <2>4 DEF Terms
  <2>6. CASE p \in Q
    <3>1. PICK m \in 0..(FullOrder - 1) : errorRoots[m] = RootOf(p)
      BY <2>6 DEF Lists
    <3>2. \A q \in Q : RootOf(q) = RootOf(p) => q = p
      BY RootsDiffer
    <3>3. t[m] = v[p]
      BY <2>4, <3>1, <3>2
    <3>4. ASSUME NEW k \in 0..(FullOrder - 1), k # m PROVE t[k] = 0
      <4>1. PICK q \in Q : errorRoots[k] = RootOf(q) /\ t[k] = IF q = p THEN v[p] ELSE 0
        BY <2>4
      <4>2. errorRoots[k] = errorRoots[m] => k = m
        BY DEF Lists
      <4>. QED
        BY <3>1, <3>4, <4>1, <4>2
    <3>5. Sum(FullOrder, t) = t[m]
      BY <1>2, <2>5, <3>4, SumSingle
    <3>. QED
      BY <3>3, <3>5 DEF t
  <2>7. CASE p \notin Q
    <3>1. \A k \in 0..(FullOrder - 1) : t[k] = 0
      BY <2>4, <2>7
    <3>2. Sum(FullOrder, t) = 0
      BY <1>2, <3>1, SumZeros
    <3>. QED
      BY <2>7, <3>2 DEF t
  <2>. QED
    BY <2>6, <2>7
<1>. HIDE DEF term
<1>. QED
  BY <1>3, <1>5

-----------------------------------------------------------------------------
(* The locator of erasures and errors *)

\* the decoder's types where it corrects
LEMMA CorrectingTypes ==
  ASSUME IInv, Typed, phase = "correcting"
  PROVE  /\ errorLocator.order \in Nat /\ Len(erased) \in Nat
         /\ FullOrder = Len(erased) + errorLocator.order /\ FullOrder \in 0..MinDistance
         /\ Over(errorLocator.coeff, errorLocator.order)
         /\ Over(FullLocator, FullOrder)
         /\ erased \in Seq(Powers) /\ Erasures = Named(erased)
<1>1. errorLocator.order \in 0..(MinDistance - Len(erased)) /\ Len(erased) \in 0..MinDistance
  BY DEF IInv, Finished
<1>2. errorLocator.order \in Nat /\ Len(erased) \in Nat
      /\ \A k \in 0..errorLocator.order : k \in 0..MinDistance
  BY <1>1, Sizes
<1>3. Over(errorLocator.coeff, errorLocator.order)
  BY <1>2, Contents DEF Over
<1>4. erased \in Seq(Powers)
  BY DEF Typed, Errors
<1>5. FullOrder \in 0..MinDistance /\ Over(FullLocator, FullOrder)
  BY FullLocatorType DEF Over
<1>. QED
  BY <1>2, <1>3, <1>4, <1>5 DEF FullOrder, Erasures, Named

\* Its value is that of its two factors.
LEMMA FullLocatorIs ==
  ASSUME IInv, Typed, phase = "correcting", NEW r \in Nonzero
  PROVE  At(FullLocator, FullOrder, r)
           = Mul(At(ErasureLocator(erased), Len(erased), r),
                 At(errorLocator.coeff, errorLocator.order, r))
<1>. DEFINE n == Len(erased)
            o == errorLocator.order
            a == ErasureLocator(erased)
            c == errorLocator.coeff
<1>1. n \in Nat /\ o \in Nat /\ FullOrder = n + o /\ Over(c, o) /\ erased \in Seq(Powers)
  BY CorrectingTypes
<1>2. Over(a, n)
  BY <1>1, ErasureLocatorIs
<1>3. FullLocator = IF n = 0 THEN c ELSE PolyMul(a, n, c, o, n + o)
  BY <1>1 DEF FullLocator, ErasureLocator
<1>4. At(c, o, r) \in Elements
  BY <1>1, AtType
<1>5. n = 0 => a[0] = 1
  <2>. DEFINE roots == [k \in 0..(n - 1) |-> RootsFromLocations(erased)[k + 1]]
  <2>1. a = FromRoots(roots, n)
    BY DEF ErasureLocator
  <2>2. n = 0 => \A k \in 0..(n - 1) : roots[k] \in Elements
    BY <1>1
  <2>. HIDE DEF roots, a, n
  <2>3. n = 0 => FromRoots(roots, n)[n] = 1
    BY <1>1, <2>2, FromRootsVanishes
  <2>. QED
    BY <2>1, <2>3
<1>. HIDE DEF n, o, a, c
<1>6. CASE n = 0
  <2>1. n + o = o
    BY <1>1, <1>6
  <2>2. At(FullLocator, FullOrder, r) = At(c, o, r)
    BY <1>1, <1>3, <1>6, <2>1
  <2>3. At(a, 0, r) = 1
    <3>. DEFINE w == PowerTable(r, 0)
                t == [j \in 0..0 |-> Mul(a[j], w[j])]
    <3>1. PowersOf(w, r, 0)
      BY PowerTableIs
    <3>2. w[0] = 1
      BY <3>1 DEF PowersOf
    <3>3. t[0] = Mul(1, 1) /\ Mul(1, 1) = 1 /\ 1 \in Elements
      BY <1>5, <1>6, <3>2, OneTimes, FieldTypes
    <3>4. At(a, 0, r) = Sum(0 + 1, t)
      BY DEF At, Value
    <3>. HIDE DEF t
    <3>5. Sum(1, t) = t[0]
      BY <3>3, SumOfOne
    <3>. QED
      BY <3>3, <3>4, <3>5
  <2>4. At(FullLocator, FullOrder, r) = Mul(At(a, n, r), At(c, o, r))
    BY <1>4, <1>6, <2>2, <2>3, OneTimes
  <2>. QED
    BY <2>4 DEF n, o, a, c
<1>7. CASE n # 0
  <2>1. At(PolyMul(a, n, c, o, n + o), n + o, r) = Mul(At(a, n, r), At(c, o, r))
    BY <1>1, <1>2, PolyMulValue
  <2>2. At(FullLocator, FullOrder, r) = Mul(At(a, n, r), At(c, o, r))
    BY <1>1, <1>3, <1>7, <2>1
  <2>. QED
    BY <2>2 DEF n, o, a, c
<1>. QED
  BY <1>6, <1>7

\* Fewer powers are roots than there are.
LEMMA SomeOtherPower ==
  ASSUME NEW Q \in SUBSET Powers, Cardinality(Q) <= MinDistance
  PROVE  \E p \in Powers : p \notin Q
<1>. SUFFICES ASSUME Powers \subseteq Q PROVE FALSE
  OBVIOUS
<1>1. Q = 0..(BlockLength - 1)
  BY Sizes
<1>2. 0 \in Int /\ BlockLength - 1 \in Int /\ BlockLength \in Nat /\ BlockLength = FieldMax
  BY Sizes, BlockSize
<1>3. Cardinality(0..(BlockLength - 1)) =
        IF 0 > BlockLength - 1 THEN 0 ELSE (BlockLength - 1) - 0 + 1
  BY <1>2, FS_Interval
<1>. QED
  BY <1>1, <1>2, <1>3, Sizes

\* what FullLocator is made for: its roots are those of erasures and errors
Everywhere(Q) ==
  /\ Q \in SUBSET Powers /\ Cardinality(Q) = FullOrder
  /\ RootsIn(FullLocator, FullOrder, Q) /\ Some(FullLocator, FullOrder)

LEMMA FullRoots ==
  ASSUME IInv, Typed, phase = "correcting",
         Cardinality(Erasures) = Len(erased), Cardinality(RootSet) = errorLocator.order,
         Erasures \cap RootSet = {}
  PROVE  Everywhere(Erasures \cup RootSet)
<1>. DEFINE Q == Erasures \cup RootSet
            n == Len(erased)
            a == ErasureLocator(erased)
<1>1. /\ n \in Nat /\ errorLocator.order \in Nat /\ FullOrder = n + errorLocator.order
      /\ FullOrder \in 0..MinDistance
      /\ Over(errorLocator.coeff, errorLocator.order) /\ Over(FullLocator, FullOrder)
      /\ erased \in Seq(Powers) /\ Erasures = Named(erased)
  BY CorrectingTypes
<1>2. Erasures \in SUBSET Powers /\ RootSet \in SUBSET Powers
  BY <1>1, ErasureLocatorIs DEF RootSet
<1>3. Q \in SUBSET Powers
  BY <1>2
<1>4. Cardinality(Q) = FullOrder
  <2>1. IsFiniteSet(Erasures) /\ IsFiniteSet(RootSet)
    BY <1>2, PowersFinite
  <2>2. Cardinality(Q) = Cardinality(Erasures) + Cardinality(RootSet) - Cardinality(Erasures \cap RootSet)
    BY <2>1, FS_Union
  <2>3. Cardinality(Erasures \cap RootSet) = 0
    BY FS_EmptySet
  <2>. QED
    BY <1>1, <2>2, <2>3
<1>5. \A p \in Powers :
        /\ RootOf(p) \in Nonzero
        /\ At(a, n, RootOf(p)) \in Elements
        /\ At(errorLocator.coeff, errorLocator.order, RootOf(p)) \in Elements
  BY <1>1, RootsAre, AtType, ErasureLocatorIs
<1>6. \A p \in Powers : At(a, n, RootOf(p)) = 0 <=> p \in Erasures
  <2>1. Over(a, n) /\ Some(a, n) /\ RootsIn(a, n, Erasures)
    BY <1>1, ErasureLocatorIs
  <2>. HIDE DEF a, n
  <2>2. ASSUME NEW p \in Powers, At(a, n, RootOf(p)) = 0 PROVE p \in Erasures
    <3>1. Cardinality(Erasures) = n
      BY DEF n
    <3>. QED
      BY <1>1, <1>2, <2>1, <2>2, <3>1, NoOtherRoot
  <2>3. ASSUME NEW p \in Erasures PROVE At(a, n, RootOf(p)) = 0
    BY <2>1 DEF RootsIn
  <2>. QED
    BY <2>2, <2>3
<1>7. \A p \in Powers : At(FullLocator, FullOrder, RootOf(p)) = 0 <=> p \in Q
  <2>1. SUFFICES ASSUME NEW p \in Powers
                 PROVE  At(FullLocator, FullOrder, RootOf(p)) = 0 <=> p \in Q
    OBVIOUS
  <2>2. At(FullLocator, FullOrder, RootOf(p))
          = Mul(At(a, n, RootOf(p)), At(errorLocator.coeff, errorLocator.order, RootOf(p)))
    BY <1>5, FullLocatorIs
  <2>3. p \in RootSet <=> At(errorLocator.coeff, errorLocator.order, RootOf(p)) = 0
    BY DEF RootSet
  <2>. HIDE DEF a, n
  <2>. QED
    BY <1>5, <1>6, <2>2, <2>3, NoZeroDivisors
<1>8. RootsIn(FullLocator, FullOrder, Q)
  BY <1>3, <1>7 DEF RootsIn
<1>. HIDE DEF Q, a, n
<1>9. Some(FullLocator, FullOrder)
  <2>1. PICK p \in Powers : p \notin Q
    BY <1>1, <1>3, <1>4, SomeOtherPower, Sizes
  <2>2. At(FullLocator, FullOrder, RootOf(p)) # 0
    BY <1>7, <2>1
  <2>3. SUFFICES ASSUME \A j \in 0..FullOrder : FullLocator[j] = 0 PROVE FALSE
    BY DEF Some
  <2>. DEFINE w == PowerTable(RootOf(p), FullOrder)
              t == [j \in 0..FullOrder |-> Mul(FullLocator[j], w[j])]
  <2>4. FullOrder \in Nat /\ RootOf(p) \in Nonzero /\ FullOrder + 1 \in Nat
        /\ \A j \in 0..((FullOrder + 1) - 1) : j \in 0..FullOrder
    BY <1>1, <1>5, Sizes
  <2>5. \A j \in 0..FullOrder : w[j] \in Elements
    BY <2>4, PowerTableIs, ZeroLaws
  <2>6. \A j \in 0..((FullOrder + 1) - 1) : t[j] = 0
    BY <2>3, <2>4, <2>5, ZeroLaws
  <2>7. At(FullLocator, FullOrder, RootOf(p)) = Sum(FullOrder + 1, t)
    BY DEF At, Value
  <2>. HIDE DEF t
  <2>8. Sum(FullOrder + 1, t) = 0
    BY <2>4, <2>6, SumZeros
  <2>. QED
    BY <2>2, <2>7, <2>8
<1>10. Everywhere(Q)
  BY <1>3, <1>4, <1>8, <1>9 DEF Everywhere
<1>. QED
  BY <1>10 DEF Q

-----------------------------------------------------------------------------
(* Erasures and errors in one list of roots *)

\* No symbol is named twice when there are as many as names.
LEMMA NamedOnce ==
  ASSUME NEW locations \in Seq(Powers), Cardinality(Named(locations)) = Len(locations)
  PROVE  \A j, k \in 1..Len(locations) : locations[j] = locations[k] => j = k
<1>. DEFINE n == Len(locations)
            S == Named(locations)
            f == [k \in 1..n |-> locations[k]]
<1>1. n \in Nat
  OBVIOUS
<1>2. f \in [1..n -> S] /\ DOMAIN f = 1..n
  BY Zenon DEF Named
<1>3. \A p \in S : \E k \in 1..n : f[k] = p
  BY Zenon DEF Named
<1>4. f \in Surjection(1..n, S)
  BY <1>2, <1>3 DEF Surjection
<1>5. IsFiniteSet(1..n) /\ Cardinality(1..n) = n
  <2>. HIDE DEF n, f, S
  <2>1. 1 \in Int /\ n \in Int
    BY <1>1
  <2>2. IsFiniteSet(1..n) /\ Cardinality(1..n) = IF 1 > n THEN 0 ELSE n - 1 + 1
    BY <2>1, FS_Interval
  <2>. QED
    BY <1>1, <2>2
<1>6. f \in Injection(1..n, S)
  <2>. HIDE DEF f
  <2>1. Cardinality(S) = n
    OBVIOUS
  <2>. HIDE DEF n, S
  <2>2. Cardinality(1..n) = Cardinality(S)
    BY <1>5, <2>1
  <2>. QED
    BY <1>4, <1>5, <2>2, FS_SurjSameCardinalityImpliesInj
<1>7. \A j, k \in 1..n : f[j] = f[k] => j = k
  <2>. HIDE DEF f, S
  <2>. QED
    BY <1>2, <1>6 DEF Injection, IsInjective
<1>. QED
  BY <1>7

LEMMA ListsJoin ==
  ASSUME NEW locations \in Seq(Powers), Cardinality(Named(locations)) = Len(locations),
         NEW r, \A k \in 0..(Len(locations) - 1) : r[k] = RootOf(locations[k + 1]),
         NEW P \in SUBSET Powers, Named(locations) \cap P = {}, NEW m \in Nat,
         Lists(r, Len(locations), Len(locations) + m - 1, P)
  PROVE  Lists(r, 0, Len(locations) + m - 1, Named(locations) \cup P)
<1>. DEFINE n == Len(locations)
            S == Named(locations)
            last == n + m - 1
<1>1. /\ n \in Nat /\ S \in SUBSET Powers
      /\ \A k \in 0..(n - 1) : k + 1 \in 1..n
      /\ \A k \in 1..n : k - 1 \in 0..(n - 1) /\ (k - 1) + 1 = k
  <2>1. n \in Nat /\ S \in SUBSET Powers
    BY ErasureLocatorIs
  <2>. HIDE DEF n, S
  <2>. QED
    BY <2>1
<1>2. /\ \A k \in 0..last : k \in 0..(n - 1) \/ k \in n..last
      /\ \A k \in 0..(n - 1) : k \in 0..last
      /\ \A k \in n..last : k \in 0..last
  <2>1. n \in Nat /\ m \in Nat
    BY <1>1
  <2>. HIDE DEF n
  <2>. QED
    BY <2>1
<1>3. \A k \in 0..(n - 1) : locations[k + 1] \in S /\ r[k] = RootOf(locations[k + 1])
  BY <1>1, Zenon DEF Named
<1>4. \A k \in n..last : \E p \in P : r[k] = RootOf(p)
  BY DEF Lists
<1>5. \A k \in 0..last : \E p \in S \cup P : r[k] = RootOf(p)
  BY <1>2, <1>3, <1>4
<1>6. ASSUME NEW p \in S \cup P PROVE \E k \in 0..last : r[k] = RootOf(p)
  <2>1. CASE p \in S
    <3>1. PICK k \in 1..n : locations[k] = p
      BY <2>1, Zenon DEF Named
    <3>2. r[k - 1] = RootOf(p) /\ k - 1 \in 0..last
      BY <1>1, <1>2, <1>3, <3>1
    <3>. QED
      BY <3>2
  <2>2. CASE p \in P
    BY <1>2, <2>2 DEF Lists
  <2>. QED
    BY <2>1, <2>2
<1>7. \A p, q \in Powers : RootOf(p) = RootOf(q) => p = q
  BY RootsDiffer
<1>8. ASSUME NEW j \in 0..(n - 1), NEW k \in n..last PROVE r[j] # r[k]
  <2>1. PICK p \in P : r[k] = RootOf(p)
    BY <1>4
  <2>2. r[j] = RootOf(locations[j + 1]) /\ locations[j + 1] \in S
    BY <1>3
  <2>. QED
    BY <1>1, <1>7, <2>1, <2>2
<1>9. ASSUME NEW j \in 0..last, NEW k \in 0..last, r[j] = r[k] PROVE j = k
  <2>1. CASE j \in 0..(n - 1) /\ k \in 0..(n - 1)
    <3>1. locations[j + 1] = locations[k + 1]
      BY <1>1, <1>3, <1>7, <1>9, <2>1
    <3>2. j + 1 = k + 1
      BY <1>1, <2>1, <3>1, NamedOnce
    <3>. QED
      BY <3>2
  <2>2. CASE j \in n..last /\ k \in n..last
    BY <1>9, <2>2 DEF Lists
  <2>. QED
    BY <1>2, <1>8, <1>9, <2>1, <2>2
<1>. QED
  BY <1>5, <1>6, <1>9 DEF Lists

\* Behind the erasures, the roots as they were found.
LEMMA StoredLists ==
  ASSUME IInv, Typed, errorLocator.order \in Nat,
         Len(erased) + errorLocator.order \in 0..MinDistance,
         NEW found \in Seq(Elements), Len(found) = errorLocator.order,
         NEW P, Lists(found, 1, Len(found), P)
  PROVE  /\ Lists(RootsStored(found), Len(erased), Len(erased) + errorLocator.order - 1, P)
         /\ \A k \in 0..(Len(erased) - 1) : RootsStored(found)[k] = errorRoots[k]
<1>. DEFINE n == Len(erased)
            o == errorLocator.order
            r == RootsStored(found)
            last == n + o - 1
<1>1. n \in Nat /\ o \in Nat /\ n + o <= MinDistance /\ MinDistance \in Nat /\ n \in 0..MinDistance
  <2>1. n \in 0..MinDistance
    BY DEF IInv
  <2>. QED
    BY <2>1, Sizes
<1>2. r = [k \in 0..(2 * MinDistance - 1) |->
             IF k - n \in 0..(Len(found) - 1) THEN found[(k - n) + 1]
             ELSE IF k - n \in 0..(o - 1) THEN 0
             ELSE errorRoots[k]]
  BY DEF RootsStored, Typed, Errors
<1>. HIDE DEF r
<1>3. \A k \in 0..(n - 1) : r[k] = errorRoots[k]
  <2>1. \A k \in 0..(n - 1) : k \in 0..(2 * MinDistance - 1)
          /\ k - n \notin 0..(Len(found) - 1) /\ k - n \notin 0..(o - 1)
    BY <1>1, Sizes
  <2>. HIDE DEF n
  <2>. QED
    BY <1>2, <2>1
<1>4. \A k \in n..last : (k - n) + 1 \in 1..o /\ r[k] = found[(k - n) + 1]
  <2>1. \A k \in n..last : k \in 0..(2 * MinDistance - 1) /\ k - n \in 0..(Len(found) - 1)
          /\ (k - n) + 1 \in 1..o
    BY <1>1, Sizes
  <2>. HIDE DEF n, o
  <2>. QED
    BY <1>2, <2>1
<1>5. \A m \in 1..o : (m + n) - 1 \in n..last /\ r[(m + n) - 1] = found[m]
  <2>1. \A m \in 1..o : (m + n) - 1 \in n..last /\ (((m + n) - 1) - n) + 1 = m
    BY <1>1
  <2>. HIDE DEF n, o, last
  <2>. QED
    BY <1>4, <2>1
<1>6. /\ \A k \in 1..o : \E p \in P : found[k] = RootOf(p)
      /\ \A p \in P : \E k \in 1..o : found[k] = RootOf(p)
      /\ \A j, k \in 1..o : found[j] = found[k] => j = k
  BY DEF Lists
<1>7. n \in Int
  BY <1>1
<1>. HIDE DEF n, o, last
<1>. DEFINE at(k) == (k - n) + 1
<1>8. \A k \in n..last : at(k) \in 1..o /\ r[k] = found[at(k)]
  BY <1>4, Zenon
<1>9. \A j, k \in n..last : at(j) = at(k) => j = k
  BY <1>7
<1>. HIDE DEF at
<1>10. ASSUME NEW k \in n..last PROVE \E p \in P : r[k] = RootOf(p)
  <2>1. at(k) \in 1..o /\ r[k] = found[at(k)]
    BY <1>8, Zenon
  <2>2. \E p \in P : found[at(k)] = RootOf(p)
    BY <1>6, <2>1, Zenon
  <2>. QED
    BY <2>1, <2>2, Zenon
<1>11. \A p \in P : \E k \in n..last : r[k] = RootOf(p)
  BY <1>5, <1>6
<1>12. ASSUME NEW j \in n..last, NEW k \in n..last, r[j] = r[k] PROVE j = k
  <2>1. at(j) \in 1..o /\ at(k) \in 1..o /\ found[at(j)] = found[at(k)]
    BY <1>8, <1>12, Zenon
  <2>2. at(j) = at(k)
    BY <1>6, <2>1, Zenon
  <2>. QED
    BY <1>9, <2>2, Zenon
<1>13. Lists(r, n, last, P)
  BY <1>10, <1>11, <1>12 DEF Lists
<1>. QED
  BY <1>3, <1>13 DEF r, n, o, last

\* The values are those of the noise.
LEMMA NoiseRemoved ==
  ASSUME IInv, Typed, Correct, NEW Q, Everywhere(Q),
         NEW e \in [Powers -> Elements], \A p \in Powers \ Q : e[p] = 0,
         SameSyndromes(syndromeCopy, e, MinDistance),
         Lists(errorRoots, 0, FullOrder - 1, Q)
  PROVE  receivedPolynomial' = [p \in Powers |-> Add(receivedPolynomial[p], e[p])]
<1>1. phase = "correcting"
  BY DEF Correct
<1>2. /\ Q \in SUBSET Powers /\ Cardinality(Q) = FullOrder
      /\ RootsIn(FullLocator, FullOrder, Q) /\ Some(FullLocator, FullOrder)
  BY DEF Everywhere
<1>3. FullOrder \in 0..MinDistance /\ Over(FullLocator, FullOrder)
  BY <1>1, CorrectingTypes
<1>4. \A k \in 0..(MinDistance - 1) : syndromeCopy[k] = SyndromeOf(e, k)
  BY DEF SameSyndromes
<1>5. ASSUME NEW q \in Q PROVE ErrorValue(RootOf(q)) = e[q]
  <2>1. FullOrder \in 1..MinDistance
    <3>1. IsFiniteSet(Q) /\ Q # {}
      BY <1>2, PowersFinite
    <3>2. Cardinality(Q) # 0
      BY <3>1, FS_EmptySet
    <3>. QED
      BY <1>2, <1>3, <3>2, Sizes
  <2>2. Forneys(e[q], FullLocator, FullOrder, syndromeCopy, q)
    BY <1>2, <1>3, <1>4, <2>1, Forney
  <2>3. FullOrder > 0 /\ q \in Powers /\ e[q] \in Elements
    BY <1>2, <2>1, Sizes
  <2>. QED
    BY <1>1, <2>2, <2>3, ErrorValueIs
<1>. QED
  BY <1>2, <1>5, Corrects

-----------------------------------------------------------------------------
(* A block that can be corrected is *)

\* the block that arrived, and what the decoder keeps of it while it works
Arrived ==
  phase \in {"locating", "correcting"} =>
    /\ noise \in [Powers -> Elements] /\ sent \in [Powers -> Elements] /\ Vanishes(sent)
    /\ receivedPolynomial = [p \in Powers |-> Add(sent[p], noise[p])]
    /\ SameSyndromes(syndromeCopy, noise, MinDistance)
    /\ \A k \in 0..(Len(erased) - 1) : errorRoots[k] = RootOf(erased[k + 1])
    /\ phase = "locating" => syndromes = ModifiedSyndromes(syndromeCopy, erased)

\* the roots that were searched for, behind those of the erasures
Solved ==
  phase = "correcting" =>
    /\ errorLocator.coeff[0] = 1
    /\ errorLocator.order < MinDistance =>
         /\ Cardinality(RootSet) = errorLocator.order
         /\ Lists(errorRoots, Len(erased), FullOrder - 1, RootSet)
    /\ Correctable => errorLocator.order < MinDistance /\ RootSet = Damaged \ Erasures
    /\ erased = <<>> => FollowsAll(errorLocator.coeff, errorLocator.order, syndromeCopy, MinDistance)

\* Correctable, of a block with the noise e
WithinReach(e, locations) ==
  /\ 2 * Cardinality(Support(e) \ Named(locations)) + Len(locations) <= MinDistance
  /\ Cardinality(Named(locations)) = Len(locations)

LEMMA CorrectableIs == Correctable <=> WithinReach(noise, erased)
  BY DEF Correctable, WithinReach, Damaged, Erasures, Support, Named

\* Noise that can be corrected and leaves no syndrome is none.
LEMMA NoNoise ==
  ASSUME NEW e \in [Powers -> Elements], NEW locations \in Seq(Powers), WithinReach(e, locations),
         \A k \in 0..(MinDistance - 1) : SyndromeOf(e, k) = 0
  PROVE  \A p \in Powers : e[p] = 0
<1>. DEFINE D == Support(e)
            E == Named(locations)
            n == Len(locations)
<1>1. n \in Nat /\ E \in SUBSET Powers /\ D \in SUBSET Powers
  BY ErasureLocatorIs DEF Support
<1>2. 2 * Cardinality(D \ E) + n <= MinDistance /\ Cardinality(E) = n
  BY DEF WithinReach
<1>. HIDE DEF D, E, n
<1>3. (D \ E) \in SUBSET Powers /\ ((D \ E) \cup E) \in SUBSET Powers
  BY <1>1
<1>4. /\ IsFiniteSet(D \ E) /\ IsFiniteSet(E) /\ IsFiniteSet((D \ E) \cup E)
      /\ Cardinality(D) \in Nat /\ Cardinality(D \ E) \in Nat
  BY <1>1, <1>3, PowersFinite
<1>5. Cardinality((D \ E) \cup E) = Cardinality(D \ E) + Cardinality(E) - Cardinality((D \ E) \cap E)
  BY <1>4, FS_Union
<1>6. (D \ E) \cap E = {} /\ Cardinality({}) = 0
  BY FS_EmptySet
<1>7. Cardinality(D) <= Cardinality((D \ E) \cup E)
  <2>1. D \subseteq (D \ E) \cup E
    OBVIOUS
  <2>. QED
    BY <1>4, <2>1, FS_Subset
<1>8. 0 + Cardinality(D) <= MinDistance /\ MinDistance \in 0..MinDistance /\ 0 \in Nat
  <2>. DEFINE c == Cardinality(D)    r == Cardinality(D \ E)    u == Cardinality((D \ E) \cup E)
  <2>1. c \in Nat /\ r \in Nat /\ n \in Nat /\ 2 * r + n <= MinDistance /\ c <= u
    BY <1>1, <1>2, <1>4, <1>7, Zenon
  <2>2. u = r + n - 0
    BY <1>2, <1>5, <1>6, Zenon
  <2>3. MinDistance \in Nat
    BY Sizes, Zenon
  <2>. HIDE DEF c, r, u
  <2>4. c <= MinDistance
    BY <2>1, <2>2, <2>3
  <2>5. 0 + c <= MinDistance /\ MinDistance \in 0..MinDistance /\ 0 \in Nat
    BY <2>1, <2>3, <2>4
  <2>. QED
    BY <2>5, Zenon DEF c
<1>. QED
  BY <1>8, OnlyZero DEF D

\* int8_t holds the length of every message, and none is -1.
LEMMA LengthReturned == ReturnOf(MessageLength) = "SUCCESS"
<1>1. FieldMax \in 1..255 /\ MinDistance \in Nat /\ MinDistance > 0 /\ MinDistance < FieldMax
      /\ MessageLength = FieldMax - MinDistance
  BY FieldAssumption, Sizes DEF MessageLength, BlockLength
<1>2. MessageLength \in 1..254
  BY <1>1
<1>3. \A m \in 1..254 : ((m + 128) % 256) - 128 # -1
  OBVIOUS
<1>. QED
  BY <1>2, <1>3 DEF ReturnOf

\* What is added twice is gone.
LEMMA AddedTwice ==
  ASSUME NEW s \in [Powers -> Elements], NEW e \in [Powers -> Elements],
         NEW r, r = [p \in Powers |-> Add(s[p], e[p])]
  PROVE  [p \in Powers |-> Add(r[p], e[p])] = s
<1>1. ASSUME NEW p \in Powers PROVE Add(r[p], e[p]) = s[p]
  <2>1. s[p] \in Elements /\ e[p] \in Elements /\ r[p] = Add(s[p], e[p])
    OBVIOUS
  <2>2. Add(s[p], Add(e[p], e[p])) = Add(Add(s[p], e[p]), e[p])
    BY <2>1, AddLaws
  <2>. QED
    BY <2>1, <2>2, AddLaws
<1>. QED
  BY <1>1

\* What a call does to its block before it looks at the syndromes.
LEMMA BlockArrives ==
  ASSUME IInv, Typed, Explained, ReceiveClean \/ ReceiveDamaged
  PROVE  /\ noise' \in [Powers -> Elements] /\ erased' \in Seq(Powers)
         /\ sent \in [Powers -> Elements] /\ sent' = sent /\ Vanishes(sent)
         /\ receivedPolynomial' = [p \in Powers |-> Add(sent[p], noise'[p])]
         /\ SameSyndromes(Syndromes(receivedPolynomial'), noise', MinDistance)
         /\ \A k \in 0..(Len(erased') - 1) : errorRoots'[k] = RootOf(erased'[k + 1])
<1>1. /\ phase = "encoded" /\ script # <<>> /\ script \in Seq(Calls)
      /\ sent \in [Powers -> Elements] /\ Vanishes(sent)
  BY DEF ReceiveClean, ReceiveDamaged, IInv, Typed, Received, Explained
<1>2. Head(script) \in Calls
  BY <1>1
<1>3. /\ noise' = Head(script).noise /\ erased' = Head(script).erased /\ sent' = sent
      /\ receivedPolynomial' = [p \in Powers |-> Add(sent[p], noise'[p])]
      /\ Erase(erased')
  BY DEF ReceiveClean, ReceiveDamaged
<1>4. noise' \in [Powers -> Elements] /\ erased' \in Seq(Powers) /\ Len(erased') <= MinDistance
  BY <1>2, <1>3 DEF Calls
<1>5. SameSyndromes(Syndromes(receivedPolynomial'), noise', MinDistance)
  BY <1>1, <1>3, <1>4, SyndromesAreNoise DEF SameSyndromes
<1>6. ASSUME NEW k \in 0..(Len(erased') - 1) PROVE errorRoots'[k] = RootOf(erased'[k + 1])
  <2>1. k \in 0..(2 * MinDistance - 1) /\ k < Len(erased') /\ k + 1 \in 1..Len(erased')
    BY <1>4, Sizes
  <2>2. errorRoots'[k] = RootsFromLocations(erased')[k + 1]
    BY <1>3, <2>1 DEF Erase, Typed, Errors
  <2>. QED
    BY <1>4, <2>1, <2>2, RootsFromLocationsAre
<1>. QED
  BY <1>1, <1>3, <1>4, <1>5, <1>6

LEMMA ReceiveArrived ==
  ASSUME IInv, Typed, Explained, ReceiveDamaged
  PROVE  Arrived'
<1>1. /\ syndromeCopy' = Syndromes(receivedPolynomial')
      /\ syndromes' = ModifiedSyndromes(syndromeCopy', erased')
      /\ sent' = sent
  BY DEF ReceiveDamaged
<1>2. /\ noise' \in [Powers -> Elements] /\ sent \in [Powers -> Elements] /\ Vanishes(sent)
      /\ receivedPolynomial' = [p \in Powers |-> Add(sent[p], noise'[p])]
      /\ SameSyndromes(Syndromes(receivedPolynomial'), noise', MinDistance)
      /\ \A k \in 0..(Len(erased') - 1) : errorRoots'[k] = RootOf(erased'[k + 1])
  BY BlockArrives
<1>3. SameSyndromes(syndromeCopy', noise', MinDistance)
  BY <1>1, <1>2
<1>. QED
  BY <1>1, <1>2, <1>3 DEF Arrived

LEMMA CleanRestores ==
  ASSUME IInv, Typed, Explained, ReceiveClean
  PROVE  DecodeRestores'
<1>1. /\ syndromes' = Syndromes(receivedPolynomial') /\ syndromes' = Zeros(MinDistance - 1)
      /\ code' = ReturnOf(MessageLength) /\ sent' = sent
  BY DEF ReceiveClean
<1>2. /\ noise' \in [Powers -> Elements] /\ sent \in [Powers -> Elements]
      /\ erased' \in Seq(Powers)
      /\ receivedPolynomial' = [p \in Powers |-> Add(sent[p], noise'[p])]
      /\ SameSyndromes(Syndromes(receivedPolynomial'), noise', MinDistance)
  BY BlockArrives
<1>3. \A k \in 0..(MinDistance - 1) : SyndromeOf(noise', k) = 0
  <2>1. \A k \in 0..(MinDistance - 1) : syndromes'[k] = 0
    BY <1>1 DEF Zeros
  <2>. QED
    BY <1>1, <1>2, <2>1 DEF SameSyndromes
<1>4. Correctable' <=> WithinReach(noise', erased')
  BY DEF Correctable, WithinReach, Damaged, Erasures, Support, Named
<1>5. ASSUME Correctable' PROVE receivedPolynomial' = sent
  <2>1. \A p \in Powers : noise'[p] = 0
    BY <1>2, <1>3, <1>4, <1>5, NoNoise
  <2>2. \A p \in Powers : Add(sent[p], noise'[p]) = sent[p]
    BY <1>2, <2>1, AddLaws
  <2>. QED
    BY <1>2, <2>2
<1>. QED
  BY <1>1, <1>5, LengthReturned DEF DecodeRestores

\* The numbers at the end of the search.
LEMMA LocatedNumbers ==
  ASSUME IInv, Typed, Tracking, Located
  PROVE  /\ Len(erased) \in 0..MinDistance /\ MinDistance - Len(erased) \in 0..MinDistance
         /\ errorLocator.order = numerrors /\ numerrors \in Nat
         /\ Len(erased) + numerrors \in 0..MinDistance
         /\ errorLocator.coeff[0] = 1 /\ Over(errorLocator.coeff, numerrors)
         /\ FollowsAll(errorLocator.coeff, numerrors, syndromes, MinDistance - Len(erased))
         /\ NoneBelow(numerrors, syndromes, MinDistance - Len(erased))
<1>1. phase = "locating" /\ i = MinDistance - Len(erased)
  BY DEF Located
<1>2. Balance /\ i \in 0..(MinDistance - Len(erased)) /\ Len(erased) \in 0..MinDistance
  BY <1>1 DEF IInv, Searching
<1>3. Monic /\ Fits /\ NoneShorter
  BY <1>1 DEF Tracking
<1>4. numerrors \in Nat /\ errorLocator.order = numerrors /\ numerrors <= i
      /\ Len(erased) \in Nat /\ i \in 0..MinDistance
  BY <1>1, <1>2, Sizes DEF Balance
<1>5. Over(errorLocator.coeff, numerrors)
  <2>1. \A k \in 0..numerrors : k \in 0..MinDistance
    BY <1>4, Sizes
  <2>. QED
    BY <2>1, Contents DEF Over
<1>6. Len(erased) + numerrors \in 0..MinDistance
  BY <1>1, <1>4, Sizes
<1>. QED
  BY <1>1, <1>2, <1>3, <1>4, <1>5, <1>6 DEF Monic, Fits, FollowsAll, NoneShorter

\* The locator's roots are the symbols that are damaged and not erased.
LEMMA LocatedRight ==
  ASSUME IInv, Typed, Tracking, Arrived, Located, Correctable
  PROVE  /\ errorLocator.order < MinDistance
         /\ RootSet = Damaged \ Erasures
         /\ Cardinality(RootSet) = errorLocator.order
<1>. DEFINE n == Len(erased)
            m == MinDistance - n
            c == errorLocator.coeff
<1>1. /\ n \in 0..MinDistance /\ m \in 0..MinDistance
      /\ errorLocator.order = numerrors /\ numerrors \in Nat
      /\ c[0] = 1 /\ Over(c, numerrors)
      /\ FollowsAll(c, numerrors, syndromes, m) /\ NoneBelow(numerrors, syndromes, m)
  BY LocatedNumbers
<1>2. phase = "locating" /\ erased \in Seq(Powers)
  BY DEF Located, Typed, Errors
<1>3. /\ noise \in [Powers -> Elements] /\ syndromes = ModifiedSyndromes(syndromeCopy, erased)
      /\ \A k \in 0..(MinDistance - 1) : syndromeCopy[k] = SyndromeOf(noise, k)
  BY <1>2 DEF Arrived, SameSyndromes
<1>4. 2 * Cardinality(Support(noise) \ Named(erased)) + n <= MinDistance
      /\ Cardinality(Named(erased)) = n
  BY CorrectableIs DEF WithinReach
<1>5. PICK f : /\ Thinned(f, noise, erased)
               /\ \A k \in 0..(MinDistance - Len(erased) - 1) :
                    ModifiedSyndromes(syndromeCopy, erased)[k] = SyndromeOf(f, k)
  BY <1>2, <1>3, ModifiedSyndromesAre
<1>6. f \in [Powers -> Elements]
  BY <1>5 DEF Thinned
<1>7. SameSyndromes(syndromes, f, m)
  BY <1>3, <1>5 DEF SameSyndromes
<1>8. \A p \in Powers : At(ErasureLocator(erased), Len(erased), RootOf(p)) = 0 <=> p \in Named(erased)
  <2>. DEFINE a == ErasureLocator(erased)
  <2>1. Over(a, n) /\ Some(a, n) /\ RootsIn(a, n, Named(erased)) /\ Named(erased) \in SUBSET Powers
        /\ n \in Nat
    BY <1>2, ErasureLocatorIs
  <2>2. Cardinality(Named(erased)) = n
    BY <1>4
  <2>. HIDE DEF a, n
  <2>3. ASSUME NEW p \in Powers, At(a, n, RootOf(p)) = 0 PROVE p \in Named(erased)
    BY <2>1, <2>2, <2>3, NoOtherRoot
  <2>4. ASSUME NEW p \in Named(erased) PROVE At(a, n, RootOf(p)) = 0
    BY <2>1 DEF RootsIn
  <2>. QED
    BY <2>3, <2>4 DEF a, n
<1>9. Support(f) = Support(noise) \ Named(erased)
  BY <1>5, <1>8 DEF Support, Thinned
<1>10. Cardinality(Support(f)) \in Nat /\ numerrors <= Cardinality(Support(f))
  <2>. HIDE DEF m, c
  <2>. QED
    BY <1>1, <1>6, <1>7, ShortLocator
<1>11. 2 * Cardinality(Support(f)) <= m
  BY <1>1, <1>4, <1>9, <1>10, Sizes
<1>12. /\ numerrors = Cardinality(Support(f))
       /\ \A p \in Powers : At(c, numerrors, RootOf(p)) = 0 <=> p \in Support(f)
  <2>. HIDE DEF m, c
  <2>. QED
    BY <1>1, <1>6, <1>7, <1>10, <1>11, LocatorRoots
<1>13. RootSet = Support(f)
  BY <1>1, <1>12 DEF RootSet, Support
<1>14. numerrors < MinDistance
  BY <1>1, <1>10, <1>11, <1>12, Sizes
<1>15. Damaged \ Erasures = Support(noise) \ Named(erased)
  BY DEF Damaged, Erasures, Support, Named
<1>. QED
  BY <1>1, <1>9, <1>12, <1>13, <1>14, <1>15

\* The search for its roots finds them all, so that it does not fail ...
LEMMA FailsBeyond ==
  ASSUME IInv, Typed, Tracking, Arrived, FactorizeFails
  PROVE  ~Correctable
<1>. SUFFICES ASSUME Correctable PROVE FALSE
  OBVIOUS
<1>1. Located
  BY DEF FactorizeFails
<1>2. errorLocator.order < MinDistance /\ Cardinality(RootSet) = errorLocator.order
  BY <1>1, LocatedRight
<1>3. errorLocator.order \in 0..(MinDistance - 1) /\ errorLocator.coeff[0] = 1
  BY <1>1, <1>2, LocatedNumbers, Sizes
<1>4. PICK behind \in Behind : ~Enough(Found(behind))
  BY DEF FactorizeFails
<1>5. Len(Found(behind)) = Cardinality(RootSet)
  BY <1>3, FoundLists
<1>. QED
  BY <1>2, <1>4, <1>5 DEF Enough

\* ... and stores them.
LEMMA FactorizeSolves ==
  ASSUME IInv, Typed, Tracking, Arrived, Factorize
  PROVE  Solved' /\ Arrived'
<1>1. /\ Located /\ phase' = "correcting"
      /\ UNCHANGED <<block, locators, errorVals, errorLocations, registers, call>>
  BY DEF Factorize
<1>2. PICK behind \in Behind : Enough(Found(behind)) /\ errorRoots' = RootsStored(Found(behind))
  BY DEF Factorize
<1>3. /\ Len(erased) \in 0..MinDistance
      /\ errorLocator.order = numerrors /\ numerrors \in Nat
      /\ Len(erased) + numerrors \in 0..MinDistance
      /\ errorLocator.coeff[0] = 1
      /\ FollowsAll(errorLocator.coeff, numerrors, syndromes, MinDistance - Len(erased))
  BY <1>1, LocatedNumbers
<1>4. /\ errorLocator' = errorLocator /\ erased' = erased /\ noise' = noise /\ sent' = sent
      /\ syndromeCopy' = syndromeCopy /\ receivedPolynomial' = receivedPolynomial
  BY <1>1 DEF block, locators, call
<1>5. /\ RootSet' = RootSet /\ (Correctable' <=> Correctable)
      /\ Damaged' = Damaged /\ Erasures' = Erasures /\ FullOrder' = FullOrder
  BY <1>4 DEF RootSet, Correctable, Damaged, Erasures, FullOrder
<1>. DEFINE f == Found(behind)
<1>6. ASSUME errorLocator.order < MinDistance
      PROVE  /\ Cardinality(RootSet) = errorLocator.order
             /\ Lists(errorRoots', Len(erased), FullOrder - 1, RootSet)
  <2>1. errorLocator.order \in 0..(MinDistance - 1)
    BY <1>3, <1>6, Sizes
  <2>2. Lists(f, 1, Len(f), RootSet) /\ Len(f) = Cardinality(RootSet) /\ f \in Seq(Elements)
    BY <1>3, <2>1, FoundLists
  <2>3. Len(f) = errorLocator.order
    BY <1>2 DEF Enough
  <2>. HIDE DEF f
  <2>4. Lists(RootsStored(f), Len(erased), Len(erased) + errorLocator.order - 1, RootSet)
    BY <1>3, <2>2, <2>3, StoredLists
  <2>. QED
    BY <1>2, <2>2, <2>3, <2>4 DEF FullOrder, f
<1>7. \A k \in 0..(Len(erased) - 1) : errorRoots'[k] = errorRoots[k]
  <2>1. \A k \in 0..(Len(erased) - 1) : k \in 0..(2 * MinDistance - 1)
          /\ k - Len(erased) \notin 0..(Len(f) - 1)
          /\ k - Len(erased) \notin 0..(errorLocator.order - 1)
    BY <1>3, Sizes
  <2>. HIDE DEF f
  <2>. QED
    BY <1>2, <2>1 DEF RootsStored, Typed, Errors, f
<1>8. ASSUME Correctable PROVE errorLocator.order < MinDistance /\ RootSet = Damaged \ Erasures
  BY <1>1, <1>8, LocatedRight
<1>9. ASSUME erased = <<>>
      PROVE  FollowsAll(errorLocator.coeff, errorLocator.order, syndromeCopy, MinDistance)
  <2>1. Len(erased) = 0
    BY <1>9
  <2>2. syndromes = syndromeCopy
    BY <1>1, <2>1 DEF Arrived, Located, ModifiedSyndromes
  <2>3. MinDistance - Len(erased) = MinDistance
    BY <2>1, Sizes
  <2>. QED
    BY <1>3, <2>2, <2>3
<1>10. Solved'
  BY <1>1, <1>3, <1>4, <1>5, <1>6, <1>8, <1>9 DEF Solved
<1>11. Arrived'
  BY <1>1, <1>4, <1>7 DEF Arrived, Located
<1>. QED
  BY <1>10, <1>11

LEMMA CorrectRestores ==
  ASSUME IInv, Typed, Arrived, Solved, Correct
  PROVE  DecodeRestores'
<1>1. /\ phase = "correcting" /\ code' = ReturnOf(MessageLength)
      /\ erased' = erased /\ noise' = noise /\ sent' = sent
  BY DEF Correct
<1>2. Correctable' <=> Correctable
  BY <1>1 DEF Correctable, Damaged, Erasures
<1>3. ASSUME Correctable PROVE receivedPolynomial' = sent
  <2>. DEFINE Q == Erasures \cup RootSet
  <2>1. /\ noise \in [Powers -> Elements] /\ sent \in [Powers -> Elements]
        /\ receivedPolynomial = [p \in Powers |-> Add(sent[p], noise[p])]
        /\ SameSyndromes(syndromeCopy, noise, MinDistance)
        /\ \A k \in 0..(Len(erased) - 1) : errorRoots[k] = RootOf(erased[k + 1])
    BY <1>1 DEF Arrived
  <2>2. /\ Cardinality(RootSet) = errorLocator.order
        /\ Lists(errorRoots, Len(erased), FullOrder - 1, RootSet)
        /\ RootSet = Damaged \ Erasures
    BY <1>1, <1>3 DEF Solved
  <2>3. /\ errorLocator.order \in Nat /\ FullOrder = Len(erased) + errorLocator.order
        /\ erased \in Seq(Powers) /\ Erasures = Named(erased)
    BY <1>1, CorrectingTypes
  <2>4. Cardinality(Erasures) = Len(erased)
    BY <1>3 DEF Correctable
  <2>5. Everywhere(Q)
    <3>1. Erasures \cap RootSet = {}
      BY <2>2
    <3>. QED
      BY <1>1, <2>2, <2>4, <3>1, FullRoots
  <2>6. \A p \in Powers \ Q : noise[p] = 0
    BY <2>2 DEF Damaged
  <2>7. Lists(errorRoots, 0, FullOrder - 1, Q)
    <3>1. RootSet \in SUBSET Powers /\ Named(erased) \cap RootSet = {}
      BY <2>2, <2>3 DEF RootSet
    <3>2. Lists(errorRoots, Len(erased), Len(erased) + errorLocator.order - 1, RootSet)
      BY <2>2, <2>3
    <3>3. Lists(errorRoots, 0, Len(erased) + errorLocator.order - 1, Named(erased) \cup RootSet)
      BY <2>1, <2>3, <2>4, <3>1, <3>2, ListsJoin
    <3>. QED
      BY <2>3, <3>3
  <2>. HIDE DEF Q
  <2>8. receivedPolynomial' = [p \in Powers |-> Add(receivedPolynomial[p], noise[p])]
    BY <2>1, <2>5, <2>6, <2>7, NoiseRemoved
  <2>. QED
    BY <2>1, <2>8, AddedTwice
<1>. QED
  BY <1>1, <1>2, <1>3, LengthReturned DEF DecodeRestores

LEMMA ArrivedNext ==
  IInv /\ Typed /\ Tracking /\ Explained /\ Arrived /\ [Next]_vars => Arrived'
<1>. SUFFICES ASSUME IInv, Typed, Tracking, Explained, Arrived, [Next]_vars PROVE Arrived'
  OBVIOUS
<1>1. CASE InitRs \/ DestroyRs
  BY <1>1 DEF InitRs, DestroyRs, Arrived, block, errors, call
<1>2. CASE RsEncode \/ ReceiveClean \/ FactorizeFails \/ Correct
  BY <1>2 DEF RsEncode, ReceiveClean, FactorizeFails, Correct, Arrived
<1>3. CASE ReceiveDamaged
  BY <1>3, ReceiveArrived
<1>4. CASE Describes \/ Lengthen \/ Adjust
  BY <1>4 DEF Describes, Lengthen, Adjust, More, Arrived, block, errors, call
<1>5. CASE Factorize
  BY <1>5, FactorizeSolves
<1>6. CASE UNCHANGED vars
  BY <1>6 DEF vars, Arrived, block, errors, call
<1>. QED
  BY <1>1, <1>2, <1>3, <1>4, <1>5, <1>6 DEF Next, RsDecode

LEMMA SolvedNext ==
  IInv /\ Typed /\ Tracking /\ Arrived /\ Solved /\ [Next]_vars => Solved'
<1>. SUFFICES ASSUME IInv, Typed, Tracking, Arrived, Solved, [Next]_vars PROVE Solved'
  OBVIOUS
<1>1. CASE InitRs \/ DestroyRs \/ UNCHANGED vars
  <2>1. phase' = phase /\ UNCHANGED <<block, locators, errors, call>>
    BY <1>1 DEF InitRs, DestroyRs, vars
  <2>. QED
    BY <2>1 DEF Solved, RootSet, Correctable, Damaged, Erasures, FullOrder, locators, errors, call
<1>2. CASE RsEncode \/ ReceiveClean \/ ReceiveDamaged \/ FactorizeFails \/ Correct
  BY <1>2 DEF RsEncode, ReceiveClean, ReceiveDamaged, FactorizeFails, Correct, Solved
<1>3. CASE Describes \/ Lengthen \/ Adjust
  BY <1>3 DEF Describes, Lengthen, Adjust, More, Solved
<1>4. CASE Factorize
  BY <1>4, FactorizeSolves
<1>. QED
  BY <1>1, <1>2, <1>3, <1>4 DEF Next, RsDecode

LEMMA RestoresNext ==
  /\ IInv /\ Typed /\ Tracking /\ Explained /\ Arrived /\ Solved
  /\ DecodeRestores /\ [Next]_vars
  => DecodeRestores'
<1>. SUFFICES ASSUME IInv, Typed, Tracking, Explained, Arrived, Solved, DecodeRestores, [Next]_vars
              PROVE  DecodeRestores'
  OBVIOUS
<1>1. CASE InitRs \/ DestroyRs \/ UNCHANGED vars
  <2>1. phase' = phase /\ UNCHANGED <<block, call>>
    BY <1>1 DEF InitRs, DestroyRs, vars
  <2>. QED
    BY <2>1, Zenon DEF DecodeRestores, Correctable, Damaged, Erasures, block, call
<1>2. CASE RsEncode \/ ReceiveDamaged \/ Factorize
  BY <1>2 DEF RsEncode, ReceiveDamaged, Factorize, DecodeRestores
<1>3. CASE Describes \/ Lengthen \/ Adjust
  BY <1>3 DEF Describes, Lengthen, Adjust, More, DecodeRestores
<1>4. CASE ReceiveClean
  BY <1>4, CleanRestores
<1>5. CASE FactorizeFails
  <2>1. erased' = erased /\ noise' = noise /\ ~Correctable
    BY <1>5, FailsBeyond DEF FactorizeFails
  <2>2. ~Correctable'
    BY <2>1 DEF Correctable, Damaged, Erasures
  <2>. QED
    BY <2>2 DEF DecodeRestores
<1>6. CASE Correct
  BY <1>6, CorrectRestores
<1>. QED
  BY <1>1, <1>2, <1>3, <1>4, <1>5, <1>6 DEF Next, RsDecode

-----------------------------------------------------------------------------
(* What comes out is a codeword, however many symbols are damaged *)

LEMMA SyndromeSum ==
  ASSUME NEW s \in [Powers -> Elements], NEW e \in [Powers -> Elements],
         NEW c, c = [p \in Powers |-> Add(s[p], e[p])], NEW k \in 0..(MinDistance - 1)
  PROVE  /\ c \in [Powers -> Elements]
         /\ SyndromeOf(s, k) \in Elements /\ SyndromeOf(e, k) \in Elements
         /\ SyndromeOf(c, k) = Add(SyndromeOf(s, k), SyndromeOf(e, k))
<1>. DEFINE n == BlockLength - 1
            w == RootPowers(k)
<1>1. n \in Nat /\ Powers = 0..n /\ Over(w, n)
  BY Sizes, RootPowersAre
<1>2. c \in [Powers -> Elements]
  BY FieldTypes
<1>. HIDE DEF n, w
<1>3. Over(s, n) /\ Over(e, n) /\ Plus(c, s, e, n)
  BY <1>1 DEF Over, Plus
<1>4. Value(c, n, w) = Add(Value(s, n, w), Value(e, n, w))
  BY <1>1, <1>3, ValueSum
<1>5. Value(s, n, w) \in Elements /\ Value(e, n, w) \in Elements
  BY <1>1, <1>3, ValueType
<1>. QED
  BY <1>2, <1>4, <1>5 DEF SyndromeOf, n, w

\* A block without syndromes is what its message is encoded to.
LEMMA Codeword ==
  ASSUME NEW r \in [Powers -> Elements], Vanishes(r)
  PROVE  r = Encoded([k \in 0..(MessageLength - 1) |-> r[k + MinDistance]])
<1>. DEFINE msg == [k \in 0..(MessageLength - 1) |-> r[k + MinDistance]]
            e == Encoded(msg)
            d == [p \in Powers |-> Add(r[p], e[p])]
<1>1. \A k \in 0..(MessageLength - 1) : k + MinDistance \in Powers
  BY Sizes, BlockSize DEF MessageLength
<1>2. msg \in [0..(MessageLength - 1) -> Elements]
  BY <1>1
<1>3. \A p \in Powers : p >= MinDistance => e[p] = r[p]
  <2>1. ASSUME NEW p \in Powers, p >= MinDistance PROVE e[p] = r[p]
    <3>1. p - MinDistance \in 0..(MessageLength - 1) /\ (p - MinDistance) + MinDistance = p
          /\ ~(p < MinDistance)
      BY <2>1, Sizes, BlockSize DEF MessageLength
    <3>2. e[p] = msg[p - MinDistance]
      BY <3>1 DEF Encoded
    <3>. QED
      BY <3>1, <3>2
  <2>. QED
    BY <2>1
<1>. HIDE DEF msg
<1>4. e \in [Powers -> Elements] /\ Vanishes(e)
  BY <1>2, EncodedType, EncodedVanishes
<1>. HIDE DEF e
<1>5. \A k \in 0..(MinDistance - 1) : SyndromeOf(d, k) = 0
  <2>1. ASSUME NEW k \in 0..(MinDistance - 1) PROVE SyndromeOf(d, k) = 0
    <3>1. SyndromeOf(d, k) = Add(SyndromeOf(r, k), SyndromeOf(e, k))
      BY <1>4, SyndromeSum
    <3>2. SyndromeOf(r, k) = 0 /\ SyndromeOf(e, k) = 0
      BY <1>4 DEF Vanishes
    <3>. QED
      BY <3>1, <3>2, AddLaws, FieldTypes
  <2>. QED
    BY <2>1
<1>6. d \in [Powers -> Elements]
  BY <1>4, FieldTypes
<1>7. \A p \in Powers : d[p] = Add(r[p], e[p])
  OBVIOUS
<1>. HIDE DEF d
<1>8. 0 + Cardinality(Support(d)) <= MinDistance
  <2>1. ASSUME NEW p \in Support(d) PROVE p \in 0..(MinDistance - 1)
    <3>1. p \in Powers /\ d[p] # 0 /\ p \in Nat
      BY Sizes DEF Support
    <3>2. ~(p >= MinDistance)
      <4>1. SUFFICES ASSUME p >= MinDistance PROVE FALSE
        OBVIOUS
      <4>2. e[p] = r[p] /\ r[p] \in Elements
        BY <1>3, <3>1, <4>1
      <4>. QED
        BY <1>7, <3>1, <4>2, AddLaws
    <3>. QED
      BY <3>1, <3>2, Sizes
  <2>2. Support(d) \subseteq 0..(MinDistance - 1)
    BY <2>1
  <2>3. IsFiniteSet(0..(MinDistance - 1)) /\ Cardinality(0..(MinDistance - 1)) = MinDistance
    <3>1. 0 \in Int /\ MinDistance - 1 \in Int
      BY Sizes
    <3>2. IsFiniteSet(0..(MinDistance - 1)) /\
          Cardinality(0..(MinDistance - 1)) =
            IF 0 > MinDistance - 1 THEN 0 ELSE (MinDistance - 1) - 0 + 1
      BY <3>1, FS_Interval
    <3>. QED
      BY <3>2, Sizes
  <2>4. Cardinality(Support(d)) <= Cardinality(0..(MinDistance - 1))
    BY <2>2, <2>3, FS_Subset
  <2>5. Cardinality(Support(d)) \in Nat
    <3>1. Support(d) \in SUBSET Powers
      BY DEF Support
    <3>. QED
      BY <3>1, PowersFinite
  <2>. QED
    BY <2>3, <2>4, <2>5, Sizes
<1>9. \A p \in Powers : d[p] = 0
  <2>1. MinDistance \in 0..MinDistance /\ 0 \in Nat
    BY Sizes
  <2>. QED
    BY <1>5, <1>6, <1>8, <2>1, OnlyZero
<1>10. ASSUME NEW p \in Powers PROVE r[p] = e[p]
  <2>1. r[p] \in Elements /\ e[p] \in Elements /\ Add(r[p], e[p]) = 0
    BY <1>4, <1>7, <1>9
  <2>2. Add(r[p], Add(e[p], e[p])) = Add(Add(r[p], e[p]), e[p])
    BY <2>1, AddLaws
  <2>. QED
    BY <2>1, <2>2, AddLaws
<1>11. r = e
  BY <1>4, <1>10
<1>. QED
  BY <1>11, Zenon DEF e, msg

\* Above its order an evaluator is what the locator makes of the syndromes.
LEMMA EvaluatorAbove ==
  ASSUME NEW l \in Nat, NEW a, NEW s, NEW k \in l..(MinDistance - 1)
  PROVE  Evaluator(a, l, s)[k] = Against(a, l, s, k)
<1>. DEFINE n == MinDistance - 1
            t == [j \in 0..l |-> IF k - j \in 0..n THEN Mul(a[j], s[k - j]) ELSE 0]
<1>1. k \in 0..n /\ \A j \in 0..l : k - j \in 0..n
  BY Sizes
<1>2. t = [j \in 0..l |-> Mul(a[j], s[k - j])]
  <2>. HIDE DEF n
  <2>. QED
    BY <1>1
<1>3. Evaluator(a, l, s)[k] = Sum(l + 1, t)
  BY <1>1 DEF Evaluator, PolyMul
<1>. QED
  BY <1>2, <1>3 DEF Against

\* An evaluator is 0 of syndromes that are 0 alone.
LEMMA NoEvaluator ==
  ASSUME NEW l \in Nat, NEW a, Over(a, l), a[0] = 1, NEW d, Over(d, MinDistance - 1),
         \A k \in 0..(MinDistance - 1) : Evaluator(a, l, d)[k] = 0
  PROVE  \A k \in 0..(MinDistance - 1) : d[k] = 0
<1>. DEFINE n == MinDistance - 1
<1>1. ASSUME NEW k \in 0..n, \A m \in 0..(k - 1) : d[m] = 0 PROVE d[k] = 0
  <2>. DEFINE t == [j \in 0..l |-> IF k - j \in 0..n THEN Mul(a[j], d[k - j]) ELSE 0]
  <2>1. Sum(l + 1, t) = 0
    <3>1. Evaluator(a, l, d)[k] = Sum(l + 1, t)
      BY DEF Evaluator, PolyMul
    <3>. QED
      BY <3>1
  <2>2. l + 1 \in Nat /\ 0 \in 0..((l + 1) - 1) /\ k - 0 = k /\ 0 \in 0..l
        /\ \A j \in 0..((l + 1) - 1) : j \in 0..l
    BY Sizes
  <2>3. d[k] \in Elements
    BY DEF Over
  <2>4. t[0] = d[k]
    BY <2>2, <2>3, OneTimes
  <2>5. ASSUME NEW j \in 0..l, j # 0 PROVE t[j] = 0
    <3>1. k - j \in 0..n => k - j \in 0..(k - 1)
      BY <2>5, Sizes
    <3>2. a[j] \in Elements
      BY DEF Over
    <3>. HIDE DEF n
    <3>. QED
      BY <1>1, <3>1, <3>2, ZeroLaws
  <2>. HIDE DEF t
  <2>6. \A j \in 0..((l + 1) - 1) : j # 0 => t[j] = 0
    BY <2>2, <2>5
  <2>7. Terms(l + 1, t)
    BY <2>3, <2>4, <2>6, FieldTypes DEF Terms
  <2>8. Sum(l + 1, t) = t[0]
    BY <2>2, <2>6, <2>7, SumSingle
  <2>. QED
    BY <2>1, <2>4, <2>8
<1>. DEFINE T == {k \in 0..n : \A m \in 0..k : d[m] = 0}
<1>2. n \in Nat
  BY Sizes
<1>3. 0 \in T
  <2>1. \A m \in 0..0 : m = 0
    OBVIOUS
  <2>2. 0 \in 0..n /\ \A m \in 0..(0 - 1) : d[m] = 0
    BY <1>2
  <2>3. d[0] = 0
    BY <1>1, <2>2
  <2>. QED
    BY <2>1, <2>2, <2>3
<1>4. ASSUME NEW k \in 1..n, k - 1 \in T PROVE k \in T
  <2>1. \A m \in 0..(k - 1) : d[m] = 0
    BY <1>4
  <2>2. k \in 0..n
    BY <1>2
  <2>3. d[k] = 0
    BY <1>1, <2>1, <2>2
  <2>4. \A m \in 0..k : m \in 0..(k - 1) \/ m = k
    BY <1>2
  <2>. QED
    BY <2>1, <2>2, <2>3, <2>4
<1>. HIDE DEF T
<1>5. \A k \in 0..n : k \in T
  BY <1>2, <1>3, <1>4, UpTo
<1>6. \A k \in 0..n : k \in 0..k
  BY <1>2
<1>. QED
  BY <1>5, <1>6 DEF T

\* What is 0 from l on is of the order l - 1.
LEMMA LowOrder ==
  ASSUME NEW n \in Nat, NEW l \in 1..(n + 1), NEW b, Over(b, n), \A k \in l..n : b[k] = 0,
         NEW r \in Nonzero
  PROVE  Over(b, l - 1) /\ At(b, n, r) = At(b, l - 1, r)
<1>1. l - 1 \in 0..n /\ \A k \in 0..(l - 1) : k \in 0..n
  OBVIOUS
<1>2. Over(b, l - 1)
  BY <1>1 DEF Over
<1>. DEFINE c == Padded(b, l - 1, n)
            w == PowerTable(r, n)
<1>3. At(c, n, r) = At(b, l - 1, r)
  BY <1>1, <1>2, AtPadded
<1>4. ASSUME NEW k \in 0..n PROVE c[k] = b[k]
  <2>1. k <= l - 1 \/ k \in l..n
    OBVIOUS
  <2>. QED
    BY <2>1 DEF Padded
<1>. HIDE DEF c
<1>5. [k \in 0..n |-> Mul(c[k], w[k])] = [k \in 0..n |-> Mul(b[k], w[k])]
  BY <1>4
<1>6. At(c, n, r) = At(b, n, r)
  BY <1>5 DEF At, Value
<1>. QED
  BY <1>2, <1>3, <1>6

\* A sum of syndromes has the sum of their evaluators.
LEMMA EvaluatorSum ==
  ASSUME NEW l \in Nat, NEW a, Over(a, l), NEW s, Over(s, MinDistance - 1),
         NEW t, Over(t, MinDistance - 1), NEW d, Plus(d, s, t, MinDistance - 1)
  PROVE  /\ Over(d, MinDistance - 1)
         /\ Plus(Evaluator(a, l, d), Evaluator(a, l, s), Evaluator(a, l, t), MinDistance - 1)
<1>. DEFINE n == MinDistance - 1
<1>1. \A k \in 0..n : d[k] = Add(s[k], t[k]) /\ s[k] \in Elements /\ t[k] \in Elements
                      /\ d[k] \in Elements
  BY FieldTypes DEF Plus, Over
<1>2. Over(d, n)
  BY <1>1 DEF Over
<1>3. ASSUME NEW k \in 0..n
      PROVE  Evaluator(a, l, d)[k] = Add(Evaluator(a, l, s)[k], Evaluator(a, l, t)[k])
  <2>. DEFINE td == [j \in 0..l |-> IF k - j \in 0..n THEN Mul(a[j], d[k - j]) ELSE 0]
              ts == [j \in 0..l |-> IF k - j \in 0..n THEN Mul(a[j], s[k - j]) ELSE 0]
              tt == [j \in 0..l |-> IF k - j \in 0..n THEN Mul(a[j], t[k - j]) ELSE 0]
  <2>1. /\ Evaluator(a, l, d)[k] = Sum(l + 1, td)
        /\ Evaluator(a, l, s)[k] = Sum(l + 1, ts)
        /\ Evaluator(a, l, t)[k] = Sum(l + 1, tt)
    <3>1. Evaluator(a, l, d)[k] = Sum(l + 1, td)
      BY DEF Evaluator, PolyMul
    <3>2. Evaluator(a, l, s)[k] = Sum(l + 1, ts)
      BY DEF Evaluator, PolyMul
    <3>3. Evaluator(a, l, t)[k] = Sum(l + 1, tt)
      BY DEF Evaluator, PolyMul
    <3>. QED
      BY <3>1, <3>2, <3>3
  <2>2. \A j \in 0..((l + 1) - 1) : j \in 0..l
    OBVIOUS
  <2>. HIDE DEF n
  <2>3. ASSUME NEW j \in 0..l
        PROVE  ts[j] \in Elements /\ tt[j] \in Elements /\ td[j] = Add(ts[j], tt[j])
    <3>1. a[j] \in Elements
      BY DEF Over
    <3>2. CASE k - j \in 0..n
      <4>1. /\ s[k - j] \in Elements /\ t[k - j] \in Elements
            /\ d[k - j] = Add(s[k - j], t[k - j])
        BY <1>1, <3>2
      <4>2. /\ Mul(a[j], Add(s[k - j], t[k - j])) = Add(Mul(a[j], s[k - j]), Mul(a[j], t[k - j]))
            /\ Mul(a[j], s[k - j]) \in Elements /\ Mul(a[j], t[k - j]) \in Elements
        BY <3>1, <4>1, Distributes, ArithmeticTypes
      <4>. QED
        BY <3>2, <4>1, <4>2
    <3>3. CASE k - j \notin 0..n
      <4>1. Add(0, 0) = 0 /\ 0 \in Elements
        BY AddLaws, FieldTypes
      <4>. QED
        BY <3>3, <4>1
    <3>. QED
      BY <3>2, <3>3
  <2>. HIDE DEF td, ts, tt
  <2>4. Terms(l + 1, ts) /\ Terms(l + 1, tt)
    BY <2>2, <2>3 DEF Terms
  <2>5. \A j \in 0..((l + 1) - 1) : td[j] = Add(ts[j], tt[j])
    BY <2>2, <2>3
  <2>6. l + 1 \in Nat
    OBVIOUS
  <2>7. Sum(l + 1, td) = Add(Sum(l + 1, ts), Sum(l + 1, tt))
    BY <2>4, <2>5, <2>6, SumAdd
  <2>. QED
    BY <2>1, <2>7
<1>4. Plus(Evaluator(a, l, d), Evaluator(a, l, s), Evaluator(a, l, t), n)
  BY <1>3 DEF Plus
<1>. QED
  BY <1>2, <1>4

\* Syndromes that follow the locator are told by their evaluator at its roots.
LEMMA SyndromesAgree ==
  ASSUME NEW l \in 0..MinDistance, NEW a, Over(a, l), a[0] = 1,
         NEW Q \in SUBSET Powers, Cardinality(Q) = l, RootsIn(a, l, Q),
         NEW s, Over(s, MinDistance - 1), FollowsAll(a, l, s, MinDistance),
         NEW v \in [Powers -> Elements], \A p \in Powers \ Q : v[p] = 0,
         NEW t, \A k \in 0..(MinDistance - 1) : t[k] = SyndromeOf(v, k),
         \A q \in Q : At(Evaluator(a, l, s), MinDistance - 1, RootOf(q))
                        = At(Evaluator(a, l, t), MinDistance - 1, RootOf(q))
  PROVE  \A k \in 0..(MinDistance - 1) : s[k] = t[k]
<1>. DEFINE n == MinDistance - 1
            d == [k \in 0..n |-> Add(s[k], t[k])]
            b == Evaluator(a, l, d)
            es == Evaluator(a, l, s)
            et == Evaluator(a, l, t)
<1>1. n \in Nat /\ l \in Nat /\ n + 1 = MinDistance /\ MinDistance - 1 = n
  BY Sizes
<1>2. Over(t, n)
  BY SyndromesOver
<1>3. Plus(d, s, t, n)
  BY DEF Plus
<1>4. Over(d, n) /\ Plus(b, es, et, n)
  <2>. HIDE DEF d
  <2>. QED
    BY <1>1, <1>2, <1>3, EvaluatorSum
<1>5. Over(es, n) /\ Over(et, n) /\ Over(b, n)
  <2>. HIDE DEF d
  <2>. QED
    BY <1>1, <1>2, <1>4, EvaluatorType
<1>6. ASSUME NEW k \in l..n PROVE b[k] = 0
  <2>1. k \in 0..n /\ k >= l /\ k \in l..(MinDistance - 1)
    BY <1>1
  <2>2. es[k] = Against(a, l, s, k) /\ Against(a, l, s, k) = 0
    <3>1. es[k] = Against(a, l, s, k)
      BY <1>1, <2>1, EvaluatorAbove
    <3>. QED
      BY <2>1, <3>1 DEF FollowsAll
  <2>3. et[k] = Against(a, l, t, k)
    BY <1>1, <2>1, EvaluatorAbove
  <2>4. Against(a, l, t, k) = SyndromeOf(Filtered(v, a, l), k)
    BY <1>1, <2>1, FilteredSyndromes
  <2>5. ASSUME NEW p \in Powers PROVE Filtered(v, a, l)[p] = 0
    <3>1. Filtered(v, a, l)[p] = Mul(v[p], At(a, l, RootOf(p)))
      BY DEF Filtered
    <3>2. v[p] \in Elements /\ At(a, l, RootOf(p)) \in Elements
      BY <1>1, RootsAre, AtType
    <3>3. v[p] = 0 \/ At(a, l, RootOf(p)) = 0
      BY DEF RootsIn
    <3>. QED
      BY <3>1, <3>2, <3>3, ZeroLaws
  <2>6. SyndromeOf(Filtered(v, a, l), k) = 0
    <3>. DEFINE m == BlockLength - 1
                g == Filtered(v, a, l)
                w == RootPowers(k)
                u == [p \in 0..m |-> Mul(g[p], w[p])]
    <3>1. m \in Nat /\ m + 1 \in Nat /\ Powers = 0..m /\ \A p \in 0..((m + 1) - 1) : p \in 0..m
      BY Sizes
    <3>2. Over(w, m)
      BY <2>1, RootPowersAre
    <3>3. \A p \in 0..m : g[p] = 0 /\ w[p] \in Elements
      BY <2>5, <3>1, <3>2 DEF Over
    <3>4. SyndromeOf(g, k) = Sum(m + 1, u)
      BY DEF SyndromeOf, Value
    <3>. HIDE DEF g, w
    <3>5. \A p \in 0..((m + 1) - 1) : u[p] = 0
      BY <3>1, <3>3, ZeroLaws
    <3>. HIDE DEF u, m
    <3>6. Sum(m + 1, u) = 0
      BY <3>1, <3>5, SumZeros
    <3>. QED
      BY <3>4, <3>6 DEF g
  <2>7. b[k] = Add(es[k], et[k])
    BY <1>4, <2>1 DEF Plus
  <2>. HIDE DEF b, es, et
  <2>. QED
    BY <2>2, <2>3, <2>4, <2>6, <2>7, AddLaws, FieldTypes
<1>7. ASSUME NEW q \in Q PROVE At(b, n, RootOf(q)) = 0
  <2>. DEFINE w == PowerTable(RootOf(q), n)
  <2>1. RootOf(q) \in Nonzero
    BY RootsAre
  <2>2. Over(w, n)
    BY <1>1, <2>1, PowerTableIs, ZeroLaws DEF Over
  <2>3. At(es, n, RootOf(q)) = At(et, n, RootOf(q))
    OBVIOUS
  <2>. HIDE DEF b, es, et, w, n
  <2>4. Value(b, n, w) = Add(Value(es, n, w), Value(et, n, w))
    BY <1>1, <1>4, <1>5, <2>2, ValueSum
  <2>5. Value(es, n, w) \in Elements
    BY <1>1, <1>5, <2>2, ValueType
  <2>6. Value(es, n, w) = Value(et, n, w)
    BY <2>3 DEF At, w
  <2>7. Value(b, n, w) = 0
    BY <2>4, <2>5, <2>6, AddLaws
  <2>. QED
    BY <2>7 DEF At, w
<1>. HIDE DEF b, es, et
<1>8. \A k \in 0..n : b[k] = 0
  <2>1. CASE l = 0
    BY <1>6, <2>1
  <2>2. CASE l # 0
    <3>1. l \in 1..(n + 1) /\ l - 1 \in Nat
      BY <1>1, <2>2
    <3>2. \A q \in Q : RootOf(q) \in Nonzero
      BY RootsAre
    <3>3. Over(b, l - 1) /\ \A q \in Q : At(b, l - 1, RootOf(q)) = 0
      <4>1. 1 \in Nonzero
        BY FieldTypes DEF Nonzero
      <4>2. \A r \in Nonzero : Over(b, l - 1) /\ At(b, n, r) = At(b, l - 1, r)
        BY <1>1, <1>5, <1>6, <3>1, LowOrder
      <4>. QED
        BY <1>7, <3>2, <4>1, <4>2
    <3>4. RootsIn(b, l - 1, Q)
      BY <3>3 DEF RootsIn
    <3>5. ~Some(b, l - 1)
      <4>1. SUFFICES ASSUME Some(b, l - 1) PROVE FALSE
        OBVIOUS
      <4>2. Few(l - 1)
        BY <3>1, FewRoots
      <4>3. Cardinality(Q) <= l - 1
        BY <3>3, <3>4, <4>1, <4>2 DEF Few
      <4>. QED
        BY <1>1, <4>3
    <3>6. \A k \in 0..n : k \in 0..(l - 1) \/ k \in l..n
      BY <1>1
    <3>. QED
      BY <1>6, <3>5, <3>6 DEF Some
  <2>. QED
    BY <2>1, <2>2
<1>9. \A k \in 0..n : d[k] = 0
  <2>1. \A k \in 0..(MinDistance - 1) : Evaluator(a, l, d)[k] = 0
    BY <1>1, <1>8 DEF b
  <2>. HIDE DEF d
  <2>. QED
    BY <1>1, <1>4, <2>1, NoEvaluator
<1>10. ASSUME NEW k \in 0..n PROVE s[k] = t[k]
  <2>1. s[k] \in Elements /\ t[k] \in Elements /\ Add(s[k], t[k]) = 0
    BY <1>1, <1>2, <1>9 DEF Over
  <2>2. Add(s[k], Add(t[k], t[k])) = Add(Add(s[k], t[k]), t[k])
    BY <2>1, AddLaws
  <2>. QED
    BY <2>1, <2>2, AddLaws
<1>. QED
  BY <1>10

\* The value of an error is the quotient of Forney's formula.
LEMMA ErrorValueDivides ==
  ASSUME IInv, Typed, phase = "correcting", FullOrder > 0, NEW q \in Powers,
         At(Derivative(FullLocator, FullOrder), FullOrder - 1, RootOf(q)) \in Nonzero
  PROVE  Mul(ErrorValue(RootOf(q)), At(Derivative(FullLocator, FullOrder), FullOrder - 1, RootOf(q)))
           = At(Evaluator(FullLocator, FullOrder, syndromeCopy), MinDistance - 1, RootOf(q))
<1>. DEFINE z == At(Derivative(FullLocator, FullOrder), FullOrder - 1, RootOf(q))
            y == At(Evaluator(FullLocator, FullOrder, syndromeCopy), MinDistance - 1, RootOf(q))
            v == Div(y, z)
<1>1. FullOrder \in Nat /\ Over(FullLocator, FullOrder) /\ Over(syndromeCopy, MinDistance - 1)
  <2>1. FullOrder \in 0..MinDistance /\ Over(FullLocator, FullOrder)
    BY CorrectingTypes
  <2>. QED
    BY <2>1, Sizes DEF Typed, Received, Over
<1>2. y \in Elements
  BY <1>1, EvaluatorType, RootsAre, Sizes, AtType
<1>3. z \in Nonzero
  OBVIOUS
<1>. HIDE DEF y, z
<1>4. v \in Elements /\ Mul(v, z) = y
  BY <1>2, <1>3, DivLaws
<1>5. Forneys(v, FullLocator, FullOrder, syndromeCopy, q)
  BY <1>3, <1>4 DEF Forneys, y, z
<1>. HIDE DEF v
<1>6. ErrorValue(RootOf(q)) = v
  BY <1>4, <1>5, ErrorValueIs
<1>. QED
  BY <1>4, <1>6 DEF y, z

LEMMA CorrectsToCodeword ==
  ASSUME IInv, Typed, Arrived, Solved, Correct, erased = <<>>, errorLocator.order < MinDistance
  PROVE  receivedPolynomial' \in [Powers -> Elements] /\ Vanishes(receivedPolynomial')
<1>. DEFINE l == FullOrder
            a == FullLocator
            s == syndromeCopy
            z(q) == At(Derivative(a, l), l - 1, RootOf(q))
            v == [p \in Powers |-> IF p \in RootSet THEN ErrorValue(RootOf(p)) ELSE 0]
            t == [k \in 0..(MinDistance - 1) |-> SyndromeOf(v, k)]
<1>1. /\ phase = "correcting" /\ Len(erased) = 0 /\ l \in 0..MinDistance /\ l \in Nat
      /\ l = Len(erased) + errorLocator.order /\ errorLocator.order \in Nat /\ l = errorLocator.order
      /\ Over(a, l) /\ Over(s, MinDistance - 1) /\ RootSet \in SUBSET Powers
  <2>1. phase = "correcting" /\ Len(erased) = 0
    BY DEF Correct
  <2>2. /\ l = Len(erased) + errorLocator.order /\ errorLocator.order \in Nat
        /\ l \in 0..MinDistance /\ Over(a, l)
    BY <2>1, CorrectingTypes
  <2>3. Over(s, MinDistance - 1) /\ RootSet \in SUBSET Powers
    BY DEF Typed, Received, Over, RootSet
  <2>4. l = errorLocator.order
    BY <2>1, <2>2
  <2>. QED
    BY <2>1, <2>2, <2>3, <2>4, Sizes
<1>2. a = errorLocator.coeff
  BY <1>1 DEF FullLocator
<1>3. /\ noise \in [Powers -> Elements] /\ sent \in [Powers -> Elements] /\ Vanishes(sent)
      /\ receivedPolynomial = [p \in Powers |-> Add(sent[p], noise[p])]
      /\ \A k \in 0..(MinDistance - 1) : s[k] = SyndromeOf(noise, k)
  BY <1>1 DEF Arrived, SameSyndromes
<1>4. /\ errorLocator.coeff[0] = 1
      /\ Cardinality(RootSet) = errorLocator.order
      /\ Lists(errorRoots, Len(erased), FullOrder - 1, RootSet)
      /\ FollowsAll(errorLocator.coeff, errorLocator.order, syndromeCopy, MinDistance)
  BY <1>1 DEF Solved
<1>5. Cardinality(RootSet) = l /\ RootsIn(a, l, RootSet) /\ Some(a, l)
  <2>1. Erasures = {} /\ Erasures \cap RootSet = {} /\ Erasures \cup RootSet = RootSet
    BY <1>1 DEF Erasures
  <2>2. Cardinality(Erasures) = Len(erased)
    BY <1>1, <2>1, FS_EmptySet
  <2>3. Everywhere(RootSet)
    BY <1>1, <1>4, <2>1, <2>2, FullRoots
  <2>. QED
    BY <2>3 DEF Everywhere
<1>6. ASSUME NEW q \in RootSet PROVE l > 0 /\ l \in 1..MinDistance
  <2>1. IsFiniteSet(RootSet) /\ RootSet # {}
    BY <1>1, PowersFinite
  <2>2. l # 0
    BY <1>5, <2>1, FS_EmptySet
  <2>. QED
    BY <1>1, <2>2, Sizes
<1>7. /\ v \in [Powers -> Elements]
      /\ \A p \in Powers \ RootSet : v[p] = 0
      /\ \A q \in RootSet : ErrorValue(RootOf(q)) = v[q]
  <2>1. ASSUME NEW q \in RootSet PROVE ErrorValue(RootOf(q)) \in Elements
    <3>1. RootOf(q) \in 1..FieldMax
      BY <1>1, RootsAre DEF Nonzero
    <3>. QED
      BY <1>1, <1>6, <3>1, ErrorValueType
  <2>. QED
    BY <1>1, <2>1, FieldTypes
<1>8. \A k \in 0..(MinDistance - 1) : t[k] = SyndromeOf(v, k)
  OBVIOUS
<1>9. receivedPolynomial' = [p \in Powers |-> Add(receivedPolynomial[p], v[p])]
  <2>1. Lists(errorRoots, 0, FullOrder - 1, RootSet)
    BY <1>1, <1>4
  <2>2. RootSet \in SUBSET Powers
    BY <1>1
  <2>. HIDE DEF v, t, l, a, s
  <2>. QED
    BY <1>7, <2>1, <2>2, Corrects
<1>. HIDE DEF v, t
<1>10. ASSUME NEW q \in RootSet
       PROVE  At(Evaluator(a, l, s), MinDistance - 1, RootOf(q))
                = At(Evaluator(a, l, t), MinDistance - 1, RootOf(q))
  <2>1. Forneys(v[q], a, l, t, q)
    <3>. HIDE DEF a, l
    <3>. QED
      BY <1>1, <1>5, <1>6, <1>7, <1>8, Forney
  <2>2. z(q) \in Nonzero /\ At(Evaluator(a, l, t), MinDistance - 1, RootOf(q)) = Mul(v[q], z(q))
    BY <2>1 DEF Forneys
  <2>3. Mul(ErrorValue(RootOf(q)), z(q)) = At(Evaluator(a, l, s), MinDistance - 1, RootOf(q))
    BY <1>1, <1>6, <2>2, ErrorValueDivides
  <2>4. ErrorValue(RootOf(q)) = v[q]
    BY <1>7
  <2>. HIDE DEF a, l, s, z
  <2>. QED
    BY <2>2, <2>3, <2>4
<1>11. \A k \in 0..(MinDistance - 1) : s[k] = t[k]
  <2>1. a[0] = 1 /\ FollowsAll(a, l, s, MinDistance)
    BY <1>1, <1>2, <1>4
  <2>. HIDE DEF a, l, s
  <2>. QED
    BY <1>1, <1>5, <1>7, <1>8, <1>10, <2>1, SyndromesAgree
<1>12. receivedPolynomial \in [Powers -> Elements]
  BY DEF Typed, Received
<1>13. ASSUME NEW k \in 0..(MinDistance - 1) PROVE SyndromeOf(receivedPolynomial', k) = 0
  <2>1. /\ SyndromeOf(receivedPolynomial, k) = Add(SyndromeOf(sent, k), SyndromeOf(noise, k))
        /\ SyndromeOf(noise, k) \in Elements
    BY <1>3, SyndromeSum
  <2>2. SyndromeOf(receivedPolynomial', k) = Add(SyndromeOf(receivedPolynomial, k), SyndromeOf(v, k))
    BY <1>7, <1>9, <1>12, SyndromeSum
  <2>3. SyndromeOf(sent, k) = 0 /\ SyndromeOf(noise, k) = SyndromeOf(v, k)
    BY <1>3, <1>8, <1>11 DEF Vanishes
  <2>. QED
    BY <2>1, <2>2, <2>3, AddLaws
<1>14. receivedPolynomial' \in [Powers -> Elements]
  BY <1>7, <1>9, <1>12, SyndromeSum, FieldTypes
<1>. QED
  BY <1>13, <1>14 DEF Vanishes

\* What is returned is a codeword because its syndromes are 0.
LEMMA CodewordsNext ==
  /\ IInv /\ Typed /\ Explained /\ Arrived /\ Solved
  /\ OnlyCodewords /\ [Next]_vars
  => OnlyCodewords'
<1>. SUFFICES ASSUME IInv, Typed, Explained, Arrived, Solved, OnlyCodewords, [Next]_vars
              PROVE  OnlyCodewords'
  OBVIOUS
<1>1. CASE InitRs \/ DestroyRs \/ UNCHANGED vars
  <2>1. phase' = phase /\ UNCHANGED <<block, locators, call>>
    BY <1>1 DEF InitRs, DestroyRs, vars
  <2>. QED
    BY <2>1 DEF OnlyCodewords, block, locators, call
<1>2. CASE RsEncode \/ ReceiveDamaged \/ Factorize
  BY <1>2 DEF RsEncode, ReceiveDamaged, Factorize, OnlyCodewords
<1>3. CASE Describes \/ Lengthen \/ Adjust
  BY <1>3 DEF Describes, Lengthen, Adjust, More, OnlyCodewords
<1>4. CASE ReceiveClean
  <2>1. /\ noise' \in [Powers -> Elements] /\ sent \in [Powers -> Elements] /\ Vanishes(sent)
        /\ receivedPolynomial' = [p \in Powers |-> Add(sent[p], noise'[p])]
        /\ SameSyndromes(Syndromes(receivedPolynomial'), noise', MinDistance)
    BY <1>4, BlockArrives
  <2>2. Syndromes(receivedPolynomial') = Zeros(MinDistance - 1)
    BY <1>4 DEF ReceiveClean
  <2>3. ASSUME NEW k \in 0..(MinDistance - 1) PROVE SyndromeOf(receivedPolynomial', k) = 0
    <3>1. Syndromes(receivedPolynomial')[k] = 0
      BY <2>2 DEF Zeros
    <3>2. SyndromeOf(noise', k) = 0 /\ SyndromeOf(sent, k) = 0
      BY <2>1, <3>1 DEF SameSyndromes, Vanishes
    <3>3. SyndromeOf(receivedPolynomial', k) = Add(SyndromeOf(sent, k), SyndromeOf(noise', k))
      BY <2>1, SyndromeSum
    <3>. QED
      BY <3>2, <3>3, AddLaws, FieldTypes
  <2>4. receivedPolynomial' \in [Powers -> Elements] /\ Vanishes(receivedPolynomial')
    BY <2>1, <2>3, FieldTypes DEF Vanishes
  <2>. QED
    BY <2>4, Codeword DEF OnlyCodewords
<1>5. CASE FactorizeFails
  <2>1. code' = ReturnOf(-1)
    BY <1>5 DEF FactorizeFails
  <2>2. ReturnOf(-1) = "REED_SOL_DEC_ERR"
    <3>1. ((-1 + 128) % 256) - 128 = -1
      OBVIOUS
    <3>. QED
      BY <3>1 DEF ReturnOf
  <2>. QED
    BY <2>1, <2>2 DEF OnlyCodewords
<1>6. CASE Correct
  <2>1. erased' = erased /\ errorLocator' = errorLocator
    BY <1>6 DEF Correct, locators
  <2>2. ASSUME erased = <<>>, errorLocator.order < MinDistance
        PROVE  receivedPolynomial' \in [Powers -> Elements] /\ Vanishes(receivedPolynomial')
    BY <1>6, <2>2, CorrectsToCodeword
  <2>. QED
    BY <2>1, <2>2, Codeword DEF OnlyCodewords
<1>. QED
  BY <1>1, <1>2, <1>3, <1>4, <1>5, <1>6 DEF Next, RsDecode

-----------------------------------------------------------------------------
(* Theorems *)

\* Every symbol the codec computes is an element of its field, its numbers keep
\* their ranges, and where an error is located is an index of the block, for every
\* field and code (rsEncode, rsDecode).
THEOREM TypeCorrect == Spec => []TypeOK
<1>1. Typed => TypeOK
  BY DEF Typed, Received, Errors, Counters, TypeOK
<1>. QED
  BY <1>1, Inductive, TypedInit, TypedNext, PTL DEF Spec

\* The locator search stays inside its buffers whatever the syndromes are.
THEOREM SearchStaysInside == Spec => []InsideBuffers
<1>1. ASSUME IInv PROVE InsideBuffers
  <2>1. More => Top <= MinDistance
    <3>1. SUFFICES ASSUME More PROVE Top <= MinDistance
      OBVIOUS
    <3>2. i \in Nat /\ i < MinDistance - Len(erased) /\ Len(erased) \in Nat /\ Balance
      BY <1>1, <3>1, CodecAssumption DEF IInv, Searching, More
    <3>. QED
      BY <3>2, CodecAssumption DEF Top, Balance
  <2>2. ASSUME phase = "locating" PROVE FullOrder <= MinDistance
    <3>1. i \in 0..(MinDistance - Len(erased)) /\ Len(erased) \in Nat /\ Balance
      BY <1>1, <2>2, CodecAssumption DEF IInv, Searching
    <3>. QED
      BY <3>1, CodecAssumption DEF FullOrder, Balance
  <2>3. ASSUME phase = "correcting" PROVE FullOrder <= MinDistance
    BY <1>1, <2>3, CodecAssumption DEF IInv, Finished, FullOrder
  <2>. QED
    BY <2>1, <2>2, <2>3 DEF InsideBuffers
<1>. QED
  BY <1>1, Inductive, PTL

\* The order of the locator is the number of errors at every iteration.
THEOREM OrderIsNumberOfErrors == Spec => []LengthExact
<1>1. ASSUME IInv PROVE LengthExact
  <2>1. SUFFICES ASSUME phase = "locating"
                 PROVE  errorLocator.order = numerrors /\ Top = i + 1 - numerrors
    BY DEF LengthExact
  <2>2. Balance /\ i \in 0..(MinDistance - Len(erased)) /\ Len(erased) \in 0..MinDistance
    BY <1>1, <2>1 DEF IInv, Searching
  <2>3. i \in Nat
    BY <2>2, CodecAssumption
  <2>. QED
    BY <2>2, <2>3 DEF Balance, Top
<1>. QED
  BY <1>1, Inductive, PTL

\* After every iteration the syndromes read so far follow the recurrence that the
\* locator's coefficients are (reed_solomon_find_error_locator), for every field
\* and every block.
THEOREM LocatorIsRecurrence == Spec => []LocatorFollows
<1>1. ASSUME IInv, Typed, Tracking PROVE LocatorFollows
  <2>1. SUFFICES ASSUME phase = "locating" PROVE Follows(errorLocator.coeff, numerrors, i)
    BY DEF LocatorFollows
  <2>2. Monic /\ Fits
    BY <1>1, <2>1 DEF Tracking
  <2>3. numerrors \in Nat /\ Over(errorLocator.coeff, numerrors)
    <3>1. numerrors \in 0..MinDistance
      BY <1>1 DEF Typed, Counters
    <3>2. numerrors \in Nat /\ \A k \in 0..numerrors : k \in 0..MinDistance
      BY <3>1, Sizes
    <3>. QED
      BY <1>1, <3>2, Contents DEF Over
  <2>. QED
    <3>. DEFINE a == errorLocator.coeff    l == numerrors
    <3>1. l \in Nat /\ Over(a, l) /\ a[0] = 1 /\ \A k \in l..(i - 1) : Against(a, l, syndromes, k) = 0
      BY <2>2, <2>3, Zenon DEF Monic, Fits
    <3>. HIDE DEF a, l
    <3>2. \A k \in l..(i - 1) :
            Against(a, l, syndromes, k) =
              Add(syndromes[k], Sum(l, [j \in 0..(l - 1) |-> Mul(a[j + 1], syndromes[k - j - 1])]))
      BY <1>1, <2>1, <3>1, FollowsIs
    <3>3. Follows(a, l, i)
      BY <3>1, <3>2, Zenon DEF Follows
    <3>. QED
      BY <3>3, Zenon DEF a, l
<1>. QED
  BY <1>1, Inductive, TypedInit, TypedNext, Tracks, PTL DEF Spec

\* And none of a shorter length: the Berlekamp-Massey search is right, for every field,
\* number of parity symbols, block and erasures.
THEOREM LocatorIsShortest == Spec => []LocatorShortest
<1>1. ASSUME IInv, Typed, Tracking PROVE LocatorShortest
  <2>1. SUFFICES ASSUME phase = "locating", NEW l \in 0..(numerrors - 1),
                        NEW a \in [1..l -> Elements], Follows(a, l, i)
                 PROVE  FALSE
    BY DEF LocatorShortest
  <2>. DEFINE c == [j \in 0..l |-> IF j = 0 THEN 1 ELSE a[j]]
  <2>2. l \in Nat /\ \A j \in 0..(l - 1) : j + 1 \in 1..l /\ j + 1 \in 0..l /\ j + 1 # 0
    OBVIOUS
  <2>3. c \in [0..l -> Elements] /\ c[0] = 1 /\ Over(c, l)
    <3>1. \A j \in 0..l : c[j] \in Elements
      BY FieldTypes
    <3>. QED
      BY <3>1 DEF Over
  <2>4. \A j \in 0..(l - 1) : c[j + 1] = a[j + 1]
    BY <2>2
  <2>. HIDE DEF c
  <2>5. ASSUME NEW k \in l..(i - 1) PROVE Against(c, l, syndromes, k) = 0
    <3>1. [j \in 0..(l - 1) |-> Mul(c[j + 1], syndromes[k - j - 1])]
            = [j \in 0..(l - 1) |-> Mul(a[j + 1], syndromes[k - j - 1])]
      BY <2>4
    <3>2. Against(c, l, syndromes, k) =
            Add(syndromes[k], Sum(l, [j \in 0..(l - 1) |-> Mul(c[j + 1], syndromes[k - j - 1])]))
      BY <1>1, <2>1, <2>2, <2>3, FollowsIs
    <3>3. Add(syndromes[k], Sum(l, [j \in 0..(l - 1) |-> Mul(a[j + 1], syndromes[k - j - 1])])) = 0
      BY <2>1 DEF Follows
    <3>. QED
      BY <3>1, <3>2, <3>3
  <2>6. Refuted(c, l, syndromes, i)
    BY <1>1, <2>1, <2>3 DEF Tracking, NoneShorter, NoneBelow
  <2>. QED
    BY <2>5, <2>6 DEF Refuted
<1>. QED
  BY <1>1, Inductive, TypedInit, TypedNext, Tracks, PTL DEF Spec

\* The locator is evaluated inside its table of powers as long as fewer than
\* MinDistance symbols are damaged (reed_solomon_factorize_error_locator), for every
\* field, code, message and noise.
THEOREM TableSuffices == Spec => []PowersSuffice
<1>1. ASSUME IInv, Typed, Tracking, Explained PROVE PowersSuffice
  <2>1. SUFFICES ASSUME Located, Cardinality(Damaged) < MinDistance
                 PROVE  errorLocator.order < MinDistance
    BY DEF PowersSuffice
  <2>2. phase = "locating" /\ i = MinDistance - Len(erased)
    BY <2>1 DEF Located
  <2>3. Balance /\ erased \in Seq(Powers)
    BY <1>1, <2>2 DEF IInv, Searching, Typed, Errors
  <2>4. numerrors \in Nat /\ errorLocator.order = numerrors /\ Len(erased) \in Nat
        /\ numerrors <= i
    BY <2>2, <2>3, Sizes DEF Balance
  <2>5. CASE erased = <<>>
    <3>1. Cardinality(Damaged) \in Nat /\ numerrors <= Cardinality(Damaged)
      BY <1>1, <2>2, <2>5, NoLongerThanDamage
    <3>. QED
      BY <2>1, <2>4, <3>1, Sizes
  <2>6. CASE erased # <<>>
    <3>1. Len(erased) > 0
      BY <2>3, <2>6
    <3>. QED
      BY <2>2, <2>4, <3>1, Sizes
  <2>. QED
    BY <2>5, <2>6
<1>2. Init => Explained
  BY DEF Init, Explained
<1>. QED
  BY <1>1, <1>2, Inductive, TypedInit, TypedNext, Tracks, ExplainedNext, PTL DEF Spec

\* Whatever the decoder's buffers hold from earlier calls, a block in which twice the
\* errors and the erasures are at most MinDistance comes out as it was sent
\* (correct_reed_solomon_decode), for every field, code, message, noise and erasures.
THEOREM DecodeCorrects == Spec => []DecodeRestores
<1>1. Init => Explained /\ Arrived /\ Solved /\ DecodeRestores
  BY DEF Init, Explained, Arrived, Solved, DecodeRestores
<1>. QED
  BY <1>1, Inductive, TypedInit, TypedNext, Tracks, ExplainedNext, ArrivedNext, SolvedNext,
     RestoresNext, PTL DEF Spec

\* However many symbols are damaged, a block that correct_reed_solomon_decode calls
\* corrected is the encoding of its message part, provided the locator was evaluated
\* inside its table of powers: a failed correction is noticed or ends at a codeword.
THEOREM OnlyCodewordsReturned == Spec => []OnlyCodewords
<1>1. Init => Explained /\ Arrived /\ Solved /\ OnlyCodewords
  BY DEF Init, Explained, Arrived, Solved, OnlyCodewords
<1>. QED
  BY <1>1, Inductive, TypedInit, TypedNext, Tracks, ExplainedNext, ArrivedNext, SolvedNext,
     CodewordsNext, PTL DEF Spec
=============================================================================
