----------------------------- MODULE GaloisField -----------------------------
(***************************************************************************)
(* Arithmetic of libcorrect's Reed-Solomon codec: the field with FieldMax  *)
(* + 1 elements by its tables exp and log (field.h), and polynomials over  *)
(* it (polynomial.c).  A coeff array is a function from 0; its order is    *)
(* passed beside it.  Log[0] = 0 means "no logarithm", and so a logarithm  *)
(* of 0 is skipped; 1 has the logarithm FieldMax.                          *)
(***************************************************************************)
EXTENDS Integers

CONSTANTS
  FieldMax,        \* 255 in the code: elements and logarithms are bytes
  PrimitivePoly    \* primitive_poly, with its leading bit

Elements == 0..FieldMax

\* x ^ y
XorTable ==
  LET xor[x \in Elements, y \in Elements] ==
        IF x = 0 THEN y ELSE (2 * xor[x \div 2, y \div 2]) + ((x + y) % 2)
  IN  [x \in Elements |-> [y \in Elements |-> xor[x, y]]]

\* field_add and field_sub
Add(l, r) == XorTable[l][r]

\* term[0] + ... + term[n - 1]
Sum(n, term) ==
  LET s[k \in 0..n] == IF k = 0 THEN 0 ELSE Add(s[k - 1], term[k - 1]) IN s[n]

-----------------------------------------------------------------------------
(* field.h *)

Exp ==
  LET times2(x) == IF 2 * x > FieldMax
                   THEN Add(2 * x - FieldMax - 1, PrimitivePoly - FieldMax - 1)
                   ELSE 2 * x
      exp[k \in 0..(2 * FieldMax + 1)] == IF k = 0 THEN 1 ELSE times2(exp[k - 1])
  IN  [k \in 0..(2 * FieldMax + 1) |-> exp[k]]

\* slip: the logarithm of 1 is 0, which is skipped
LogOneZero ==
  [x \in Elements |->
     IF x = 0 THEN 0 ELSE CHOOSE k \in 0..(FieldMax - 1) : Exp[k] = x]

Log ==
  [x \in Elements |-> IF x = 0 THEN 0 ELSE CHOOSE k \in 1..FieldMax : Exp[k] = x]

MulLogElement(l, r) == Exp[l + r]

Mul(l, r) == IF 0 \in {l, r} THEN 0 ELSE Exp[Log[l] + Log[r]]

\* division by 0 gives 0
Div(l, r) == IF 0 \in {l, r} THEN 0 ELSE Exp[FieldMax + Log[l] - Log[r]]

Wrapped(x) == IF x > FieldMax THEN x - FieldMax ELSE x

MulLog(l, r) == Wrapped(l + r)

DivLog(l, r) == Wrapped(FieldMax + l - r)

Pow(elem, pow) == Exp[(Log[elem] * pow) % FieldMax]

\* field_sum: elem + ... + elem, n times
SumOf(elem, n) == IF n % 2 = 1 THEN elem ELSE 0

\* FieldMax + 1 is a power of 2, and PrimitivePoly is primitive: the powers of 2
\* are the elements but 0, once each, and begin again after FieldMax of them ...
ASSUME FieldAssumption ==
  /\ FieldMax \in 1..255
  /\ \A x, y \in Elements : Add(x, y) \in Elements
  /\ Exp \in [0..(2 * FieldMax + 1) -> 1..FieldMax]
  /\ Exp[0] = 1 /\ Exp[FieldMax] = 1
  /\ \A x \in 1..FieldMax : \E k \in 1..FieldMax : Exp[k] = x

\* ... so that the tables are those of a field
ASSUME AlgebraAssumption ==
  /\ \A x, y \in Elements : Add(x, y) = Add(y, x)
  /\ \A x \in Elements : Add(x, 0) = x /\ Add(x, x) = 0
  /\ \A x, y, z \in Elements : Add(x, Add(y, z)) = Add(Add(x, y), z)
  /\ \A x, y, z \in Elements : Mul(x, Add(y, z)) = Add(Mul(x, y), Mul(x, z))
  /\ \A j, k \in 1..FieldMax : Exp[j] = Exp[k] => j = k
  /\ \A k \in 0..FieldMax : Exp[FieldMax + k] = Exp[k]

-----------------------------------------------------------------------------
(* polynomial.c *)

\* l * r up to the power resOrder
PolyMul(l, lOrder, r, rOrder, resOrder) ==
  [k \in 0..resOrder |->
     Sum(lOrder + 1,
         [i \in 0..lOrder |-> IF k - i \in 0..rOrder THEN Mul(l[i], r[k - i]) ELSE 0])]

\* one row of the long division, at the power i
DivisionRow(mod, order, divisor, divisorOrder, i) ==
  LET q == DivLog(Log[mod[i]], Log[divisor[divisorOrder]])
      shift == i - divisorOrder
  IN  IF mod[i] = 0 THEN mod
      ELSE [k \in 0..order |->
              IF k - shift \in 0..divisorOrder /\ divisor[k - shift] # 0
              THEN Add(mod[k], MulLogElement(Log[divisor[k - shift]], q))
              ELSE mod[k]]

\* the remainder is left in the low coefficients
PolyMod(dividend, order, divisor, divisorOrder) ==
  LET after[k \in 0..(order - divisorOrder + 1)] ==
        IF k = 0 THEN dividend
        ELSE DivisionRow(after[k - 1], order, divisor, divisorOrder, order + 1 - k)
  IN  after[order - divisorOrder + 1]

Derivative(poly, order) == [k \in 0..(order - 1) |-> SumOf(poly[k + 1], k + 1)]

\* the logarithms of val^0, ..., val^order
BuildExpLut(val, order) ==
  LET p[k \in 0..order] == IF k = 0 THEN Log[1] ELSE MulLog(p[k - 1], Log[val])
  IN  [k \in 0..order |-> IF val = 0 THEN 0 ELSE p[k]]

EvalLogLut(polyLog, order, valExp) ==
  IF valExp[0] = 0
  THEN IF polyLog[0] = 0 THEN 0 ELSE Exp[polyLog[0]]
  ELSE Sum(order + 1,
           [k \in 0..order |->
              IF polyLog[k] = 0 THEN 0 ELSE MulLogElement(polyLog[k], valExp[k])])

EvalLut(poly, order, valExp) ==
  IF valExp[0] = 0
  THEN poly[0]
  ELSE Sum(order + 1,
           [k \in 0..order |->
              IF poly[k] = 0 THEN 0 ELSE MulLogElement(Log[poly[k]], valExp[k])])

\* (x + roots[1]) ... (x + roots[n])
FromRoots(roots, n) ==
  LET times[k \in 0..n] ==
        IF k = 0 THEN [i \in {0} |-> 1]
        ELSE PolyMul([i \in 0..1 |-> IF i = 0 THEN roots[k - 1] ELSE 1], 1,
                     times[k - 1], k - 1, k)
  IN  times[n]
=============================================================================
