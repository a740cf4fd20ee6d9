-------------------------- MODULE CommsPipelineProofs --------------------------
(***************************************************************************)
(* What ax25Recv hears of every frame that was not damaged, for any data,  *)
(* sizes and control bytes.  Loop is that of its source bit by bit         *)
(* (LoopRuns); Place says where in the stuffed bits the unstuffer is, and  *)
(* what it has of the frame (InStep); the padding is zeros, and the counts *)
(* at the end drop it (DeliveredIsFrame).  Framed is what ax25Recv looks   *)
(* at, and every frame sent has it (SendableFrames).  Repairable is what   *)
(* decode_frame puts right: a codeword no other is as near to              *)
(* (CorrectedIsSent), put back between what arrived as it was sent         *)
(* (SplicedIsSent).  What it takes as it came is what was sent where       *)
(* nothing was stuffed (AckPlain): the registers of the CRC over an ACK,   *)
(* one by one (CrcRuns), say that its bytes are Calm.  A register tells    *)
(* what it was before a byte and what its low byte was before two          *)
(* (CrcStepTells), so bursts leave another one (CrcNoticesBursts).         *)
(***************************************************************************)
EXTENDS CommsPipeline, DataLemmas, SequenceTheorems, FiniteSetTheorems, TLAPS

-----------------------------------------------------------------------------
(* A loop over bits *)

\* what a step of the loop returns
Cells(step) == [out : Seq(Bit), state : DOMAIN step]

Table(step) == step \in [DOMAIN step -> [Bit -> Cells(step)]]

\* what has been written, and the state, after one bit more
After(step, v, bit) ==
  [out |-> v.out \o step[v.state][bit].out, state |-> step[v.state][bit].state]

\* v is what comes of two stretches of bits
Joins(v, left, right) == v = [out |-> left.out \o right.out, state |-> right.state]

\* r is what the loop has written, and its state, after each of the n bits from bit i on
IsRun(r, step, state, bits, i, n) ==
  /\ r[0] = [out |-> <<>>, state |-> state]
  /\ \A k \in 1..n : r[k] = After(step, r[k - 1], bits[i + k - 1])
  /\ \A k \in 0..n : r[k] \in Cells(step)

\* The table's entries, and one bit more, have their types.
LEMMA CellTypes ==
  ASSUME NEW step, Table(step)
  PROVE  /\ \A s \in DOMAIN step, bit \in Bit :
              /\ step[s][bit] \in Cells(step)
              /\ step[s][bit].out \in Seq(Bit) /\ step[s][bit].state \in DOMAIN step
         /\ \A v \in Cells(step), bit \in Bit : After(step, v, bit) \in Cells(step)
         /\ \A s \in DOMAIN step : [out |-> <<>>, state |-> s] \in Cells(step)
<1>. DEFINE S == DOMAIN step
<1>1. ASSUME NEW s \in S, NEW bit \in Bit
      PROVE  step[s][bit] \in Cells(step)
  <2>1. step[s] \in [Bit -> Cells(step)]
    BY Zenon DEF Table
  <2>. QED
    BY <2>1, Zenon
<1>2. ASSUME NEW c \in Cells(step) PROVE c.out \in Seq(Bit) /\ c.state \in S
  BY DEF Cells
<1>3. ASSUME NEW v \in Cells(step), NEW bit \in Bit
      PROVE  After(step, v, bit) \in Cells(step)
  <2>. DEFINE c == step[v.state][bit]
  <2>1. v.out \in Seq(Bit) /\ v.state \in S
    BY <1>2
  <2>2. c.out \in Seq(Bit) /\ c.state \in S
    BY <2>1, <1>1, <1>2
  <2>3. After(step, v, bit) = [out |-> v.out \o c.out, state |-> c.state]
    BY Zenon DEF After
  <2>. HIDE DEF c
  <2>4. v.out \o c.out \in Seq(Bit)
    BY <2>1, <2>2
  <2>. QED
    BY <2>2, <2>3, <2>4 DEF Cells
<1>4. \A s \in S : [out |-> <<>>, state |-> s] \in Cells(step)
  BY DEF Cells
<1>. QED
  BY <1>1, <1>2, <1>3, <1>4, Zenon

\* Every stretch of bits has a run from every state.
LEMMA RunExists ==
  ASSUME NEW step, Table(step), NEW state \in DOMAIN step, NEW bits \in Seq(Bit),
         NEW i \in Nat \ {0}, NEW n \in Nat, i + n <= Len(bits) + 1
  PROVE  \E r : IsRun(r, step, state, bits, i, n)
<1>. DEFINE T == [k \in 0..n |-> Cells(step)]
            next == [k \in 1..n |-> [v \in Cells(step) |-> After(step, v, bits[i + k - 1])]]
            first == [out |-> <<>>, state |-> state]
<1>1. ASSUME NEW k \in 1..n PROVE bits[i + k - 1] \in Bit
  <2>1. i + k - 1 \in 1..Len(bits)
    OBVIOUS
  <2>. QED
    BY <2>1, ElementOfSeq
<1>2. \A k \in 1..n : k \in 0..n /\ k - 1 \in 0..n
  OBVIOUS
<1>3. \A k \in 0..n : T[k] = Cells(step)
  BY Zenon
<1>4. first \in T[0]
  <2>1. 0 \in 0..n
    OBVIOUS
  <2>2. first \in Cells(step)
    BY CellTypes, Zenon
  <2>. QED
    BY <2>1, <2>2, <1>3, Zenon
<1>5. \A k \in 1..n : \A v \in T[k - 1] : next[k][v] = After(step, v, bits[i + k - 1])
  BY <1>2, <1>3, Zenon
<1>6. \A k \in 1..n : \A v \in T[k - 1] : next[k][v] \in T[k]
  BY <1>1, <1>2, <1>3, <1>5, CellTypes, Zenon
<1>. HIDE DEF T, next, first
<1>7. PICK r : Iterates(r, n, T, first, next)
  BY <1>4, <1>6, Iteration, Zenon
<1>8. \A k \in 0..n : r[k] \in Cells(step)
  BY <1>3, <1>7, Zenon DEF Iterates
<1>9. \A k \in 1..n : r[k] = After(step, r[k - 1], bits[i + k - 1])
  BY <1>2, <1>5, <1>7, Zenon DEF Iterates
<1>10. r[0] = first
  BY <1>7, Zenon DEF Iterates
<1>. QED
  BY <1>8, <1>9, <1>10, Zenon DEF IsRun, first

\* A run goes on as the run that begins where it has come to.
LEMMA RunJoins ==
  ASSUME NEW step, Table(step), NEW state \in DOMAIN step, NEW bits \in Seq(Bit),
         NEW i \in Nat \ {0}, NEW n \in Nat, i + n <= Len(bits) + 1,
         NEW r, IsRun(r, step, state, bits, i, n),
         NEW a \in 0..n, NEW m \in 0..(n - a),
         NEW q, IsRun(q, step, r[a].state, bits, i + a, m)
  PROVE  \A b \in 0..m :
           Joins(r[a + b], r[a], q[b])
<1>. DEFINE Ends == {b \in 0..m : Joins(r[a + b], r[a], q[b])}
<1>1. r[a] \in Cells(step) /\ r[a].out \in Seq(Bit)
  BY DEF IsRun, Cells
<1>2. 0 \in Ends
  <2>1. q[0] = [out |-> <<>>, state |-> r[a].state]
    BY DEF IsRun
  <2>2. r[a].out \o <<>> = r[a].out
    BY <1>1
  <2>3. r[a] = [out |-> r[a].out, state |-> r[a].state]
    BY <1>1 DEF Cells
  <2>4. a + 0 = a /\ 0 \in 0..m
    OBVIOUS
  <2>5. q[0].out = <<>> /\ q[0].state = r[a].state
    BY <2>1
  <2>6. Joins(r[a + 0], r[a], q[0])
    BY <2>2, <2>3, <2>4, <2>5, Zenon DEF Joins
  <2>. QED
    BY <2>4, <2>6
<1>3. ASSUME NEW b \in 1..m, b - 1 \in Ends PROVE b \in Ends
  <2>. DEFINE bit == bits[i + a + b - 1]
              c == step[q[b - 1].state][bit]
  <2>1. r[a + (b - 1)] = [out |-> r[a].out \o q[b - 1].out, state |-> q[b - 1].state]
    BY <1>3 DEF Joins
  <2>2. /\ a + b \in 1..n /\ a + (b - 1) = (a + b) - 1 /\ b \in 0..m /\ b - 1 \in 0..m
        /\ i + (a + b) - 1 = i + a + b - 1 /\ i + a + b - 1 \in 1..Len(bits)
    OBVIOUS
  <2>3. bit \in Bit
    BY <2>2, ElementOfSeq
  <2>4. r[a + b] = After(step, r[(a + b) - 1], bits[i + (a + b) - 1])
    BY <2>2 DEF IsRun
  <2>5. q[b] = After(step, q[b - 1], bit)
    BY <2>2 DEF IsRun
  <2>6. q[b - 1] \in Cells(step)
    BY <2>2 DEF IsRun
  <2>7. q[b - 1].out \in Seq(Bit) /\ q[b - 1].state \in DOMAIN step
    BY <2>6 DEF Cells
  <2>8. c.out \in Seq(Bit)
    BY <2>3, <2>7, CellTypes
  <2>9. r[a + b] = After(step, r[a + (b - 1)], bit)
    BY <2>2, <2>4
  <2>. HIDE DEF bit
  <2>10. q[b] = [out |-> q[b - 1].out \o c.out, state |-> c.state]
    BY <2>5, Zenon DEF After
  <2>11. r[a + b] = [out |-> (r[a].out \o q[b - 1].out) \o c.out, state |-> c.state]
    <3>. DEFINE v == r[a + (b - 1)]
    <3>1. v.out = r[a].out \o q[b - 1].out /\ v.state = q[b - 1].state
      <4>. DEFINE written == r[a].out \o q[b - 1].out    left == q[b - 1].state
      <4>1. v = [out |-> written, state |-> left]
        BY <2>1
      <4>. HIDE DEF v, written, left
      <4>2. v.out = written /\ v.state = left
        BY <4>1
      <4>. QED
        BY <4>2, Zenon DEF written, left
    <3>2. r[a + b] = After(step, v, bit)
      BY <2>9
    <3>. HIDE DEF v
    <3>3. r[a + b] = [out |-> v.out \o step[v.state][bit].out, state |-> step[v.state][bit].state]
      BY <3>2, Zenon DEF After
    <3>. QED
      BY <3>1, <3>3, Zenon
  <2>. HIDE DEF c
  <2>12. (r[a].out \o q[b - 1].out) \o c.out = r[a].out \o (q[b - 1].out \o c.out)
    <3>1. Joined(Joined(r[a].out, q[b - 1].out), c.out)
            = Joined(r[a].out, Joined(q[b - 1].out, c.out))
      BY <1>1, <2>7, <2>8, JoinedAssociative, SMTT(30)
    <3>. QED
      BY <3>1, Zenon DEF Joined
  <2>13. q[b].out = q[b - 1].out \o c.out /\ q[b].state = c.state
    <3>. DEFINE written == q[b - 1].out \o c.out
    <3>1. q[b] = [out |-> written, state |-> c.state]
      BY <2>10
    <3>. HIDE DEF written
    <3>2. q[b].out = written /\ q[b].state = c.state
      BY <3>1
    <3>. QED
      BY <3>2 DEF written
  <2>14. Joins(r[a + b], r[a], q[b])
    BY <2>11, <2>12, <2>13, Zenon DEF Joins
  <2>. QED
    BY <2>2, <2>14
<1>. HIDE DEF Ends
<1>4. \A b \in 0..m : b \in Ends
  <2>1. m \in Nat
    OBVIOUS
  <2>. QED
    BY <2>1, <1>2, <1>3, UpTo
<1>. QED
  BY <1>4 DEF Ends

\* what from of Loop is: one of its values, and the function
Half(f, step, bits, i, j, state) ==
  IF i >= j THEN step[state][bits[i]]
  ELSE LET middle == (i + j) \div 2
           left == f[i][middle][state]
           right == f[middle + 1][j][left.state]
       IN  [out |-> left.out \o right.out, state |-> right.state]

Halves(f, step, bits) ==
  [i \in 1..Len(bits) |->
     [j \in 1..Len(bits) |->
        [state \in DOMAIN step |-> Half(f, step, bits, i, j, state)]]]

From(step, bits) == CHOOSE f : f = Halves(f, step, bits)

\* the run from bit i to the end, and what it has come to with bit j
RunFrom(step, bits, i, state) ==
  CHOOSE r : IsRun(r, step, state, bits, i, Len(bits) + 1 - i)

Reached(step, bits, i, j, state) == RunFrom(step, bits, i, state)[j + 1 - i]

\* The model's Loop, with the function it defines inside named.
LEMMA LoopIsFrom ==
  ASSUME NEW step, NEW start, NEW bits
  PROVE  Loop(step, start, bits) = From(step, bits)[1][Len(bits)][start].out
BY DEF Loop, From, Halves, Half

\* The run that RunFrom chooses exists.
LEMMA RunFromIsRun ==
  ASSUME NEW step, Table(step), NEW bits \in Seq(Bit), NEW i \in 1..Len(bits),
         NEW state \in DOMAIN step
  PROVE  IsRun(RunFrom(step, bits, i, state), step, state, bits, i, Len(bits) + 1 - i)
<1>. DEFINE n == Len(bits) + 1 - i
<1>1. i \in Nat \ {0} /\ n \in Nat /\ i + n <= Len(bits) + 1
  OBVIOUS
<1>. HIDE DEF n
<1>2. \E r : IsRun(r, step, state, bits, i, n)
  BY <1>1, RunExists
<1>. QED
  BY <1>2, Zenon DEF RunFrom, n

\* The bits i to j, from the bits i to m and m + 1 to j.
LEMMA ReachedJoins ==
  ASSUME NEW step, Table(step), NEW bits \in Seq(Bit), NEW i \in 1..Len(bits),
         NEW j \in i..Len(bits), NEW m \in i..(j - 1), NEW state \in DOMAIN step,
         NEW left, left = Reached(step, bits, i, m, state),
         NEW right, right = Reached(step, bits, m + 1, j, left.state)
  PROVE  /\ left.state \in DOMAIN step
         /\ Joins(Reached(step, bits, i, j, state), left, right)
<1>. DEFINE n == Len(bits) + 1 - i
            a == m + 1 - i
            k == Len(bits) + 1 - (m + 1)
            b == j + 1 - (m + 1)
            r == RunFrom(step, bits, i, state)
            q == RunFrom(step, bits, m + 1, left.state)
<1>1. /\ n \in Nat /\ i \in Nat \ {0} /\ i + n <= Len(bits) + 1 /\ a \in 0..n
      /\ k \in 0..(n - a) /\ b \in 0..k /\ i + a = m + 1 /\ m + 1 \in 1..Len(bits)
      /\ a + b = j + 1 - i
  OBVIOUS
<1>2. IsRun(r, step, state, bits, i, n)
  BY RunFromIsRun
<1>3. left = r[a]
  BY DEF Reached
<1>4. left \in Cells(step)
  BY <1>1, <1>2, <1>3 DEF IsRun
<1>5. left.state \in DOMAIN step
  BY <1>4 DEF Cells
<1>6. IsRun(q, step, left.state, bits, m + 1, k)
  BY <1>1, <1>5, RunFromIsRun
<1>. HIDE DEF n, a, k, b, r, q
<1>7. IsRun(q, step, r[a].state, bits, i + a, k)
  BY <1>1, <1>3, <1>6
<1>8. Joins(r[a + b], r[a], q[b])
  <2>1. i \in Nat \ {0} /\ n \in Nat /\ i + n <= Len(bits) + 1
    BY <1>1
  <2>2. a \in 0..n /\ k \in 0..(n - a)
    BY <1>1
  <2>3. \A x \in 0..k : Joins(r[a + x], r[a], q[x])
    BY <1>2, <1>7, <2>1, <2>2, RunJoins, Zenon
  <2>. QED
    BY <1>1, <2>3
<1>9. Reached(step, bits, i, j, state) = r[a + b]
  BY <1>1 DEF Reached, r
<1>10. right = q[b]
  BY DEF Reached, q, b
<1>. QED
  BY <1>3, <1>5, <1>8, <1>9, <1>10

\* One bit.
LEMMA ReachedOne ==
  ASSUME NEW step, Table(step), NEW bits \in Seq(Bit), NEW i \in 1..Len(bits),
         NEW state \in DOMAIN step
  PROVE  Reached(step, bits, i, i, state) = step[state][bits[i]]
<1>. DEFINE r == RunFrom(step, bits, i, state)
            n == Len(bits) + 1 - i
            c == step[state][bits[i]]
<1>1. i + 1 - i = 1 /\ 1 \in 1..n /\ i + 1 - 1 = i /\ 1 - 1 = 0
  OBVIOUS
<1>2. IsRun(r, step, state, bits, i, n)
  BY RunFromIsRun
<1>3. bits[i] \in Bit
  BY ElementOfSeq
<1>4. c \in Cells(step) /\ c.out \in Seq(Bit)
  BY <1>3, CellTypes
<1>. HIDE DEF r, n
<1>5. r[1] = After(step, r[0], bits[i])
  BY <1>1, <1>2 DEF IsRun
<1>6. r[0].out = <<>> /\ r[0].state = state
  BY <1>2 DEF IsRun
<1>7. r[1] = [out |-> <<>> \o c.out, state |-> c.state]
  BY <1>5, <1>6, Zenon DEF After
<1>. HIDE DEF c
<1>8. <<>> \o c.out = c.out
  BY <1>4
<1>9. c = [out |-> c.out, state |-> c.state]
  BY <1>4 DEF Cells
<1>10. r[1] = c
  BY <1>7, <1>8, <1>9
<1>. QED
  BY <1>1, <1>10 DEF Reached, r, c

\* There is a function that does what Loop says of from.
LEMMA HalvesExist ==
  ASSUME NEW step, Table(step), NEW bits \in Seq(Bit)
  PROVE  From(step, bits) = Halves(From(step, bits), step, bits)
<1>. DEFINE n == Len(bits)
            cell(i, j, state) ==
              IF i >= j THEN step[state][bits[i]] ELSE Reached(step, bits, i, j, state)
            f == [i \in 1..n |-> [j \in 1..n |-> [state \in DOMAIN step |->
                    cell(i, j, state)]]]
<1>1. ASSUME NEW i \in 1..n, NEW j \in 1..n, NEW state \in DOMAIN step
      PROVE  f[i][j][state] = cell(i, j, state)
  BY Zenon
<1>2. ASSUME NEW i \in 1..n, NEW j \in 1..n, NEW state \in DOMAIN step, i <= j
      PROVE  f[i][j][state] = Reached(step, bits, i, j, state)
  <2>1. CASE i = j
    BY <1>1, <2>1, ReachedOne
  <2>2. CASE i < j
    BY <1>1, <2>2
  <2>. QED
    BY <1>2, <2>1, <2>2
<1>. HIDE DEF f
<1>3. ASSUME NEW i \in 1..n, NEW j \in 1..n, NEW state \in DOMAIN step
      PROVE  cell(i, j, state) = Half(f, step, bits, i, j, state)
  <2>1. CASE i >= j
    BY <2>1 DEF Half
  <2>2. CASE i < j
    <3>. DEFINE m == (i + j) \div 2
                left == f[i][m][state]
                right == f[m + 1][j][left.state]
    <3>1. m \in i..(j - 1) /\ m \in 1..n /\ m + 1 \in 1..n /\ i <= m /\ m + 1 <= j
      BY <2>2
    <3>2. left = Reached(step, bits, i, m, state)
      BY <3>1, <1>2
    <3>6. Joins(Half(f, step, bits, i, j, state), left, right)
      <4>1. ~(i >= j)
        BY <2>2
      <4>. QED
        BY <4>1, Zenon DEF Half, Joins
    <3>. HIDE DEF m, left
    <3>7. j \in i..Len(bits)
      BY <2>2
    <3>3. left.state \in DOMAIN step
      BY <3>1, <3>2, <3>7, ReachedJoins, Zenon
    <3>. HIDE DEF right
    <3>4. right = Reached(step, bits, m + 1, j, left.state)
      BY <3>1, <3>3, <1>2, Zenon DEF right
    <3>5. Joins(cell(i, j, state), left, right)
      <4>1. ~(i >= j)
        BY <2>2
      <4>2. Joins(Reached(step, bits, i, j, state), left, right)
        BY <3>1, <3>2, <3>4, <3>7, ReachedJoins, Zenon
      <4>. QED
        BY <4>1, <4>2, Zenon
    <3>. QED
      BY <3>5, <3>6 DEF Joins
  <2>. QED
    BY <2>1, <2>2
<1>4. f = Halves(f, step, bits)
  BY <1>3, Zenon DEF f, Halves
<1>. HIDE DEF f
<1>. QED
  BY <1>4, Zenon DEF From

\* from is what the runs have come to.
LEMMA FromIsReached ==
  ASSUME NEW step, Table(step), NEW bits \in Seq(Bit), Len(bits) > 0,
         NEW start \in DOMAIN step
  PROVE  From(step, bits)[1][Len(bits)][start] = Reached(step, bits, 1, Len(bits), start)
<1>. DEFINE n == Len(bits)
            f == From(step, bits)
            Span(d) == \A i \in 1..n, j \in 1..n : i <= j /\ j - i <= d =>
                         \A s \in DOMAIN step : f[i][j][s] = Reached(step, bits, i, j, s)
            Spans == {d \in 0..n : Span(d)}
<1>1. f = Halves(f, step, bits)
  BY HalvesExist
<1>. HIDE DEF f
<1>2. ASSUME NEW i \in 1..n, NEW j \in 1..n, NEW s \in DOMAIN step
      PROVE  f[i][j][s] = Half(f, step, bits, i, j, s)
  <2>1. Halves(f, step, bits)[i][j][s] = Half(f, step, bits, i, j, s)
    BY Zenon DEF Halves
  <2>. QED
    BY <1>1, <2>1, Zenon
<1>3. ASSUME NEW i \in 1..n, NEW s \in DOMAIN step
      PROVE  f[i][i][s] = Reached(step, bits, i, i, s)
  <2>1. f[i][i][s] = step[s][bits[i]]
    <3>1. f[i][i][s] = Half(f, step, bits, i, i, s)
      BY <1>2
    <3>2. i >= i
      OBVIOUS
    <3>. QED
      BY <3>1, <3>2, Zenon DEF Half
  <2>. QED
    BY <2>1, ReachedOne
<1>4. 0 \in Spans
  <2>1. Span(0)
    <3>1. SUFFICES ASSUME NEW i \in 1..n, NEW j \in 1..n, i <= j /\ j - i <= 0
                   PROVE  \A s \in DOMAIN step : f[i][j][s] = Reached(step, bits, i, j, s)
      BY Zenon
    <3>2. i = j
      BY <3>1
    <3>. QED
      BY <3>2, <1>3
  <2>. QED
    BY <2>1
<1>5. ASSUME NEW d \in 1..n, d - 1 \in Spans PROVE d \in Spans
  <2>0. \A i \in 1..n, j \in 1..n : i <= j /\ j - i <= d - 1 =>
          \A s \in DOMAIN step : f[i][j][s] = Reached(step, bits, i, j, s)
    BY <1>5
  <2>. HIDE DEF Spans
  <2>1. ASSUME NEW i \in 1..n, NEW j \in 1..n, i <= j, j - i <= d, NEW s \in DOMAIN step
        PROVE  f[i][j][s] = Reached(step, bits, i, j, s)
    <3>1. CASE i = j
      BY <3>1, <1>3
    <3>2. CASE i # j
      <4>. DEFINE m == (i + j) \div 2
                  left == f[i][m][s]
                  right == f[m + 1][j][left.state]
      <4>1. /\ m \in i..(j - 1) /\ m \in 1..n /\ m + 1 \in 1..n /\ i <= m /\ m + 1 <= j
            /\ m - i <= d - 1 /\ j - (m + 1) <= d - 1 /\ j \in i..n /\ ~(i >= j)
        BY <2>1, <3>2
      <4>2. Joins(Half(f, step, bits, i, j, s), left, right)
        BY <4>1, Zenon DEF Half, Joins
      <4>. HIDE DEF m
      <4>3. left = Reached(step, bits, i, m, s)
        BY <4>1, <2>0
      <4>. HIDE DEF left
      <4>4. left.state \in DOMAIN step
        BY <4>1, <4>3, ReachedJoins, Zenon
      <4>5. right = Reached(step, bits, m + 1, j, left.state)
        BY <4>1, <4>4, <2>0
      <4>. HIDE DEF right
      <4>6. Joins(Reached(step, bits, i, j, s), left, right)
        BY <4>1, <4>3, <4>5, ReachedJoins, Zenon
      <4>7. Reached(step, bits, i, j, s) = Half(f, step, bits, i, j, s)
        BY <4>2, <4>6, Zenon DEF Joins
      <4>. QED
        BY <4>7, <1>2, Zenon
    <3>. QED
      BY <3>1, <3>2
  <2>2. Span(d)
    BY <2>1, Zenon
  <2>3. d \in 0..n
    OBVIOUS
  <2>. QED
    BY <2>2, <2>3 DEF Spans
<1>6. n \in Spans
  <2>. HIDE DEF Spans, n
  <2>1. n \in Nat
    BY DEF n
  <2>2. \A d \in 0..n : d \in Spans
    BY <2>1, <1>4, <1>5, UpTo
  <2>. QED
    BY <2>1, <2>2
<1>7. Span(n)
  BY <1>6
<1>8. 1 \in 1..n /\ n \in 1..n /\ 1 <= n /\ n - 1 <= n
  OBVIOUS
<1>9. f[1][n][start] = Reached(step, bits, 1, n, start)
  BY <1>7, <1>8, Zenon
<1>. QED
  BY <1>9 DEF f

\* Loop, which halves the bits to keep its recursion shallow, is the loop of the code:
\* it writes what a run over the bits, one by one, has written after the last.
THEOREM LoopRuns ==
  ASSUME NEW step, Table(step), NEW bits \in Seq(Bit), Len(bits) > 0,
         NEW start \in DOMAIN step
  PROVE  \E r : /\ IsRun(r, step, start, bits, 1, Len(bits))
                /\ Loop(step, start, bits) = r[Len(bits)].out
<1>. DEFINE r == RunFrom(step, bits, 1, start)
<1>1. 1 \in 1..Len(bits) /\ Len(bits) + 1 - 1 = Len(bits)
  OBVIOUS
<1>2. IsRun(r, step, start, bits, 1, Len(bits))
  <2>1. IsRun(r, step, start, bits, 1, Len(bits) + 1 - 1)
    BY <1>1, RunFromIsRun
  <2>. QED
    BY <1>1, <2>1
<1>3. Reached(step, bits, 1, Len(bits), start) = r[Len(bits)]
  BY <1>1 DEF Reached
<1>4. Loop(step, start, bits) = r[Len(bits)].out
  BY <1>3, LoopIsFrom, FromIsReached
<1>. HIDE DEF r
<1>. QED
  BY <1>2, <1>4

-----------------------------------------------------------------------------
(* Stuffing *)

StuffRun(r, bits) == IsRun(r, StuffStep, 0, bits, 1, Len(bits))

\* how many bits have been written after k of the frame
Written(r, k) == Len(r[k].out)

\* The run of ones stays below five.
LEMMA CountRange ==
  ASSUME NEW bit \in Bit, NEW ones \in 0..4
  PROVE  NextCount(bit, ones) \in 0..4
BY DEF NextCount

\* ax25Stuff writes the bit, and a zero behind a fifth one.
LEMMA EmittedBits ==
  ASSUME NEW bit \in Bit, NEW ones
  PROVE  /\ Emitted(bit, ones) \in Seq(Bit)
         /\ Emitted(bit, ones)[1] = bit
         /\ Len(Emitted(bit, ones)) = IF Fifth(bit, ones) THEN 2 ELSE 1
         /\ Fifth(bit, ones) => Emitted(bit, ones)[2] = 0
<1>1. CASE Fifth(bit, ones)
  BY <1>1 DEF Emitted, Fifth, Bit
<1>2. CASE ~Fifth(bit, ones)
  BY <1>2 DEF Emitted
<1>. QED
  BY <1>1, <1>2

\* The table of the stuffing loop has its type.
LEMMA StuffTable == Table(StuffStep) /\ DOMAIN StuffStep = 0..4
<1>. DEFINE cell(ones, bit) == [out |-> Emitted(bit, ones), state |-> NextCount(bit, ones)]
<1>1. DOMAIN StuffStep = 0..4
  BY DEF StuffStep
<1>2. ASSUME NEW ones \in 0..4, NEW bit \in Bit PROVE cell(ones, bit) \in Cells(StuffStep)
  BY <1>1, CountRange, EmittedBits DEF Cells
<1>3. StuffStep = [ones \in 0..4 |-> [bit \in Bit |-> cell(ones, bit)]]
  BY DEF StuffStep
<1>. HIDE DEF cell
<1>4. StuffStep \in [0..4 -> [Bit -> Cells(StuffStep)]]
  BY <1>2, <1>3, Zenon
<1>. QED
  BY <1>1, <1>4, Zenon DEF Table

\* What two sequences of bits have end to end.
LEMMA TwoParts ==
  ASSUME NEW x \in Seq(Bit), NEW y \in Seq(Bit), NEW z, z = x \o y
  PROVE  /\ z \in Seq(Bit) /\ Len(x) \in Nat /\ Len(y) \in Nat /\ Len(z) = Len(x) + Len(y)
         /\ \A i \in 1..Len(x) : z[i] = x[i]
         /\ \A i \in 1..Len(y) : z[Len(x) + i] = y[i]
OBVIOUS

LEMMA StuffCell ==
  ASSUME NEW x \in Bit, NEW y \in 0..4
  PROVE  StuffStep[y][x].out = Emitted(x, y) /\ StuffStep[y][x].state = NextCount(x, y)
BY DEF StuffStep

\* One bit of the frame.
LEMMA StuffStepped ==
  ASSUME NEW bits \in Seq(Bit), NEW r, StuffRun(r, bits), NEW k \in 1..Len(bits)
  PROVE  /\ r[k - 1].out \in Seq(Bit) /\ r[k - 1].state \in 0..4 /\ bits[k] \in Bit
         /\ r[k].out = r[k - 1].out \o Emitted(bits[k], r[k - 1].state)
         /\ r[k].state = NextCount(bits[k], r[k - 1].state)
<1>1. /\ k \in 1..Len(bits) /\ 1 + k - 1 = k /\ k - 1 \in 0..Len(bits)
  OBVIOUS
<1>2. r[k - 1] \in Cells(StuffStep) /\ r[k] = After(StuffStep, r[k - 1], bits[k])
  BY <1>1 DEF StuffRun, IsRun
<1>3. r[k - 1].out \in Seq(Bit) /\ r[k - 1].state \in 0..4
  BY <1>2, StuffTable DEF Cells
<1>4. bits[k] \in Bit
  BY ElementOfSeq
<1>5. StuffStep[r[k - 1].state][bits[k]]
        = [out |-> Emitted(bits[k], r[k - 1].state),
           state |-> NextCount(bits[k], r[k - 1].state)]
  BY <1>3, <1>4, Zenon DEF StuffStep
<1>6. r[k] = [out |-> r[k - 1].out \o Emitted(bits[k], r[k - 1].state),
              state |-> NextCount(bits[k], r[k - 1].state)]
  <2>. DEFINE e == Emitted(bits[k], r[k - 1].state)
              c == NextCount(bits[k], r[k - 1].state)
              s == StuffStep[r[k - 1].state][bits[k]]
  <2>1. s.out = e /\ s.state = c
    <3>. DEFINE x == bits[k]    y == r[k - 1].state
    <3>1. x \in Bit /\ y \in 0..4
      BY <1>3, <1>4
    <3>. HIDE DEF x, y
    <3>2. StuffStep[y][x].out = Emitted(x, y) /\ StuffStep[y][x].state = NextCount(x, y)
      BY <3>1, StuffCell, Zenon
    <3>. QED
      BY <3>2, Zenon DEF x, y
  <2>. HIDE DEF e, c
  <2>2. r[k] = [out |-> r[k - 1].out \o s.out, state |-> s.state]
    BY <1>2, Zenon DEF After
  <2>. QED
    BY <2>1, <2>2, Zenon DEF e, c
<1>7. ASSUME NEW x, NEW y, r[k] = [out |-> x, state |-> y] PROVE r[k].out = x /\ r[k].state = y
  BY <1>7
<1>. QED
  BY <1>3, <1>4, <1>6, <1>7, Zenon

\* What the stuffing loop has at every bit, and how it starts.
LEMMA StuffRunTypes ==
  ASSUME NEW bits \in Seq(Bit), NEW r, StuffRun(r, bits)
  PROVE  /\ \A k \in 0..Len(bits) :
              r[k].out \in Seq(Bit) /\ r[k].state \in 0..4 /\ Written(r, k) \in Nat
         /\ r[0].out = <<>> /\ r[0].state = 0 /\ Written(r, 0) = 0
<1>1. ASSUME NEW k \in 0..Len(bits) PROVE r[k] \in Cells(StuffStep)
  BY DEF StuffRun, IsRun
<1>2. ASSUME NEW k \in 0..Len(bits)
      PROVE  r[k].out \in Seq(Bit) /\ r[k].state \in 0..4 /\ Written(r, k) \in Nat
  <2>1. r[k].out \in Seq(Bit) /\ r[k].state \in 0..4
    BY <1>1, StuffTable DEF Cells
  <2>. QED
    BY <2>1 DEF Written
<1>3. r[0] = [out |-> <<>>, state |-> 0]
  BY DEF StuffRun, IsRun
<1>4. r[0].out = <<>> /\ r[0].state = 0
  BY <1>3
<1>. QED
  BY <1>2, <1>4 DEF Written

\* What has been written stays as it is.
LEMMA Grows ==
  ASSUME NEW bits \in Seq(Bit), NEW r, StuffRun(r, bits),
         NEW k \in 0..Len(bits), NEW j \in 0..k
  PROVE  /\ Written(r, j) <= Written(r, k)
         /\ \A q \in 1..Written(r, j) : r[k].out[q] = r[j].out[q]
<1>. DEFINE n == Len(bits)
            Stays(x) == /\ Written(r, j) <= Written(r, j + x)
                        /\ \A q \in 1..Written(r, j) : r[j + x].out[q] = r[j].out[q]
            Later == {x \in 0..(n - j) : Stays(x)}
<1>0. n \in Nat /\ j \in 0..n /\ n - j \in Nat
  OBVIOUS
<1>1. 0 \in Later
  <2>1. j + 0 = j /\ 0 \in 0..(n - j) /\ Written(r, j) <= Written(r, j)
    BY <1>0, StuffRunTypes
  <2>. QED
    BY <2>1
<1>2. ASSUME NEW x \in 1..(n - j), x - 1 \in Later PROVE x \in Later
  <2>. DEFINE y == j + x
              e == Emitted(bits[y], r[y - 1].state)
  <2>1. y \in 1..n /\ y - 1 = j + (x - 1) /\ y - 1 \in 0..n /\ x \in 0..(n - j)
    BY <1>0
  <2>2. Stays(x - 1)
    BY <1>2
  <2>3. /\ Written(r, j) <= Written(r, y - 1)
        /\ \A q \in 1..Written(r, j) : r[y - 1].out[q] = r[j].out[q]
    BY <2>1, <2>2
  <2>. HIDE DEF y
  <2>4. /\ r[y - 1].out \in Seq(Bit) /\ bits[y] \in Bit /\ r[y].out = r[y - 1].out \o e
    BY <2>1, StuffStepped
  <2>5. e \in Seq(Bit)
    BY <2>4, EmittedBits
  <2>. HIDE DEF e
  <2>6. Len(r[y].out) >= Len(r[y - 1].out)
    BY <2>4, <2>5
  <2>7. ASSUME NEW q \in 1..Len(r[y - 1].out) PROVE r[y].out[q] = r[y - 1].out[q]
    BY <2>4, <2>5
  <2>8. Written(r, j) \in Nat /\ Written(r, y) \in Nat /\ Written(r, y - 1) \in Nat
    BY <1>0, <2>1, StuffRunTypes
  <2>9. Written(r, j) <= Written(r, y)
    <3>1. Written(r, j) <= Written(r, y - 1)
      BY <2>3, Zenon
    <3>2. Written(r, y - 1) <= Written(r, y)
      BY <2>6 DEF Written
    <3>. QED
      BY <2>8, <3>1, <3>2
  <2>10. ASSUME NEW q \in 1..Written(r, j) PROVE r[y].out[q] = r[j].out[q]
    <3>1. q \in 1..Len(r[y - 1].out)
      <4>1. Written(r, j) <= Written(r, y - 1)
        BY <2>3, Zenon
      <4>. QED
        BY <2>8, <4>1 DEF Written
    <3>. QED
      BY <3>1, <2>3, <2>7
  <2>11. Stays(x)
    BY <2>9, <2>10 DEF y
  <2>. QED
    BY <2>1, <2>11
<1>. HIDE DEF Later
<1>3. \A x \in 0..(n - j) : x \in Later
  <2>. HIDE DEF n
  <2>. QED
    BY <1>0, <1>1, <1>2, UpTo
<1>4. k - j \in 0..(n - j) /\ j + (k - j) = k
  OBVIOUS
<1>5. Stays(k - j)
  BY <1>3, <1>4 DEF Later
<1>. QED
  BY <1>4, <1>5

\* The bit of the frame, and the zero that may follow it.
LEMMA Placed ==
  ASSUME NEW bits \in Seq(Bit), NEW r, StuffRun(r, bits), NEW k \in 1..Len(bits),
         NEW s, s = r[Len(bits)].out
  PROVE  /\ Written(r, k - 1) + 1 \in 1..Len(s) /\ s[Written(r, k - 1) + 1] = bits[k]
         /\ IF Fifth(bits[k], r[k - 1].state)
            THEN /\ Written(r, k) = Written(r, k - 1) + 2 /\ Written(r, k) \in 1..Len(s)
                 /\ s[Written(r, k)] = 0
            ELSE Written(r, k) = Written(r, k - 1) + 1
<1>. DEFINE before == r[k - 1].out
            e == Emitted(bits[k], r[k - 1].state)
            n == Len(bits)
<1>1. before \in Seq(Bit) /\ bits[k] \in Bit /\ r[k].out = before \o e
  BY StuffStepped
<1>2. /\ e \in Seq(Bit) /\ e[1] = bits[k]
      /\ Len(e) = IF Fifth(bits[k], r[k - 1].state) THEN 2 ELSE 1
      /\ Fifth(bits[k], r[k - 1].state) => e[2] = 0
  BY <1>1, EmittedBits, ZenonT(60)
<1>3. n \in Nat /\ n \in 0..n /\ k \in 0..n
  OBVIOUS
<1>4. /\ Written(r, k) <= Len(s) /\ Len(s) \in Nat
      /\ \A q \in 1..Written(r, k) : s[q] = r[k].out[q]
  BY <1>3, Grows, StuffRunTypes DEF Written
<1>. HIDE DEF before, e, n
<1>5. /\ Len(before) \in Nat /\ Len(e) \in Nat /\ Len(r[k].out) = Len(before) + Len(e)
      /\ \A i \in 1..Len(e) : r[k].out[Len(before) + i] = e[i]
  <2>1. e \in Seq(Bit)
    BY <1>2
  <2>. QED
    BY <1>1, <2>1, TwoParts
<1>6. r[k].out[Len(before) + 1] = bits[k]
  <2>1. 1 \in 1..Len(e) /\ e[1] = bits[k]
    BY <1>2
  <2>. QED
    BY <1>5, <2>1
<1>7. Written(r, k - 1) = Len(before) /\ Written(r, k) = Len(before) + Len(e)
  BY <1>5 DEF Written, before
<1>8. CASE Fifth(bits[k], r[k - 1].state)
  <2>1. Len(e) = 2 /\ e[2] = 0
    BY <1>2, <1>8
  <2>2. r[k].out[Len(before) + 2] = 0
    BY <2>1, <1>5
  <2>3. Written(r, k) = Written(r, k - 1) + 2 /\ Written(r, k - 1) \in Nat
    BY <2>1, <1>5, <1>7
  <2>4. Written(r, k - 1) + 1 \in 1..Written(r, k) /\ Written(r, k) \in 1..Written(r, k)
    BY <2>3
  <2>5. s[Written(r, k - 1) + 1] = bits[k] /\ s[Written(r, k)] = 0
    BY <2>2, <2>4, <1>4, <1>6, <1>7, <2>1
  <2>6. Written(r, k - 1) + 1 \in 1..Len(s) /\ Written(r, k) \in 1..Len(s)
    BY <2>3, <1>4
  <2>. QED
    BY <2>3, <2>5, <2>6, <1>8, Zenon
<1>9. CASE ~Fifth(bits[k], r[k - 1].state)
  <2>1. Len(e) = 1
    BY <1>2, <1>9
  <2>2. Written(r, k) = Written(r, k - 1) + 1 /\ Written(r, k - 1) \in Nat
    BY <2>1, <1>5, <1>7
  <2>3. Written(r, k - 1) + 1 \in 1..Written(r, k)
    BY <2>2
  <2>4. s[Written(r, k - 1) + 1] = bits[k]
    BY <2>3, <1>4, <1>6, <1>7
  <2>5. Written(r, k - 1) + 1 \in 1..Len(s)
    BY <2>2, <1>4
  <2>. QED
    BY <2>2, <2>4, <2>5, <1>9, Zenon
<1>. QED
  BY <1>8, <1>9

-----------------------------------------------------------------------------
(* Unstuffing *)

Counts == [ones : 0..4, flag : {0, 1}]
Fresh == [ones |-> 0, flag |-> 0]

UnstuffRun(u, air) == IsRun(u, UnstuffStep, Fresh, air, 1, Len(air))

\* The table of the unstuffing loop has its type.
LEMMA UnstuffTable == Table(UnstuffStep) /\ DOMAIN UnstuffStep = Counts
<1>. DEFINE cell(s, bit) ==
              IF s.flag = 1 THEN [out |-> <<>>, state |-> [ones |-> 0, flag |-> 0]]
              ELSE [out |-> <<bit>>,
                    state |-> [ones |-> NextCount(bit, s.ones), flag |-> Flagged(bit, s.ones)]]
<1>1. DOMAIN UnstuffStep = Counts
  BY DEF UnstuffStep, Counts
<1>2. ASSUME NEW s \in Counts, NEW bit \in Bit PROVE cell(s, bit) \in Cells(UnstuffStep)
  <2>1. s.ones \in 0..4
    BY DEF Counts
  <2>2. NextCount(bit, s.ones) \in 0..4 /\ Flagged(bit, s.ones) \in {0, 1}
    BY <2>1, CountRange DEF Flagged
  <2>3. [ones |-> 0, flag |-> 0] \in Counts
        /\ [ones |-> NextCount(bit, s.ones), flag |-> Flagged(bit, s.ones)] \in Counts
    BY <2>2 DEF Counts
  <2>4. <<>> \in Seq(Bit) /\ <<bit>> \in Seq(Bit)
    OBVIOUS
  <2>5. ASSUME NEW o \in Seq(Bit), NEW c \in Counts
        PROVE  [out |-> o, state |-> c] \in Cells(UnstuffStep)
    BY <1>1 DEF Cells
  <2>. QED
    BY <2>3, <2>4, <2>5, Zenon
<1>3. UnstuffStep = [s \in Counts |-> [bit \in Bit |-> cell(s, bit)]]
  BY Zenon DEF UnstuffStep, Counts
<1>. HIDE DEF cell
<1>4. UnstuffStep \in [Counts -> [Bit -> Cells(UnstuffStep)]]
  BY <1>2, <1>3, Zenon
<1>. QED
  BY <1>1, <1>4, Zenon DEF Table

\* One bit from the air.
LEMMA UnstuffStepped ==
  ASSUME NEW air \in Seq(Bit), NEW u, UnstuffRun(u, air), NEW p \in 1..Len(air)
  PROVE  /\ u[p - 1].out \in Seq(Bit) /\ u[p - 1].state \in Counts /\ air[p] \in Bit
         /\ IF u[p - 1].state.flag = 1
            THEN /\ u[p].out = u[p - 1].out
                 /\ u[p].state.ones = 0 /\ u[p].state.flag = 0
            ELSE /\ u[p].out = u[p - 1].out \o <<air[p]>>
                 /\ u[p].state.ones = NextCount(air[p], u[p - 1].state.ones)
                 /\ u[p].state.flag = Flagged(air[p], u[p - 1].state.ones)
<1>. DEFINE v == u[p - 1]    s == v.state    c == UnstuffStep[s][air[p]]
<1>1. /\ p \in 1..Len(air) /\ 1 + p - 1 = p /\ p - 1 \in 0..Len(air)
  OBVIOUS
<1>2. v \in Cells(UnstuffStep) /\ u[p] = After(UnstuffStep, v, air[p])
  BY <1>1 DEF UnstuffRun, IsRun
<1>3. v.out \in Seq(Bit) /\ s \in Counts
  BY <1>2, UnstuffTable DEF Cells
<1>4. air[p] \in Bit
  BY ElementOfSeq
<1>5. u[p] = [out |-> v.out \o c.out, state |-> c.state]
  BY <1>2, Zenon DEF After
<1>6. c = IF s.flag = 1 THEN [out |-> <<>>, state |-> [ones |-> 0, flag |-> 0]]
          ELSE [out |-> <<air[p]>>,
                state |-> [ones |-> NextCount(air[p], s.ones),
                           flag |-> Flagged(air[p], s.ones)]]
  BY <1>3, <1>4, Zenon DEF UnstuffStep, Counts
<1>. HIDE DEF c, s, v
<1>7. u[p].out = v.out \o c.out /\ u[p].state = c.state
  <2>1. ASSUME NEW x, NEW y, u[p] = [out |-> x, state |-> y]
        PROVE  u[p].out = x /\ u[p].state = y
    BY <2>1
  <2>. QED
    BY <1>5, <2>1, Zenon
<1>8. CASE s.flag = 1
  <2>1. c.out = <<>> /\ c.state.ones = 0 /\ c.state.flag = 0
    BY <1>6, <1>8
  <2>2. v.out \o <<>> = v.out
    BY <1>3
  <2>. QED
    BY <1>3, <1>4, <1>7, <1>8, <2>1, <2>2, Zenon DEF v, s
<1>9. CASE s.flag # 1
  <2>. DEFINE ones == NextCount(air[p], s.ones)    flag == Flagged(air[p], s.ones)
  <2>1. c = [out |-> <<air[p]>>, state |-> [ones |-> ones, flag |-> flag]]
    BY <1>6, <1>9, Zenon
  <2>. HIDE DEF ones, flag
  <2>2. c.out = <<air[p]>> /\ c.state.ones = ones /\ c.state.flag = flag
    BY <2>1
  <2>. QED
    BY <1>3, <1>4, <1>7, <1>9, <2>2, Zenon DEF v, s, ones, flag
<1>. QED
  BY <1>8, <1>9

\* The bit that was stuffed is left out.
LEMMA UnstuffSkips ==
  ASSUME NEW air \in Seq(Bit), NEW u, UnstuffRun(u, air), NEW p \in 1..Len(air),
         u[p - 1].state.flag = 1
  PROVE  u[p].out = u[p - 1].out /\ u[p].state.ones = 0 /\ u[p].state.flag = 0
BY UnstuffStepped, Zenon

\* What the unstuffing loop has at every bit, and how it starts.
LEMMA UnstuffRunTypes ==
  ASSUME NEW air \in Seq(Bit), NEW u, UnstuffRun(u, air)
  PROVE  /\ \A p \in 0..Len(air) : u[p].out \in Seq(Bit) /\ u[p].state \in Counts
         /\ u[0].out = <<>> /\ u[0].state.ones = 0 /\ u[0].state.flag = 0
<1>1. ASSUME NEW p \in 0..Len(air) PROVE u[p].out \in Seq(Bit) /\ u[p].state \in Counts
  <2>1. u[p] \in Cells(UnstuffStep)
    BY DEF UnstuffRun, IsRun
  <2>. QED
    BY <2>1, UnstuffTable DEF Cells
<1>2. u[0] = [out |-> <<>>, state |-> Fresh]
  BY DEF UnstuffRun, IsRun
<1>3. u[0].out = <<>> /\ u[0].state = Fresh
  BY <1>2
<1>4. Fresh.ones = 0 /\ Fresh.flag = 0
  BY DEF Fresh
<1>. QED
  BY <1>1, <1>3, <1>4

-----------------------------------------------------------------------------
(* Unstuffing what was stuffed *)

\* air carries the stuffed bits s, padded with less than a byte or cut
Carries(air, s) ==
  /\ Len(air) <= Len(s) + 7
  /\ \A p \in 1..Len(air) : air[p] = IF p <= Len(s) THEN s[p] ELSE 0

HasBits(out, bits, k) == Len(out) = k /\ \A i \in 1..k : out[i] = bits[i]

\* the unstuffer has k bits of the frame, and knows whether a stuffed one comes next
Place(u, r, bits, p, k, flag) ==
  /\ p = Written(r, k) - flag
  /\ u[p].state.flag = flag /\ u[p].state.ones = r[k].state
  /\ flag = 1 => r[k].state = 0
  /\ HasBits(u[p].out, bits, k)

\* it has the whole frame, and zeros
Beyond(u, bits, p, written) ==
  /\ u[p].state.flag = 0
  /\ Len(u[p].out) = Len(bits) + (p - written)
  /\ \A i \in 1..Len(u[p].out) : u[p].out[i] = IF i <= Len(bits) THEN bits[i] ELSE 0

InStep(u, r, bits, p) ==
  LET written == Written(r, Len(bits)) IN
    IF p <= written
    THEN \E k \in 0..Len(bits), flag \in {0, 1} : Place(u, r, bits, p, k, flag)
    ELSE Beyond(u, bits, p, written)

\* One bit more.
LEMMA HasOneMore ==
  ASSUME NEW bits \in Seq(Bit), NEW out \in Seq(Bit), NEW k \in 1..Len(bits),
         HasBits(out, bits, k - 1), NEW more, more = out \o <<bits[k]>>
  PROVE  HasBits(more, bits, k)
<1>1. bits[k] \in Bit /\ k \in Nat /\ Len(out) = k - 1
  BY ElementOfSeq DEF HasBits
<1>. DEFINE b == bits[k]
<1>2. b \in Bit /\ more = out \o <<b>>
  BY <1>1
<1>3. \A i \in 1..(k - 1) : out[i] = bits[i]
  BY DEF HasBits
<1>4. Len(more) = k
  <2>. HIDE DEF b
  <2>. QED
    BY <1>1, <1>2
<1>5. more[k] = b /\ \A i \in 1..(k - 1) : more[i] = out[i]
  <2>. HIDE DEF b
  <2>. QED
    BY <1>1, <1>2
<1>6. \A i \in 1..k : i = k \/ i \in 1..(k - 1)
  BY <1>1
<1>. QED
  BY <1>3, <1>4, <1>5, <1>6 DEF HasBits

\* A frame's last bit, and a bit that is not its last.
LEMMA NotTheEnd ==
  ASSUME NEW bits \in Seq(Bit), NEW r, StuffRun(r, bits), NEW k \in 0..Len(bits)
  PROVE  /\ Written(r, k) \in Nat /\ Written(r, Len(bits)) \in Nat
         /\ Written(r, k) <= Written(r, Len(bits))
         /\ k < Len(bits) => Written(r, k) < Written(r, Len(bits))
<1>1. Len(bits) \in 0..Len(bits) /\ k \in 0..Len(bits)
  OBVIOUS
<1>2. Written(r, k) \in Nat /\ Written(r, Len(bits)) \in Nat
  BY <1>1, StuffRunTypes
<1>3. Written(r, k) <= Written(r, Len(bits))
  BY <1>1, Grows
<1>4. ASSUME k < Len(bits) PROVE Written(r, k) < Written(r, Len(bits))
  <2>1. k + 1 \in 1..Len(bits) /\ (k + 1) - 1 = k
    BY <1>4
  <2>2. Written(r, (k + 1) - 1) + 1 \in 1..Len(r[Len(bits)].out)
    BY <2>1, Placed
  <2>. QED
    BY <2>1, <2>2, <1>2 DEF Written
<1>. QED
  BY <1>2, <1>3, <1>4

\* The bit that follows k bits of the frame.
LEMMA KeepsFrameBit ==
  ASSUME NEW bits \in Seq(Bit), NEW r, StuffRun(r, bits),
         NEW air \in Seq(Bit), NEW u, UnstuffRun(u, air),
         Carries(air, r[Len(bits)].out), NEW p \in 1..Len(air),
         NEW k \in 0..Len(bits), p <= Written(r, Len(bits)), Place(u, r, bits, p - 1, k, 0)
  PROVE  \E flag \in {0, 1} : k + 1 \in 0..Len(bits) /\ Place(u, r, bits, p, k + 1, flag)
<1>. DEFINE n == Len(bits)    s == r[n].out    j == k + 1
            ones == r[k].state
<1>1. /\ Written(r, k) \in Nat /\ Written(r, n) \in Nat /\ Written(r, n) = Len(s)
  BY NotTheEnd DEF Written
<1>2. p - 1 = Written(r, k) /\ u[p - 1].state.flag = 0 /\ u[p - 1].state.ones = ones
      /\ HasBits(u[p - 1].out, bits, k)
  BY <1>1 DEF Place
<1>3. k < n
  <2>1. k = n => p = Written(r, n) + 1
    BY <1>1, <1>2
  <2>. QED
    BY <1>1, <2>1
<1>4. j \in 1..n /\ j \in 0..n /\ j - 1 = k
  BY <1>3
<1>. HIDE DEF j
<1>5. /\ s[Written(r, k) + 1] = bits[j]
      /\ IF Fifth(bits[j], ones) THEN Written(r, j) = Written(r, k) + 2
         ELSE Written(r, j) = Written(r, k) + 1
  BY <1>4, Placed
<1>6. r[j].state = NextCount(bits[j], ones) /\ bits[j] \in Bit
  BY <1>4, StuffStepped
<1>7. air[p] = bits[j]
  BY <1>1, <1>2, <1>5 DEF Carries
<1>8. /\ u[p - 1].out \in Seq(Bit)
      /\ u[p].out = u[p - 1].out \o <<bits[j]>>
      /\ u[p].state.ones = NextCount(bits[j], ones)
      /\ u[p].state.flag = Flagged(bits[j], ones)
  BY <1>2, <1>7, UnstuffStepped
<1>9. HasBits(u[p].out, bits, j)
  BY <1>2, <1>4, <1>8, HasOneMore
<1>10. Flagged(bits[j], ones) = IF Fifth(bits[j], ones) THEN 1 ELSE 0
  BY DEF Flagged
<1>11. p = Written(r, j) - Flagged(bits[j], ones) /\ Flagged(bits[j], ones) \in {0, 1}
  <2>. DEFINE f == Flagged(bits[j], ones)    w == Written(r, j)    v == Written(r, k)
              fifth == Fifth(bits[j], ones)
  <2>1. /\ f = IF fifth THEN 1 ELSE 0
        /\ w = IF fifth THEN v + 2 ELSE v + 1
        /\ p - 1 = v /\ v \in Nat
    BY <1>1, <1>2, <1>5, <1>10, Zenon
  <2>. HIDE DEF f, w, v, fifth
  <2>2. p = w - f /\ f \in {0, 1}
    BY <2>1
  <2>. QED
    BY <2>2, Zenon DEF f, w
<1>12. Place(u, r, bits, p, j, Flagged(bits[j], ones))
  <2>1. Flagged(bits[j], ones) = 1 => r[j].state = 0
    BY <1>6, <1>10 DEF Fifth, NextCount
  <2>. QED
    BY <1>6, <1>8, <1>9, <1>11, <2>1, Zenon DEF Place
<1>. QED
  BY <1>4, <1>11, <1>12 DEF j

\* A stuffed bit.
LEMMA SkipsStuffedBit ==
  ASSUME NEW bits \in Seq(Bit), NEW r, StuffRun(r, bits),
         NEW air \in Seq(Bit), NEW u, UnstuffRun(u, air), NEW p \in 1..Len(air),
         NEW k \in 0..Len(bits), Place(u, r, bits, p - 1, k, 1)
  PROVE  Place(u, r, bits, p, k, 0)
<1>1. /\ p - 1 = Written(r, k) - 1 /\ u[p - 1].state.flag = 1
      /\ HasBits(u[p - 1].out, bits, k) /\ Written(r, k) \in Nat /\ r[k].state = 0
  BY NotTheEnd DEF Place
<1>2. u[p].out = u[p - 1].out /\ u[p].state.ones = 0 /\ u[p].state.flag = 0
  BY <1>1, UnstuffSkips, ZenonT(60)
<1>3. p = Written(r, k) - 0
  BY <1>1
<1>. QED
  BY <1>1, <1>2, <1>3 DEF Place

\* A zero behind the frame.
LEMMA KeepsZero ==
  ASSUME NEW bits \in Seq(Bit), NEW r, StuffRun(r, bits),
         NEW air \in Seq(Bit), NEW u, UnstuffRun(u, air),
         Carries(air, r[Len(bits)].out), NEW p \in 1..Len(air),
         p > Written(r, Len(bits)), u[p - 1].state.flag = 0,
         Len(u[p - 1].out) = Len(bits) + (p - 1 - Written(r, Len(bits))),
         \A i \in 1..Len(u[p - 1].out) :
           u[p - 1].out[i] = IF i <= Len(bits) THEN bits[i] ELSE 0
  PROVE  Beyond(u, bits, p, Written(r, Len(bits)))
<1>. DEFINE n == Len(bits)    w == Written(r, n)    before == u[p - 1].out
            after == u[p].out
<1>1. n \in Nat /\ n \in 0..n
  OBVIOUS
<1>2. w \in Nat /\ w = Len(r[n].out)
  BY <1>1, NotTheEnd DEF Written
<1>3. air[p] = 0
  BY <1>2 DEF Carries
<1>4. /\ before \in Seq(Bit) /\ after = before \o <<0>>
      /\ u[p].state.flag = Flagged(0, u[p - 1].state.ones)
  BY <1>3, UnstuffStepped
<1>5. Len(before) = n + (p - 1 - w)
      /\ \A i \in 1..Len(before) : before[i] = IF i <= n THEN bits[i] ELSE 0
  OBVIOUS
<1>6. u[p].state.flag = 0
  BY <1>4 DEF Flagged, Fifth
<1>. HIDE DEF before, after, w, n
<1>7. /\ Len(after) = Len(before) + 1 /\ after[Len(before) + 1] = 0
      /\ \A i \in 1..Len(before) : after[i] = before[i]
  BY <1>4
<1>8. Len(before) \in Nat /\ Len(before) >= n
  BY <1>1, <1>2, <1>5 DEF w, n
<1>9. Len(after) = n + (p - w)
  BY <1>1, <1>2, <1>5, <1>7
<1>10. ASSUME NEW i \in 1..Len(after) PROVE after[i] = IF i <= n THEN bits[i] ELSE 0
  <2>1. CASE i \in 1..Len(before)
    BY <2>1, <1>5, <1>7
  <2>2. CASE i = Len(before) + 1
    <3>1. ~(i <= n)
      BY <2>2, <1>1, <1>8
    <3>. QED
      BY <2>2, <3>1, <1>7
  <2>. QED
    BY <2>1, <2>2, <1>7, <1>8
<1>. QED
  BY <1>6, <1>9, <1>10 DEF Beyond, after, w, n

\* The frame ends with its last stuffed bit.
LEMMA AtTheEnd ==
  ASSUME NEW bits \in Seq(Bit), NEW r, StuffRun(r, bits), NEW u,
         NEW k \in 0..Len(bits), NEW flag \in {0, 1},
         Place(u, r, bits, Written(r, Len(bits)), k, flag)
  PROVE  k = Len(bits) /\ flag = 0
<1>1. /\ Written(r, k) \in Nat /\ Written(r, Len(bits)) \in Nat
      /\ Written(r, k) <= Written(r, Len(bits))
      /\ k < Len(bits) => Written(r, k) < Written(r, Len(bits))
  BY NotTheEnd
<1>2. Written(r, Len(bits)) = Written(r, k) - flag
  BY DEF Place
<1>. QED
  BY <1>1, <1>2

\* The unstuffer is in step with the stuffer at every bit on the air.
LEMMA UnstufferInStep ==
  ASSUME NEW bits \in Seq(Bit), NEW r, StuffRun(r, bits),
         NEW air \in Seq(Bit), NEW u, UnstuffRun(u, air),
         Carries(air, r[Len(bits)].out)
  PROVE  \A p \in 0..Len(air) : InStep(u, r, bits, p)
<1>. DEFINE n == Len(bits)    w == Written(r, n)
            Steps == {p \in 0..Len(air) : InStep(u, r, bits, p)}
<1>0. Len(air) \in Nat /\ n \in Nat /\ n \in 0..n /\ 0 \in 0..n /\ w \in Nat
  BY NotTheEnd
<1>1. 0 \in Steps
  <2>1. /\ u[0].out = <<>> /\ u[0].state.ones = 0 /\ u[0].state.flag = 0
        /\ r[0].state = 0 /\ Written(r, 0) = 0
    BY UnstuffRunTypes, StuffRunTypes
  <2>2. Place(u, r, bits, 0, 0, 0)
    BY <2>1 DEF Place, HasBits
  <2>3. InStep(u, r, bits, 0)
    BY <2>2, <1>0 DEF InStep
  <2>. QED
    BY <2>3, <1>0
<1>2. ASSUME NEW p \in 1..Len(air), p - 1 \in Steps PROVE p \in Steps
  <2>0. p \in 0..Len(air) /\ InStep(u, r, bits, p - 1)
    BY <1>2
  <2>1. CASE p <= w
    <3>1. PICK k \in 0..n, flag \in {0, 1} : Place(u, r, bits, p - 1, k, flag)
      <4>1. p - 1 <= w
        BY <2>1, <1>0
      <4>. QED
        BY <4>1, <2>0 DEF InStep
    <3>2. CASE flag = 0
      <4>1. Place(u, r, bits, p - 1, k, 0)
        BY <3>1, <3>2
      <4>2. \E f \in {0, 1} : k + 1 \in 0..Len(bits) /\ Place(u, r, bits, p, k + 1, f)
        BY <4>1, <2>1, KeepsFrameBit
      <4>3. InStep(u, r, bits, p)
        BY <4>2, <2>1 DEF InStep
      <4>. QED
        BY <4>3, <2>0
    <3>3. CASE flag = 1
      <4>1. Place(u, r, bits, p - 1, k, 1)
        BY <3>1, <3>3
      <4>2. Place(u, r, bits, p, k, 0)
        BY <4>1, SkipsStuffedBit
      <4>3. InStep(u, r, bits, p)
        BY <4>2, <2>1 DEF InStep
      <4>. QED
        BY <4>3, <2>0
    <3>. QED
      BY <3>2, <3>3
  <2>2. CASE p - 1 = w
    <3>1. PICK k \in 0..n, flag \in {0, 1} : Place(u, r, bits, w, k, flag)
      BY <2>2, <2>0, <1>0 DEF InStep
    <3>2. k = n /\ flag = 0
      BY <3>1, AtTheEnd
    <3>3. u[p - 1].state.flag = 0 /\ HasBits(u[p - 1].out, bits, n)
      BY <3>1, <3>2, <2>2 DEF Place
    <3>4. /\ Len(u[p - 1].out) = n + (p - 1 - w)
          /\ \A i \in 1..Len(u[p - 1].out) :
               u[p - 1].out[i] = IF i <= n THEN bits[i] ELSE 0
      <4>1. Len(u[p - 1].out) = n /\ \A i \in 1..n : u[p - 1].out[i] = bits[i]
        BY <3>3 DEF HasBits
      <4>2. p - 1 - w = 0
        BY <2>2, <1>0
      <4>. QED
        BY <4>1, <4>2, <1>0
    <3>5. p > w
      BY <2>2, <1>0
    <3>6. Beyond(u, bits, p, w)
      BY <3>3, <3>4, <3>5, KeepsZero
    <3>. QED
      BY <2>0, <3>5, <3>6, <1>0 DEF InStep
  <2>3. CASE p - 1 > w
    <3>1. ~(p - 1 <= w) /\ p > w /\ ~(p <= w)
      BY <2>3, <1>0
    <3>2. Beyond(u, bits, p - 1, w)
      BY <3>1, <2>0 DEF InStep
    <3>3. Beyond(u, bits, p, w)
      BY <3>1, <3>2, KeepsZero DEF Beyond
    <3>. QED
      BY <2>0, <3>1, <3>3 DEF InStep
  <2>. QED
    BY <2>1, <2>2, <2>3, <1>0
<1>. HIDE DEF Steps
<1>3. \A p \in 0..Len(air) : p \in Steps
  BY <1>0, <1>1, <1>2, UpTo
<1>. QED
  BY <1>3 DEF Steps

\* the stuffed bits that are not on the air
CutOff(air, s) == \A q \in 1..Len(s) : q > Len(air) => s[q] = 0

\* out holds the frame but for zeros at its end, or followed by some
Restores(out, bits) ==
  /\ out \in Seq(Bit) /\ Len(out) <= Len(bits) + 7
  /\ \A i \in 1..Len(out) : out[i] = IF i <= Len(bits) THEN bits[i] ELSE 0
  /\ \A i \in 1..Len(bits) : i > Len(out) => bits[i] = 0

\* What the unstuffer never saw of the frame is zeros.
LEMMA UnseenZeros ==
  ASSUME NEW bits \in Seq(Bit), NEW r, StuffRun(r, bits), NEW air \in Seq(Bit),
         CutOff(air, r[Len(bits)].out),
         NEW k \in 0..Len(bits), NEW flag \in {0, 1}, Len(air) = Written(r, k) - flag,
         NEW i \in 1..Len(bits), i > k
  PROVE  bits[i] = 0
<1>. DEFINE s == r[Len(bits)].out
<1>1. i - 1 \in 0..Len(bits) /\ k \in 0..(i - 1)
  OBVIOUS
<1>2. Written(r, k) <= Written(r, i - 1)
  BY <1>1, Grows
<1>3. Written(r, k) \in Nat /\ Written(r, i - 1) \in Nat
  BY <1>1, NotTheEnd
<1>4. Written(r, i - 1) + 1 \in 1..Len(s) /\ s[Written(r, i - 1) + 1] = bits[i]
  BY Placed
<1>5. Written(r, i - 1) + 1 > Len(air)
  BY <1>2, <1>3
<1>. QED
  BY <1>4, <1>5 DEF CutOff

\* ... so that at the end it has the frame.
LEMMA UnstuffedRestores ==
  ASSUME NEW bits \in Seq(Bit), NEW r, StuffRun(r, bits),
         NEW air \in Seq(Bit), NEW u, UnstuffRun(u, air),
         Carries(air, r[Len(bits)].out), CutOff(air, r[Len(bits)].out)
  PROVE  Restores(u[Len(air)].out, bits)
<1>. DEFINE n == Len(bits)    w == Written(r, n)    m == Len(air)    out == u[m].out
<1>1. n \in Nat /\ n \in 0..n /\ m \in Nat /\ m \in 0..m
  OBVIOUS
<1>2. w \in Nat /\ w = Len(r[n].out)
  BY <1>1, NotTheEnd DEF Written
<1>3. out \in Seq(Bit)
  BY <1>1, UnstuffRunTypes
<1>4. InStep(u, r, bits, m)
  BY <1>1, UnstufferInStep
<1>5. m <= w + 7
  BY <1>2 DEF Carries
<1>6. CASE m <= w
  <2>1. PICK k \in 0..n, flag \in {0, 1} : Place(u, r, bits, m, k, flag)
    BY <1>4, <1>6 DEF InStep
  <2>2. /\ m = Written(r, k) - flag /\ Len(out) = k
        /\ \A i \in 1..k : out[i] = bits[i]
    BY <2>1 DEF Place, HasBits
  <2>3. \A i \in 1..n : i > k => bits[i] = 0
    BY <2>2, UnseenZeros
  <2>4. Len(out) <= n + 7
    BY <2>2, <1>1
  <2>5. \A i \in 1..Len(out) : out[i] = IF i <= n THEN bits[i] ELSE 0
    BY <2>2, <1>1
  <2>. QED
    BY <1>3, <2>2, <2>3, <2>4, <2>5 DEF Restores
<1>7. CASE m > w
  <2>1. /\ Len(out) = n + (m - w)
        /\ \A i \in 1..Len(out) : out[i] = IF i <= n THEN bits[i] ELSE 0
    <3>1. ~(m <= w)
      BY <1>1, <1>2, <1>7
    <3>. QED
      BY <3>1, <1>4 DEF InStep, Beyond
  <2>2. Len(out) <= n + 7 /\ Len(out) >= n
    <3>1. n + (m - w) <= n + 7 /\ n + (m - w) >= n
      <4>1. n \in Nat /\ m \in Nat /\ w \in Nat
        BY <1>1, <1>2
      <4>. HIDE DEF n, m, w
      <4>. QED
        BY <4>1, <1>5, <1>7
    <3>. QED
      BY <2>1, <3>1
  <2>3. \A i \in 1..n : ~(i > Len(out))
    BY <2>2, <1>1
  <2>. QED
    BY <1>3, <2>1, <2>2, <2>3 DEF Restores
<1>. QED
  BY <1>1, <1>2, <1>6, <1>7

\* ax25Unstuff gives back every frame that ax25Stuff or AX25.stuff stuffed, but for
\* zeros at its end, from bytes that add to the stuffed bits, or leave out of them, zeros
\* only.
THEOREM StuffedRestores ==
  ASSUME NEW frame \in Seq(Bit), Len(frame) > 0, NEW air \in Seq(Bit), Len(air) > 0,
         Carries(air, Stuffed(frame)), CutOff(air, Stuffed(frame))
  PROVE  Restores(Unstuffed(air), frame)
<1>1. 0 \in DOMAIN StuffStep /\ Fresh \in DOMAIN UnstuffStep
  BY StuffTable, UnstuffTable DEF Fresh, Counts
<1>2. PICK r : StuffRun(r, frame) /\ Stuffed(frame) = r[Len(frame)].out
  BY <1>1, StuffTable, LoopRuns DEF StuffRun, Stuffed
<1>3. PICK u : UnstuffRun(u, air) /\ Unstuffed(air) = u[Len(air)].out
  BY <1>1, UnstuffTable, LoopRuns DEF UnstuffRun, Unstuffed, Fresh
<1>. QED
  BY <1>2, <1>3, UnstuffedRestores

-----------------------------------------------------------------------------
(* Whole bytes *)

\* Any number of bytes of a bit buffer is a sequence of bits.
LEMMA BytesType ==
  ASSUME NEW bits \in Seq(Bit), NEW k \in Nat
  PROVE  /\ Bytes(bits, k) \in Seq(Bit)
         /\ Len(Bytes(bits, k)) = 8 * k
         /\ \A i \in 1..(8 * k) :
              Bytes(bits, k)[i] = IF i <= Len(bits) THEN bits[i] ELSE 0
<1>. DEFINE b == Bytes(bits, k)
<1>1. 8 * k \in Nat
  OBVIOUS
<1>2. b = [i \in 1..(8 * k) |-> IF i <= Len(bits) THEN bits[i] ELSE 0]
  BY DEF Bytes
<1>3. \A i \in 1..(8 * k) : (IF i <= Len(bits) THEN bits[i] ELSE 0) \in Bit
  BY DEF Bit
<1>4. b \in [1..(8 * k) -> Bit]
  BY <1>2, <1>3
<1>5. b \in Seq(Bit)
  BY <1>1, <1>4
<1>6. Len(b) = 8 * k
  BY <1>1, <1>2
<1>. QED
  BY <1>2, <1>5, <1>6

\* Either sender ends its packet less than a byte after the last stuffed bit.
LEMMA WireLength ==
  ASSUME NEW by, NEW bits \in Seq(Bit), NEW k \in 0..(Len(bits) \div 8 + 1),
         WireBytes(by, bits, k)
  PROVE  8 * k <= Len(bits) + 7
<1>1. CASE by = "c"
  BY <1>1 DEF WireBytes
<1>2. CASE by # "c"
  <2>1. ~ZeroByte(bits, k)
    BY <1>2 DEF WireBytes
  <2>2. k = 0 \/ \E i \in (8 * k - 7)..(8 * k) : i <= Len(bits)
    BY <2>1 DEF ZeroByte
  <2>. QED
    BY <2>2
<1>. QED
  BY <1>1, <1>2

\* A zero byte is one behind the frame, or the frame's own.
LEMMA BehindFrame ==
  ASSUME NEW bits \in Seq(Bit), NEW n \in Nat,
         \A i \in 1..Len(bits) : i > 8 * n => bits[i] = 0
  PROVE  ZeroByte(bits, n + 1)
  BY DEF ZeroByte

\* A byte that is not zero has been read, at least in part.
LEMMA ReadInPart ==
  ASSUME NEW bits \in Seq(Bit), NEW n \in Nat, ~ZeroByte(bits, n), Len(bits) < 8 * n
  PROVE  Len(bits) >= 8 * n - 7
<1>1. n > 0 /\ Len(bits) \in Nat
  BY DEF ZeroByte
<1>2. PICK i \in (8 * n - 7)..(8 * n) : i <= Len(bits)
  BY <1>1 DEF ZeroByte
<1>. QED
  BY <1>1, <1>2

\* ax25Unstuff ends with the bytes of the frame when its last byte is not zero.
LEMMA CCount ==
  ASSUME NEW bits \in Seq(Bit), NEW n \in Nat, Len(bits) <= 8 * n + 7,
         \A i \in 1..Len(bits) : i > 8 * n => bits[i] = 0,
         ~ZeroByte(bits, n)
  PROVE  CDelivered(bits) = n
<1>. DEFINE written == (8 + Len(bits)) \div 8
            Stops(w) == {t \in 0..InfoBytes : t = InfoBytes \/ ~ZeroByte(bits, w - t)}
<1>1. InfoBytes \in Nat /\ InfoBytes >= 1 /\ Len(bits) \in Nat
  BY SizesAssumption
<1>2. CASE Len(bits) >= 8 * n
  <2>1. written = n + 1
    BY <1>1, <1>2
  <2>2. 1 \in Stops(n + 1)
    <3>1. (n + 1) - 1 = n
      OBVIOUS
    <3>. QED
      BY <3>1, <1>1
  <2>3. \A t \in Stops(n + 1) : t >= 1
    <3>1. ZeroByte(bits, (n + 1) - 0)
      BY BehindFrame
    <3>2. 0 \notin Stops(n + 1)
      BY <3>1, <1>1
    <3>3. Stops(n + 1) \subseteq Nat
      BY <1>1
    <3>. QED
      BY <3>2, <3>3
  <2>4. Min(Stops(n + 1)) = 1
    <3>. HIDE DEF Stops
    <3>1. \A x \in Stops(n + 1) : (\A y \in Stops(n + 1) : x <= y) => x = 1
      <4>1. Stops(n + 1) \subseteq Nat
        BY <1>1 DEF Stops
      <4>. QED
        BY <4>1, <2>2, <2>3
    <3>. QED
      BY <3>1, <2>2, <2>3 DEF Min
  <2>5. CDelivered(bits) = IF Min(Stops(written)) = 0 THEN (8 + Len(bits) + 7) \div 8 - 1
                           ELSE written - Min(Stops(written))
    BY DEF CDelivered
  <2>. QED
    <3>. HIDE DEF Stops, written
    <3>. QED
      BY <2>1, <2>4, <2>5
<1>3. CASE Len(bits) < 8 * n
  <2>1. Len(bits) >= 8 * n - 7
    BY <1>3, ReadInPart
  <2>2. written = n /\ (8 + Len(bits) + 7) \div 8 - 1 = n
    BY <2>1, <1>1, <1>3
  <2>3. 0 \in Stops(n)
    <3>1. n - 0 = n
      OBVIOUS
    <3>. QED
      BY <3>1, <1>1
  <2>4. Min(Stops(n)) = 0
    <3>. HIDE DEF Stops
    <3>1. Stops(n) \subseteq Nat
      BY <1>1 DEF Stops
    <3>2. \A x \in Stops(n) : (\A y \in Stops(n) : x <= y) => x = 0
      BY <3>1, <2>3
    <3>3. \A y \in Stops(n) : 0 <= y
      BY <3>1
    <3>. QED
      BY <3>2, <3>3, <2>3 DEF Min
  <2>5. CDelivered(bits) = IF Min(Stops(written)) = 0 THEN (8 + Len(bits) + 7) \div 8 - 1
                           ELSE written - Min(Stops(written))
    BY DEF CDelivered
  <2>. QED
    <3>. HIDE DEF Stops, written
    <3>. QED
      BY <2>2, <2>4, <2>5
<1>. QED
  BY <1>1, <1>2, <1>3

\* A buffer as long as the frame holds the frame when what is missing are zeros.
LEMMA BufferIsFrame ==
  ASSUME NEW bits \in Seq(Bit), NEW frame \in Seq(Bit), NEW n \in Nat, Len(frame) = 8 * n,
         \A i \in 1..Len(bits) : bits[i] = IF i <= Len(frame) THEN frame[i] ELSE 0,
         \A i \in 1..Len(frame) : i > Len(bits) => frame[i] = 0
  PROVE  Bytes(bits, n) = frame
<1>1. /\ Bytes(bits, n) \in Seq(Bit) /\ Len(Bytes(bits, n)) = 8 * n
      /\ \A i \in 1..(8 * n) : Bytes(bits, n)[i] = IF i <= Len(bits) THEN bits[i] ELSE 0
  BY BytesType
<1>2. ASSUME NEW i \in 1..Len(frame) PROVE Bytes(bits, n)[i] = frame[i]
  <2>1. CASE i <= Len(bits)
    <3>1. i \in 1..Len(bits)
      BY <2>1
    <3>2. bits[i] = frame[i]
      BY <3>1
    <3>. QED
      BY <3>2, <2>1, <1>1
  <2>2. CASE i > Len(bits)
    <3>1. frame[i] = 0
      BY <2>2
    <3>. QED
      BY <3>1, <2>2, <1>1
  <2>. QED
    BY <2>1, <2>2
<1>. HIDE DEF Bytes
<1>. QED
  BY <1>1, <1>2, SeqEqual


\* The packet of either sender.
LEMMA WireCarries ==
  ASSUME NEW s \in Seq(Bit), NEW by, NEW k \in 0..(Len(s) \div 8 + 1), WireBytes(by, s, k),
         NEW air, air = Bytes(s, k)
  PROVE  air \in Seq(Bit) /\ Len(air) = 8 * k /\ Carries(air, s) /\ CutOff(air, s)
<1>1. k \in Nat /\ Len(s) \in Nat
  OBVIOUS
<1>2. /\ air \in Seq(Bit) /\ Len(air) = 8 * k
      /\ \A i \in 1..(8 * k) : air[i] = IF i <= Len(s) THEN s[i] ELSE 0
  BY <1>1, BytesType
<1>3. 8 * k <= Len(s) + 7
  BY WireLength
<1>4. Carries(air, s)
  BY <1>2, <1>3 DEF Carries
<1>5. ASSUME NEW p \in 1..Len(s), p > 8 * k PROVE s[p] = 0
  <2>1. by # "c"
    <3>1. by = "c" => Len(s) <= 8 * k
      BY <1>1 DEF WireBytes
    <3>. QED
      BY <3>1, <1>1, <1>5
  <2>. DEFINE b == (p + 7) \div 8
  <2>2. b \in (k + 1)..(Len(s) \div 8 + 1) /\ p \in (8 * b - 7)..(8 * b)
    BY <1>1, <1>5
  <2>. HIDE DEF b
  <2>3. ZeroByte(s, b)
    BY <2>1, <2>2 DEF WireBytes
  <2>. QED
    BY <2>2, <2>3, <1>1 DEF ZeroByte
<1>6. CutOff(air, s)
  BY <1>2, <1>5 DEF CutOff
<1>. QED
  BY <1>2, <1>4, <1>6

\* The library's packet of what came out of unstuffing is the frame.
LEMMA DeliveredIsFrame ==
  ASSUME NEW frame \in Seq(Bit), NEW n \in Nat, Len(frame) = 8 * n, ~ZeroByte(frame, n),
         NEW kept, Restores(kept, frame)
  PROVE  Bytes(kept, CDelivered(kept)) = frame
<1>1. /\ kept \in Seq(Bit) /\ Len(kept) <= 8 * n + 7
      /\ \A i \in 1..Len(kept) : kept[i] = IF i <= Len(frame) THEN frame[i] ELSE 0
      /\ \A i \in 1..Len(frame) : i > Len(kept) => frame[i] = 0
  BY DEF Restores
<1>2. \A i \in 1..Len(kept) : i > 8 * n => kept[i] = 0
  BY <1>1
<1>3. ~ZeroByte(kept, n)
  <2>1. SUFFICES ASSUME n > 0 PROVE ~ZeroByte(kept, n)
    BY DEF ZeroByte
  <2>2. PICK i \in (8 * n - 7)..(8 * n) : i <= Len(frame) /\ frame[i] # 0
    BY <2>1 DEF ZeroByte
  <2>3. i \in 1..Len(frame)
    BY <2>1, <2>2
  <2>4. i \in 1..Len(kept)
    BY <2>2, <2>3, <1>1
  <2>5. kept[i] # 0
    BY <2>2, <2>4, <1>1
  <2>. QED
    BY <2>2, <2>4, <2>5 DEF ZeroByte
<1>4. CDelivered(kept) = n
  BY <1>1, <1>2, <1>3, CCount
<1>. QED
  BY <1>1, <1>4, BufferIsFrame

-----------------------------------------------------------------------------
(* Bits and bytes *)

Byte == SUBSET (0..7)

\* The bits of a frame.
LEMMA ToBitsType ==
  ASSUME NEW bytes \in Seq(Byte)
  PROVE  /\ ToBits(bytes) \in Seq(Bit) /\ Len(ToBits(bytes)) = 8 * Len(bytes)
         /\ \A i \in 1..(8 * Len(bytes)) : ToBits(bytes)[i]
              = IF 7 - ((i - 1) % 8) \in bytes[(i + 7) \div 8] THEN 1 ELSE 0
<1>. DEFINE n == 8 * Len(bytes)
            bit(i) == IF 7 - ((i - 1) % 8) \in bytes[(i + 7) \div 8] THEN 1 ELSE 0
            bits == ToBits(bytes)
<1>1. n \in Nat
  OBVIOUS
<1>2. bits = [i \in 1..n |-> bit(i)]
  BY DEF ToBits
<1>3. \A i \in 1..n : bit(i) \in Bit
  BY DEF Bit
<1>. HIDE DEF n, bit, bits
<1>4. bits \in [1..n -> Bit] /\ \A i \in 1..n : bits[i] = bit(i)
  BY <1>2, <1>3
<1>5. bits \in Seq(Bit) /\ Len(bits) = n
  BY <1>1, <1>4
<1>. QED
  BY <1>4, <1>5 DEF n, bit, bits

\* A frame read back in bytes.
LEMMA BytesBack ==
  ASSUME NEW bytes \in Seq(Byte)
  PROVE  ToBytes(ToBits(bytes)) = bytes
<1>. DEFINE n == Len(bytes)    bits == ToBits(bytes)
<1>1. n \in Nat /\ bits \in Seq(Bit) /\ Len(bits) = 8 * n
  BY ToBitsType
<1>2. ASSUME NEW b \in 1..n PROVE ToByte(bits, b) = bytes[b]
  <2>1. bytes[b] \in Byte
    BY ElementOfSeq
  <2>2. ASSUME NEW i \in 0..7 PROVE (bits[8 * b - i] = 1) <=> (i \in bytes[b])
    <3>1. /\ 8 * b - i \in 1..(8 * n) /\ 7 - ((8 * b - i - 1) % 8) = i
          /\ (8 * b - i + 7) \div 8 = b
      BY <1>1
    <3>2. bits[8 * b - i] = IF 7 - ((8 * b - i - 1) % 8) \in bytes[(8 * b - i + 7) \div 8]
                            THEN 1 ELSE 0
      BY <3>1, ToBitsType
    <3>3. bits[8 * b - i] = IF i \in bytes[b] THEN 1 ELSE 0
      BY <3>1, <3>2, Zenon
    <3>. QED
      BY <3>3
  <2>. HIDE DEF bits
  <2>3. ToByte(bits, b) = {i \in 0..7 : i \in bytes[b]}
    BY <2>2, Zenon DEF ToByte
  <2>. QED
    BY <2>1, <2>3 DEF Byte
<1>3. Len(bits) \div 8 = n
  BY <1>1
<1>. HIDE DEF bits, n
<1>4. ToBytes(bits) = [b \in 1..n |-> bytes[b]]
  BY <1>2, <1>3, Zenon DEF ToBytes
<1>. QED
  BY <1>4 DEF n, bits

\* Bits that make the same bytes are the same.
LEMMA SameBits ==
  ASSUME NEW x \in Seq(Bit), NEW y \in Seq(Bit), NEW n \in Nat, Len(x) = 8 * n, Len(y) = 8 * n,
         ToBytes(x) = ToBytes(y)
  PROVE  x = y
<1>1. ASSUME NEW z \in Seq(Bit), Len(z) = 8 * n
      PROVE  ToBytes(z) = [b \in 1..n |-> ToByte(z, b)]
  <2>1. Len(z) \div 8 = n
    BY <1>1
  <2>. QED
    BY <2>1, Zenon DEF ToBytes
<1>2. ASSUME NEW i \in 1..(8 * n) PROVE x[i] = y[i]
  <2>. DEFINE b == (i + 7) \div 8    j == 8 * b - i
  <2>1. b \in 1..n /\ j \in 0..7 /\ 8 * b - j = i
    OBVIOUS
  <2>. HIDE DEF b, j
  <2>2. ToByte(x, b) = ToByte(y, b)
    BY <1>1, <2>1, Zenon
  <2>3. x[i] = 1 <=> y[i] = 1
    <3>1. j \in ToByte(x, b) <=> x[8 * b - j] = 1
      BY <2>1, Zenon DEF ToByte
    <3>2. j \in ToByte(y, b) <=> y[8 * b - j] = 1
      BY <2>1, Zenon DEF ToByte
    <3>. QED
      BY <2>1, <2>2, <3>1, <3>2, Zenon
  <2>4. x[i] \in Bit /\ y[i] \in Bit
    <3>1. i \in 1..Len(x) /\ i \in 1..Len(y)
      OBVIOUS
    <3>. QED
      BY <3>1, ElementOfSeq
  <2>. QED
    BY <2>3, <2>4 DEF Bit
<1>3. Len(x) = Len(y) /\ \A i \in 1..Len(x) : x[i] = y[i]
  BY <1>2
<1>. QED
  BY <1>3, SeqEqual, Zenon

\* A last byte that is not zero.
LEMMA LastByte ==
  ASSUME NEW bytes \in Seq(Byte), Len(bytes) > 0, Last(bytes) # {}
  PROVE  ~ZeroByte(ToBits(bytes), Len(bytes))
<1>. DEFINE n == Len(bytes)    bits == ToBits(bytes)
<1>1. n \in Nat /\ n > 0 /\ n \in 1..n
  OBVIOUS
<1>2. bytes[n] \in Byte /\ bytes[n] # {}
  BY <1>1, ElementOfSeq DEF Last
<1>3. PICK i \in 0..7 : i \in bytes[n]
  BY <1>2 DEF Byte
<1>4. /\ 8 * n - i \in 1..(8 * n) /\ 7 - ((8 * n - i - 1) % 8) = i
      /\ (8 * n - i + 7) \div 8 = n
  BY <1>1
<1>5. bits[8 * n - i] = IF 7 - ((8 * n - i - 1) % 8) \in bytes[(8 * n - i + 7) \div 8]
                        THEN 1 ELSE 0
  BY <1>4, ToBitsType
<1>6. bits[8 * n - i] = 1
  BY <1>3, <1>4, <1>5, Zenon
<1>7. Len(bits) = 8 * n /\ 8 * n - i \in (8 * n - 7)..(8 * n)
  BY <1>1, ToBitsType
<1>. HIDE DEF bits, n
<1>8. ~ZeroByte(bits, n)
  <2>1. 8 * n - i <= Len(bits)
    BY <1>1, <1>7
  <2>. QED
    BY <1>6, <1>7, <2>1 DEF ZeroByte
<1>. QED
  BY <1>8 DEF bits, n

-----------------------------------------------------------------------------
(* The frames *)

\* what ax25Recv looks at, and the addresses' first bytes end in a zero
Framed(bytes) ==
  /\ bytes \in Seq(Byte) /\ Len(bytes) \in {17, IFrameBytes}
  /\ SubSeq(bytes, 1, 7) \in {AddressBytes(Akito, {}), AddressBytes(Atlas, {})}
  /\ FcsMatches(bytes)
  /\ \A i \in 1..6 : 0 \notin bytes[i]

\* The FCS is two bytes.
LEMMA FcsType ==
  ASSUME NEW bytes
  PROVE  Fcs(bytes) \in Seq(Byte) /\ Len(Fcs(bytes)) = 2
<1>1. ASSUME NEW a PROVE Low(a) \in Byte
  BY DEF Low, Byte
<1>2. ASSUME NEW a \in Byte, NEW b \in Byte PROVE <<a, b>> \in Seq(Byte) /\ Len(<<a, b>>) = 2
  OBVIOUS
<1>. QED
  BY <1>1, <1>2, Zenon DEF Fcs

\* An address is seven bytes, and the first six end in a zero bit.
LEMMA AddressType ==
  ASSUME NEW call, NEW last \in SUBSET {0}
  PROVE  /\ AddressBytes(call, last) \in Seq(Byte) /\ Len(AddressBytes(call, last)) = 7
         /\ \A i \in 1..6 : 0 \notin AddressBytes(call, last)[i]
<1>. DEFINE byte(i) == IF i = 7 THEN {5, 6} \cup last
                       ELSE IF i <= Len(call) THEN Low(Shl(Bits(call[i]), 1)) ELSE {6}
            a == AddressBytes(call, last)
<1>1. a = [i \in 1..7 |-> byte(i)]
  BY DEF AddressBytes
<1>2. ASSUME NEW x PROVE Low(Shl(Bits(x), 1)) \in Byte /\ 0 \notin Low(Shl(Bits(x), 1))
  <2>1. Bits(x) \subseteq 0..15
    BY DEF Bits
  <2>. QED
    BY <2>1 DEF Low, Shl, Byte
<1>3. ASSUME NEW i \in 1..7 PROVE byte(i) \in Byte /\ (i # 7 => 0 \notin byte(i))
  <2>1. {5, 6} \cup last \in Byte /\ {6} \in Byte /\ 0 \notin {6}
    BY DEF Byte
  <2>. QED
    BY <2>1, <1>2, Zenon
<1>. HIDE DEF byte, a
<1>4. a \in [1..7 -> Byte] /\ \A i \in 1..7 : a[i] = byte(i)
  BY <1>1, <1>3
<1>5. a \in Seq(Byte) /\ Len(a) = 7
  <2>1. ASSUME NEW n \in Nat, NEW x, x \in [1..n -> Byte] PROVE x \in Seq(Byte) /\ Len(x) = n
    BY <2>1
  <2>. QED
    BY <1>4, <2>1
<1>6. \A i \in 1..6 : 0 \notin a[i]
  BY <1>3, <1>4
<1>. QED
  BY <1>5, <1>6 DEF a

\* A stretch of a sequence.
LEMMA Stretch ==
  ASSUME NEW s \in Seq(Byte), NEW m \in Nat \ {0}, NEW k \in Nat, m - 1 + k <= Len(s),
         NEW n, n = m - 1 + k
  PROVE  /\ SubSeq(s, m, n) \in Seq(Byte) /\ Len(SubSeq(s, m, n)) = k
         /\ \A i \in 1..k : SubSeq(s, m, n)[i] = s[m - 1 + i]
<1>. DEFINE u == SubSeq(s, m, n)
<1>1. n \in Int /\ m \in Int /\ n - m + 1 = k
  OBVIOUS
<1>2. ASSUME NEW i \in m..n PROVE s[i] \in Byte
  <2>1. i \in 1..Len(s)
    OBVIOUS
  <2>. QED
    BY <2>1, ElementOfSeq
<1>3. /\ u \in Seq(Byte) /\ Len(u) = IF m <= n THEN n - m + 1 ELSE 0
      /\ \A i \in 1..(n - m + 1) : u[i] = s[m + i - 1]
  <2>1. \A i \in m..n : s[i] \in Byte
    BY <1>2
  <2>2. u \in Seq(Byte)
    BY <1>1, <2>1, SubSeqProperties
  <2>3. Len(u) = IF m <= n THEN n - m + 1 ELSE 0
    BY <1>1, <2>1, SubSeqProperties
  <2>4. \A i \in 1..(n - m + 1) : u[i] = s[m + i - 1]
    BY <1>1, <2>1, SubSeqProperties
  <2>. QED
    BY <2>2, <2>3, <2>4
<1>4. Len(u) = k
  <2>. HIDE DEF u
  <2>. QED
    BY <1>1, <1>3
<1>5. ASSUME NEW i \in 1..k PROVE u[i] = s[m - 1 + i]
  <2>1. m + i - 1 = m - 1 + i /\ i \in 1..(n - m + 1)
    BY <1>1
  <2>. QED
    BY <1>3, <2>1, Zenon
<1>. QED
  BY <1>3, <1>4, <1>5, Zenon

\* A stretch of a sequence that is known.
LEMMA Slice ==
  ASSUME NEW s \in Seq(Byte), NEW m \in Nat \ {0}, NEW t \in Seq(Byte),
         m - 1 + Len(t) <= Len(s), NEW n, n = m - 1 + Len(t), Len(t) > 0,
         \A i \in 1..Len(t) : t[i] = s[m - 1 + i]
  PROVE  SubSeq(s, m, n) = t
<1>. DEFINE k == Len(t)    u == SubSeq(s, m, n)
<1>1. k \in Nat /\ n \in Int /\ m \in Int /\ m <= n /\ n - m + 1 = k
  OBVIOUS
<1>2. ASSUME NEW i \in m..n PROVE s[i] \in Byte
  <2>1. i \in 1..Len(s)
    OBVIOUS
  <2>. QED
    BY <2>1, ElementOfSeq
<1>3. /\ u \in Seq(Byte) /\ Len(u) = IF m <= n THEN n - m + 1 ELSE 0
      /\ \A i \in 1..(n - m + 1) : u[i] = s[m + i - 1]
  <2>1. \A i \in m..n : s[i] \in Byte
    BY <1>2
  <2>2. u \in Seq(Byte)
    BY <1>1, <2>1, SubSeqProperties
  <2>3. Len(u) = IF m <= n THEN n - m + 1 ELSE 0
    BY <1>1, <2>1, SubSeqProperties
  <2>4. \A i \in 1..(n - m + 1) : u[i] = s[m + i - 1]
    BY <1>1, <2>1, SubSeqProperties
  <2>. QED
    BY <2>2, <2>3, <2>4
<1>4. Len(u) = k
  <2>. HIDE DEF u, k
  <2>. QED
    BY <1>1, <1>3
<1>5. ASSUME NEW i \in 1..k PROVE u[i] = t[i]
  <2>1. m + i - 1 = m - 1 + i /\ i \in 1..(n - m + 1)
    BY <1>1
  <2>2. u[i] = s[m + i - 1]
    BY <1>3, <2>1, Zenon
  <2>3. t[i] = s[m - 1 + i]
    OBVIOUS
  <2>. QED
    BY <2>1, <2>2, <2>3, Zenon
<1>. QED
  BY <1>3, <1>4, <1>5, SeqEqual, Zenon

\* z is x and y behind each other
Parts(z, x, y) ==
  /\ z \in Seq(Byte) /\ Len(x) \in Nat /\ Len(y) \in Nat /\ Len(z) = Len(x) + Len(y)
  /\ \A i \in 1..Len(x) : z[i] = x[i]
  /\ \A i \in 1..Len(y) : z[Len(x) + i] = y[i]

\* What two sequences of bytes have end to end.
LEMMA TwoByteParts ==
  ASSUME NEW x \in Seq(Byte), NEW y \in Seq(Byte), NEW z, z = x \o y
  PROVE  Parts(z, x, y)
BY DEF Parts

Found(z, x, y) ==
  SubSeq(z, 1, Len(x)) = x /\ SubSeq(z, Len(x) + 1, Len(x) + Len(y)) = y

\* Both parts of a sequence are found where they were put.
LEMMA PartsFound ==
  ASSUME NEW x \in Seq(Byte), NEW y \in Seq(Byte), NEW z, z = x \o y,
         Len(x) > 0, Len(y) > 0
  PROVE  Found(z, x, y)
<1>. DEFINE a == Len(x)    b == Len(y)
<1>1. /\ z \in Seq(Byte) /\ a \in Nat /\ b \in Nat /\ Len(z) = a + b
      /\ \A i \in 1..a : z[i] = x[i]
      /\ \A i \in 1..b : z[a + i] = y[i]
  <2>1. Parts(z, x, y)
    BY TwoByteParts, Zenon
  <2>. QED
    BY <2>1 DEF Parts
<1>2. SubSeq(z, 1, a) = x
  <2>1. 1 \in Nat \ {0} /\ 1 - 1 + a <= Len(z) /\ a = 1 - 1 + a
    BY <1>1
  <2>2. \A i \in 1..a : x[i] = z[1 - 1 + i]
    BY <1>1
  <2>. QED
    BY <1>1, <2>1, <2>2, Slice
<1>3. SubSeq(z, a + 1, a + b) = y
  <2>. DEFINE m == a + 1
  <2>1. m \in Nat \ {0} /\ m - 1 + b <= Len(z) /\ a + b = m - 1 + b
    BY <1>1
  <2>2. \A i \in 1..b : y[i] = z[m - 1 + i]
    BY <1>1
  <2>. HIDE DEF m
  <2>3. SubSeq(z, m, a + b) = y
    BY <1>1, <2>1, <2>2, Slice
  <2>. QED
    BY <2>3 DEF m
<1>. QED
  BY <1>2, <1>3, Zenon DEF Found

\* bytes is body and an FCS that matches
WithFcs(bytes, body) ==
  /\ bytes \in Seq(Byte) /\ Len(bytes) = Len(body) + 2 /\ FcsMatches(bytes)
  /\ \A i \in 1..Len(body) : bytes[i] = body[i]

\* The FCS matches when it is that of what comes before it.
LEMMA FcsFound ==
  ASSUME NEW body \in Seq(Byte), Len(body) > 0, NEW f \in Seq(Byte), Len(f) = 2,
         f = Fcs(body), NEW bytes, bytes = body \o f
  PROVE  WithFcs(bytes, body)
<1>. DEFINE m == Len(body)    n == Len(bytes)
<1>2. /\ bytes \in Seq(Byte) /\ n = m + Len(f) /\ m \in Nat
      /\ \A i \in 1..m : bytes[i] = body[i]
  <2>1. Parts(bytes, body, f)
    BY TwoByteParts, Zenon
  <2>. QED
    BY <2>1 DEF Parts
<1>3. SubSeq(bytes, 1, m) = body /\ SubSeq(bytes, m + 1, m + Len(f)) = f
  <2>1. Len(f) > 0
    OBVIOUS
  <2>. QED
    BY <2>1, PartsFound, Zenon DEF Found
<1>4. n = m + 2 /\ n - 2 = m /\ n - 1 = m + 1 /\ n > 2 /\ m + Len(f) = n
  BY <1>2
<1>5. FcsMatches(bytes)
  <2>. HIDE DEF m, n
  <2>1. Fcs(SubSeq(bytes, 1, n - 2)) = f
    BY <1>3, <1>4, Zenon
  <2>2. SubSeq(bytes, n - 1, n) = f
    BY <1>3, <1>4, Zenon
  <2>. QED
    BY <1>4, <2>1, <2>2, Zenon DEF FcsMatches, n
<1>. QED
  BY <1>2, <1>4, <1>5, Zenon DEF WithFcs

\* Address, the rest and the FCS make a frame of one of the two lengths.
LEMMA FrameLengths ==
  ASSUME NEW l \in {8, IFrameBytes - 9}
  PROVE  l \in Nat /\ l > 0 /\ 7 + l + 2 \in {17, IFrameBytes}
<1>1. IFrameBytes \in Nat /\ IFrameBytes > 18
  BY SizesAssumption DEF IFrameBytes
<1>2. l = 8 \/ l = IFrameBytes - 9
  OBVIOUS
<1>. QED
  BY <1>1, <1>2

\* bytes starts with the address a and is rest and an FCS longer
Starts(bytes, a, rest) ==
  /\ Len(bytes) = 7 + Len(rest) + 2 /\ SubSeq(bytes, 1, 7) = a
  /\ \A i \in 1..6 : 0 \notin bytes[i]

\* The address a of the other station, whatever follows it, and the FCS.
LEMMA Addressed ==
  ASSUME NEW a \in Seq(Byte), Len(a) = 7, \A i \in 1..6 : 0 \notin a[i],
         NEW rest \in Seq(Byte), Len(rest) > 0, NEW body, body = a \o rest,
         NEW bytes, WithFcs(bytes, body)
  PROVE  Starts(bytes, a, rest)
<1>0. /\ bytes \in Seq(Byte) /\ Len(bytes) = Len(body) + 2
      /\ \A i \in 1..Len(body) : bytes[i] = body[i]
  BY DEF WithFcs
<1>1. /\ Len(a) \in Nat /\ Len(rest) \in Nat /\ Len(body) = Len(a) + Len(rest)
      /\ \A i \in 1..Len(a) : body[i] = a[i]
  <2>1. Parts(body, a, rest)
    BY TwoByteParts, Zenon
  <2>. QED
    BY <2>1 DEF Parts
<1>2. Len(bytes) = 7 + Len(rest) + 2 /\ 7 <= Len(body) /\ 7 <= Len(bytes)
  BY <1>0, <1>1
<1>3. ASSUME NEW i \in 1..7 PROVE bytes[i] = a[i]
  <2>1. i \in 1..Len(a) /\ i \in 1..Len(body)
    BY <1>1, <1>2
  <2>. QED
    BY <2>1, <1>0, <1>1, Zenon
<1>4. SubSeq(bytes, 1, 7) = a
  <2>1. /\ 1 \in Nat \ {0} /\ 1 - 1 + Len(a) <= Len(bytes) /\ 7 = 1 - 1 + Len(a)
        /\ Len(a) > 0
    BY <1>2
  <2>2. ASSUME NEW i \in 1..Len(a) PROVE a[i] = bytes[1 - 1 + i]
    <3>1. i \in 1..7 /\ 1 - 1 + i = i
      OBVIOUS
    <3>. QED
      BY <3>1, <1>3, Zenon
  <2>. QED
    BY <1>0, <2>1, <2>2, Slice
<1>5. ASSUME NEW i \in 1..6 PROVE 0 \notin bytes[i]
  <2>1. i \in 1..7
    OBVIOUS
  <2>. QED
    BY <2>1, <1>3, Zenon
<1>. QED
  BY <1>2, <1>4, <1>5, Zenon DEF Starts

\* rest comes after the address, with the FCS behind it
Follows(bytes, rest) ==
  /\ bytes \in Seq(Byte) /\ Len(bytes) = 9 + Len(rest)
  /\ \A i \in 1..Len(rest) : bytes[7 + i] = rest[i]

\* Whatever has the address of a station and its FCS is Framed.
LEMMA BodyFramed ==
  ASSUME NEW dst \in {Akito, Atlas}, NEW rest \in Seq(Byte),
         Len(rest) \in {8, IFrameBytes - 9},
         NEW body, body = AddressBytes(dst, {}) \o rest,
         NEW bytes, bytes = body \o Fcs(body)
  PROVE  Framed(bytes) /\ Follows(bytes, rest)
<1>. DEFINE a == AddressBytes(dst, {})    f == Fcs(body)
<1>1. a \in Seq(Byte) /\ Len(a) = 7 /\ \A i \in 1..6 : 0 \notin a[i]
  BY AddressType
<1>2. a \in {AddressBytes(Akito, {}), AddressBytes(Atlas, {})}
  OBVIOUS
<1>3. f \in Seq(Byte) /\ Len(f) = 2
  BY FcsType, Zenon
<1>4. Len(rest) > 0 /\ 7 + Len(rest) + 2 \in {17, IFrameBytes}
  BY FrameLengths, Zenon
<1>5. body = a \o rest /\ bytes = body \o f /\ f = Fcs(body)
  OBVIOUS
<1>. HIDE DEF a, f
<1>6. body \in Seq(Byte) /\ Len(body) > 0
  <2>1. /\ body \in Seq(Byte) /\ Len(a) \in Nat /\ Len(rest) \in Nat
        /\ Len(body) = Len(a) + Len(rest)
    <3>1. Parts(body, a, rest)
      BY <1>1, <1>5, TwoByteParts, Zenon
    <3>. QED
      BY <3>1 DEF Parts
  <2>. QED
    BY <2>1, <1>1
<1>7. WithFcs(bytes, body)
  BY <1>3, <1>5, <1>6, FcsFound, Zenon
<1>8. Starts(bytes, a, rest)
  BY <1>1, <1>4, <1>5, <1>7, Addressed, Zenon
<1>9. Framed(bytes)
  BY <1>2, <1>4, <1>7, <1>8, Zenon DEF Framed, WithFcs, Starts
<1>10. Follows(bytes, rest)
  <2>1. Parts(body, a, rest)
    BY <1>1, <1>5, TwoByteParts, Zenon
  <2>2. ASSUME NEW i \in 1..Len(rest) PROVE bytes[7 + i] = rest[i]
    <3>1. body[7 + i] = rest[i]
      BY <1>1, <2>1 DEF Parts
    <3>2. 7 + i \in 1..Len(body)
      BY <1>1, <2>1 DEF Parts
    <3>. QED
      BY <1>7, <3>1, <3>2, Zenon DEF WithFcs
  <2>3. bytes \in Seq(Byte) /\ Len(bytes) = Len(body) + 2
    BY <1>7, Zenon DEF WithFcs
  <2>4. Len(bytes) = 9 + Len(rest)
    BY <1>1, <2>1, <2>3 DEF Parts
  <2>. QED
    BY <2>2, <2>3, <2>4, Zenon DEF Follows
<1>. QED
  BY <1>9, <1>10

\* the information of an I frame is a codeword
Carried(bytes, word) == \A i \in 1..RsEncodedDataSize : bytes[16 + i] = word[i]
Coded(bytes) ==
  Len(bytes) = IFrameBytes => \E word \in Codewords : Carried(bytes, word)

\* what a Transmit action is given
Sendable(frame) == \E bytes : Framed(bytes) /\ Coded(bytes) /\ frame = ToBits(bytes)

\* Concatenation is associative.
LEMMA JoinedBytes ==
  ASSUME NEW x \in Seq(Byte), NEW y \in Seq(Byte), NEW z \in Seq(Byte)
  PROVE  (x \o y) \o z = x \o (y \o z)
OBVIOUS

\* ... and adds up lengths.
LEMMA JoinedLength ==
  ASSUME NEW x \in Seq(Byte), NEW y \in Seq(Byte)
  PROVE  x \o y \in Seq(Byte) /\ Len(x \o y) = Len(x) + Len(y)
OBVIOUS

\* Every U frame of ax25SendUFrame and encode_frame is Framed.
LEMMA UFrameSendable ==
  ASSUME NEW dst \in {Akito, Atlas}, NEW src, NEW control \in Byte
  PROVE  Sendable(UFrame(dst, src, control))
<1>. DEFINE a == AddressBytes(dst, {})    b == AddressBytes(src, {0})    c == <<control>>
            body == a \o b \o c
<1>1. a \in Seq(Byte) /\ b \in Seq(Byte) /\ Len(b) = 7
  BY AddressType
<1>2. c \in Seq(Byte) /\ Len(c) = 1
  OBVIOUS
<1>3. UFrame(dst, src, control) = ToBits(body \o Fcs(body))
  BY DEF UFrame
<1>. HIDE DEF b, c
<1>4. body = AddressBytes(dst, {}) \o (b \o c)
  BY <1>1, <1>2, JoinedBytes, Zenon
<1>5. b \o c \in Seq(Byte) /\ Len(b \o c) = 8
  <2>1. b \o c \in Seq(Byte) /\ Len(b \o c) = Len(b) + Len(c)
    BY <1>1, <1>2, JoinedLength, Zenon
  <2>. QED
    BY <1>1, <1>2, <2>1
<1>. HIDE DEF a, body
<1>6. Len(b \o c) \in {8, IFrameBytes - 9}
  BY <1>5
<1>7. Framed(body \o Fcs(body)) /\ Follows(body \o Fcs(body), b \o c)
  BY <1>4, <1>5, <1>6, BodyFramed, Zenon
<1>8. Coded(body \o Fcs(body))
  <2>1. Len(body \o Fcs(body)) = 9 + 8
    BY <1>5, <1>7, Zenon DEF Follows
  <2>2. IFrameBytes # 9 + 8
    BY SizesAssumption DEF IFrameBytes
  <2>. QED
    BY <2>1, <2>2, Zenon DEF Coded
<1>. QED
  BY <1>3, <1>7, <1>8, Zenon DEF Sendable

\* So is every I frame, whatever its information and control byte.
LEMMA IFrameSendable ==
  ASSUME NEW dst \in {Akito, Atlas}, NEW src, NEW control \in Byte, NEW pid \in Byte,
         NEW info \in Codewords, info \in Seq(Byte), Len(info) = RsEncodedDataSize
  PROVE  Sendable(IFrame(dst, src, control, pid, info))
<1>. DEFINE a == AddressBytes(dst, {})    b == AddressBytes(src, {0})
            c == <<control, pid>>         body == a \o b \o c \o info
<1>1. a \in Seq(Byte) /\ b \in Seq(Byte) /\ Len(b) = 7
  BY AddressType
<1>2. c \in Seq(Byte) /\ Len(c) = 2
  OBVIOUS
<1>3. IFrame(dst, src, control, pid, info) = ToBits(body \o Fcs(body))
  BY DEF IFrame
<1>. HIDE DEF b, c
<1>4. /\ c \o info \in Seq(Byte) /\ b \o (c \o info) \in Seq(Byte)
      /\ Len(b \o (c \o info)) = 9 + Len(info)
  <2>1. c \o info \in Seq(Byte) /\ Len(c \o info) = Len(c) + Len(info)
    BY <1>2, JoinedLength, Zenon
  <2>2. /\ b \o (c \o info) \in Seq(Byte)
        /\ Len(b \o (c \o info)) = Len(b) + Len(c \o info)
    BY <1>1, <2>1, JoinedLength, Zenon
  <2>3. Len(info) \in Nat
    OBVIOUS
  <2>. QED
    BY <1>1, <1>2, <2>1, <2>2, <2>3
<1>5. body = AddressBytes(dst, {}) \o (b \o (c \o info))
  <2>1. a \o b \in Seq(Byte)
    BY <1>1, JoinedLength, Zenon
  <2>2. body = (a \o b) \o (c \o info)
    BY <1>2, <2>1, JoinedBytes, Zenon
  <2>3. (a \o b) \o (c \o info) = a \o (b \o (c \o info))
    BY <1>1, <1>4, JoinedBytes, ZenonT(60)
  <2>. QED
    BY <2>2, <2>3
<1>. HIDE DEF a, body
<1>6. Len(b \o (c \o info)) \in {8, IFrameBytes - 9}
  <2>1. RsEncodedDataSize \in Nat /\ IFrameBytes = RsEncodedDataSize + 18
    BY SizesAssumption DEF IFrameBytes
  <2>. QED
    BY <1>4, <2>1
<1>7. Framed(body \o Fcs(body)) /\ Follows(body \o Fcs(body), b \o (c \o info))
  BY <1>4, <1>5, <1>6, BodyFramed, Zenon
<1>8. Carried(body \o Fcs(body), info)
  <2>. DEFINE bytes == body \o Fcs(body)    tail == c \o info    rest == b \o tail
  <2>1. Parts(tail, c, info)
    BY <1>2, TwoByteParts, Zenon
  <2>2. Parts(rest, b, tail)
    BY <1>1, <1>4, TwoByteParts, Zenon
  <2>3. Follows(bytes, rest)
    BY <1>7
  <2>. HIDE DEF bytes, tail, rest
  <2>4. ASSUME NEW i \in 1..RsEncodedDataSize PROVE bytes[16 + i] = info[i]
    <3>1. Len(info) = RsEncodedDataSize /\ RsEncodedDataSize \in Nat
      BY SizesAssumption
    <3>2. tail[2 + i] = info[i] /\ 2 + i \in 1..Len(tail)
      BY <1>2, <2>1, <3>1 DEF Parts
    <3>3. rest[7 + (2 + i)] = tail[2 + i] /\ 7 + (2 + i) \in 1..Len(rest)
      BY <1>1, <2>2, <3>2 DEF Parts
    <3>4. bytes[7 + (7 + (2 + i))] = rest[7 + (2 + i)]
      BY <2>3, <3>3, Zenon DEF Follows
    <3>5. 7 + (7 + (2 + i)) = 16 + i
      BY <3>1
    <3>. QED
      BY <3>2, <3>3, <3>4, <3>5, Zenon
  <2>. QED
    BY <2>4, Zenon DEF Carried, bytes
<1>9. Coded(body \o Fcs(body))
  BY <1>8, Zenon DEF Coded
<1>. QED
  BY <1>3, <1>7, <1>9, Zenon DEF Sendable

\* Every frame that is sent is one that Transmit may be given.
Sends(by, frame) == Transmit(by, frame) /\ Sendable(frame) /\ by \in {"c", "python"}

\* No action sends anything else.
LEMMA SendableFrames ==
  /\ \A call \in LinkCallsigns, cmd \in {Sabm, Disc, Ack}, poll \in {{}, Poll} :
       Ax25SendUFrame(call, cmd, poll) => \E by, frame : Sends(by, frame)
  /\ \A c \in GroundCommands :
       EncodeFrame(c.cmd, c.poll) => \E by, frame : Sends(by, frame)
  /\ \A call \in LinkCallsigns, control \in LinkControls, info \in Codewords :
       Ax25SendIFrame(call, control, info) => \E by, frame : Sends(by, frame)
  /\ \A info \in Codewords : EncodeData(info) => \E by, frame : Sends(by, frame)
<1>1. ASSUME NEW info \in Codewords
      PROVE  info \in Seq(Byte) /\ Len(info) = RsEncodedDataSize
  BY PipelineAssumption DEF Byte
<1>2. Pid \in Byte /\ {} \in Byte
  BY DEF Pid, Byte
<1>3. ASSUME NEW call \in LinkCallsigns, NEW cmd \in {Sabm, Disc, Ack}, NEW poll \in {{}, Poll},
             Ax25SendUFrame(call, cmd, poll)
      PROVE  \E by, frame : Sends(by, frame)
  <2>1. cmd \cup poll \in Byte
    BY DEF Sabm, Disc, Ack, Poll, Byte
  <2>2. call \in {Akito, Atlas}
    BY CallsignAssumption
  <2>3. Sendable(UFrame(call, Atlas, cmd \cup poll))
    BY <2>1, <2>2, UFrameSendable, Zenon
  <2>. QED
    BY <1>3, <2>3, Zenon DEF Ax25SendUFrame, Sends
<1>4. ASSUME NEW c \in GroundCommands, EncodeFrame(c.cmd, c.poll)
      PROVE  \E by, frame : Sends(by, frame)
  <2>1. c.cmd \cup c.poll \in Byte
    BY PipelineAssumption DEF Byte
  <2>2. Sendable(UFrame(Akito, Atlas, c.cmd \cup c.poll))
    BY <2>1, UFrameSendable, Zenon
  <2>. QED
    BY <1>4, <2>2, Zenon DEF EncodeFrame, Sends
<1>5. ASSUME NEW call \in LinkCallsigns, NEW control \in LinkControls, NEW info \in Codewords,
             Ax25SendIFrame(call, control, info)
      PROVE  \E by, frame : Sends(by, frame)
  <2>1. control \in Byte
    BY PipelineAssumption DEF Byte
  <2>2. call \in {Akito, Atlas}
    BY CallsignAssumption
  <2>3. Sendable(IFrame(call, Atlas, control, Pid, info))
    BY <1>1, <1>2, <2>1, <2>2, IFrameSendable, Zenon
  <2>. QED
    BY <1>5, <2>3, Zenon DEF Ax25SendIFrame, Sends
<1>6. ASSUME NEW info \in Codewords, EncodeData(info)
      PROVE  \E by, frame : Sends(by, frame)
  <2>1. Sendable(IFrame(Akito, Atlas, {}, {}, info))
    BY <1>1, <1>2, IFrameSendable, Zenon
  <2>. QED
    BY <1>6, <2>1, Zenon DEF EncodeData, Sends
<1>. QED
  BY <1>3, <1>4, <1>5, <1>6, Zenon

-----------------------------------------------------------------------------
(* How long a stuffed frame is: five ones in a row earn a stuffed bit, and the *)
(* first six bytes each start a new run *)

Slack(written, ones, k) ==
  IF k <= 48 THEN 5 * (written - k - k \div 8) + ones <= k % 8
             ELSE 5 * (written - k) + ones <= k - 18

\* One bit more.
LEMMA SlackStep ==
  ASSUME NEW k \in Nat \ {0}, NEW w \in Nat, NEW ones \in 0..4, NEW bit \in Bit,
         Slack(w, ones, k - 1), k <= 48 /\ k % 8 = 0 => bit = 0,
         NEW x \in Nat, x = IF Fifth(bit, ones) THEN w + 2 ELSE w + 1
  PROVE  Slack(x, NextCount(bit, ones), k)
<1>. DEFINE next == NextCount(bit, ones)
<1>1. \/ bit = 1 /\ ones = 4 /\ next = 0 /\ x = w + 2
      \/ bit = 1 /\ ones < 4 /\ next = ones + 1 /\ x = w + 1
      \/ bit = 0 /\ next = 0 /\ x = w + 1
  BY DEF NextCount, Fifth, Bit
<1>. HIDE DEF next
<1>2. CASE k > 48
  <2>1. 5 * (w - (k - 1)) + ones <= (k - 1) - 18
    <3>1. CASE k = 49
      <4>1. 5 * (w - 48 - 48 \div 8) + ones <= 48 % 8
        BY <3>1 DEF Slack
      <4>. QED
        BY <3>1, <4>1
    <3>2. CASE k > 49
      BY <3>2 DEF Slack
    <3>. QED
      BY <1>2, <3>1, <3>2
  <2>2. 5 * (x - k) + next <= k - 18
    BY <1>1, <2>1
  <2>. QED
    BY <1>2, <2>2 DEF Slack, next
<1>3. CASE k <= 48
  <2>1. 5 * (w - (k - 1) - (k - 1) \div 8) + ones <= (k - 1) % 8
    BY <1>3 DEF Slack
  <2>2. CASE k % 8 = 0
    <3>1. (k - 1) % 8 = 7 /\ (k - 1) \div 8 = (k \div 8) - 1 /\ k \div 8 \in Nat
      BY <2>2
    <3>2. bit = 0
      BY <1>3, <2>2
    <3>3. next = 0 /\ x = w + 1
      BY <1>1, <3>2
    <3>4. ASSUME NEW q \in Nat, 5 * (w - (k - 1) - (q - 1)) + ones <= 7
          PROVE  5 * (w + 1 - k - q) <= 0
      BY <3>4
    <3>5. 5 * (x - k - k \div 8) + next <= k % 8
      BY <2>1, <2>2, <3>1, <3>3, <3>4
    <3>. QED
      BY <1>3, <3>5 DEF Slack, next
  <2>3. CASE k % 8 # 0
    <3>1. (k - 1) % 8 = (k % 8) - 1 /\ (k - 1) \div 8 = k \div 8
          /\ k \div 8 \in Nat /\ k % 8 \in Nat
      BY <2>3
    <3>2. ASSUME NEW q \in Nat, NEW c \in Nat, 5 * (w - (k - 1) - q) + ones <= c - 1
          PROVE  5 * (x - k - q) + next <= c
      BY <1>1, <3>2
    <3>3. 5 * (x - k - k \div 8) + next <= k % 8
      BY <2>1, <3>1, <3>2
    <3>. QED
      BY <1>3, <3>3 DEF Slack, next
  <2>. QED
    BY <2>2, <2>3
<1>. QED
  BY <1>2, <1>3

\* The lengths the code's frames have.
LEMMA FrameSize ==
  ASSUME NEW L \in {17, IFrameBytes}
  PROVE  L \in 17..IFrameBytes /\ L \in Nat /\ L > 0
<1>1. IFrameBytes \in Nat /\ IFrameBytes > 18
  BY SizesAssumption DEF IFrameBytes
<1>. QED
  BY <1>1

Sized(s, n) == s \in Seq(Bit) /\ 5 * (Len(s) - n) <= n - 18

\* A frame of n bits is at most (n - 18) / 5 bits longer after stuffing, whatever follows
\* its first address: the shifted callsign ends six runs of ones.
THEOREM StuffedSize ==
  ASSUME NEW bytes, Framed(bytes)
  PROVE  Sized(Stuffed(ToBits(bytes)), 8 * Len(bytes))
<1>. DEFINE n == 8 * Len(bytes)    bits == ToBits(bytes)
<1>1. /\ bytes \in Seq(Byte) /\ Len(bytes) \in Nat /\ Len(bytes) >= 17
      /\ \A i \in 1..6 : 0 \notin bytes[i]
  <2>1. /\ bytes \in Seq(Byte) /\ Len(bytes) \in {17, IFrameBytes}
        /\ \A i \in 1..6 : 0 \notin bytes[i]
    BY Zenon DEF Framed
  <2>2. Len(bytes) \in 17..IFrameBytes /\ Len(bytes) \in Nat /\ Len(bytes) > 0
    BY <2>1, FrameSize, Zenon
  <2>3. ASSUME NEW q, NEW L, L \in 17..q PROVE L >= 17
    BY <2>3
  <2>. QED
    BY <2>1, <2>2, <2>3, Zenon
<1>2. n \in Nat /\ n > 48 /\ bits \in Seq(Bit) /\ Len(bits) = n
  BY <1>1, ToBitsType
<1>3. ASSUME NEW k \in 1..48, k % 8 = 0 PROVE bits[k] = 0
  <2>1. 7 - ((k - 1) % 8) = 0 /\ (k + 7) \div 8 \in 1..6 /\ k \in 1..n
    BY <1>2, <1>3
  <2>2. bits[k] = IF 7 - ((k - 1) % 8) \in bytes[(k + 7) \div 8] THEN 1 ELSE 0
    BY <1>1, <2>1, ToBitsType
  <2>. HIDE DEF bits
  <2>3. 7 - ((k - 1) % 8) \notin bytes[(k + 7) \div 8]
    BY <1>1, <2>1
  <2>. QED
    BY <2>2, <2>3, Zenon
<1>. HIDE DEF n, bits
<1>4. PICK r : StuffRun(r, bits) /\ Stuffed(bits) = r[Len(bits)].out
  BY <1>2, StuffTable, LoopRuns DEF StuffRun, Stuffed
<1>. DEFINE T == {k \in 0..n : Slack(Written(r, k), r[k].state, k)}
<1>5. 0 \in T
  <2>1. Written(r, 0) = 0 /\ r[0].state = 0
    BY <1>2, <1>4, StuffRunTypes
  <2>2. Slack(0, 0, 0)
    BY DEF Slack
  <2>. QED
    BY <1>2, <2>1, <2>2
<1>6. ASSUME NEW k \in 1..n, k - 1 \in T PROVE k \in T
  <2>1. /\ r[k - 1].state \in 0..4 /\ bits[k] \in Bit
        /\ r[k].state = NextCount(bits[k], r[k - 1].state)
    BY <1>2, <1>4, StuffStepped
  <2>2. Slack(Written(r, k - 1), r[k - 1].state, k - 1)
    BY <1>6
  <2>3. k <= 48 /\ k % 8 = 0 => bits[k] = 0
    BY <1>3
  <2>4. k - 1 \in 0..Len(bits) /\ k \in 0..Len(bits) /\ k \in Nat \ {0}
    BY <1>2
  <2>5. Written(r, k - 1) \in Nat /\ Written(r, k) \in Nat
    BY <1>2, <1>4, <2>4, StuffRunTypes
  <2>6. Written(r, k) = IF Fifth(bits[k], r[k - 1].state) THEN Written(r, k - 1) + 2
                                                          ELSE Written(r, k - 1) + 1
    BY <1>2, <1>4, Placed
  <2>7. Slack(Written(r, k), NextCount(bits[k], r[k - 1].state), k)
    BY <2>1, <2>2, <2>3, <2>4, <2>5, <2>6, SlackStep, Zenon
  <2>8. Slack(Written(r, k), r[k].state, k)
    BY <2>1, <2>7, Zenon
  <2>. QED
    BY <1>2, <2>4, <2>8
<1>. HIDE DEF T
<1>7. n \in T
  <2>1. \A k \in 0..n : k \in T
    BY <1>2, <1>5, <1>6, UpTo
  <2>. QED
    BY <1>2, <2>1
<1>8. Slack(Written(r, n), r[n].state, n) /\ r[n].out \in Seq(Bit) /\ r[n].state \in 0..4
  <2>1. n \in 0..Len(bits)
    BY <1>2
  <2>. QED
    BY <1>2, <1>4, <1>7, <2>1, StuffRunTypes DEF T
<1>9. 5 * (Written(r, n) - n) <= n - 18
  <2>1. 5 * (Written(r, n) - n) + r[n].state <= n - 18
    BY <1>2, <1>8 DEF Slack
  <2>2. Written(r, n) \in Nat
    BY <1>8 DEF Written
  <2>. QED
    BY <1>2, <1>8, <2>1, <2>2
<1>. QED
  BY <1>2, <1>4, <1>8, <1>9 DEF Written, n, bits, Sized

\* What goes on the air fits the packet the library makes for it.
LEMMA WireFits ==
  ASSUME NEW L \in {17, IFrameBytes}, NEW m \in Nat, 5 * (m - 8 * L) <= 8 * L - 18,
         NEW k \in Nat, 8 * k <= m + 7
  PROVE  k + 2 <= IF 8 * L = 8 * IFrameBytes THEN ((IFrameBytes + 2) * 6) \div 5 ELSE 37
<1>1. IFrameBytes \in Nat /\ IFrameBytes > 18
  BY SizesAssumption DEF IFrameBytes
<1>2. CASE L = 17
  <2>1. k + 2 <= 37 /\ 8 * L # 8 * IFrameBytes
    BY <1>1, <1>2
  <2>. QED
    BY <2>1
<1>3. CASE L = IFrameBytes
  <2>1. ASSUME NEW q \in Nat, 5 * (m - 8 * q) <= 8 * q - 18
        PROVE  k + 2 <= ((q + 2) * 6) \div 5
    <3>1. 5 * (k + 2) <= (q + 2) * 6
      BY <2>1
    <3>. QED
      BY <3>1
  <2>2. k + 2 <= ((IFrameBytes + 2) * 6) \div 5
    BY <1>1, <1>3, <2>1
  <2>. QED
    BY <2>2, <1>3
<1>. QED
  BY <1>2, <1>3

\* air is what is sent of the frame without damage
Clean(air, frame) ==
  \E by \in {"c", "python"}, k \in 0..(Len(Stuffed(frame)) \div 8 + 1) :
    WireBytes(by, Stuffed(frame), k) /\ air = Bytes(Stuffed(frame), k)

\* ... and what is said of its length alone
Airborne(air, n) ==
  /\ air \in Seq(Bit) /\ Len(air) % 8 = 0
  /\ Len(air) \div 8 + 2 <= IF n = 8 * IFrameBytes THEN ((IFrameBytes + 2) * 6) \div 5 ELSE 37

\* So an undamaged frame fits its packet.
LEMMA CleanFits ==
  ASSUME NEW bytes, Framed(bytes), NEW air, Clean(air, ToBits(bytes))
  PROVE  Airborne(air, 8 * Len(bytes))
<1>. DEFINE s == Stuffed(ToBits(bytes))    L == Len(bytes)
<1>1. L \in {17, IFrameBytes}
  BY Zenon DEF Framed
<1>2. s \in Seq(Bit) /\ 5 * (Len(s) - 8 * L) <= 8 * L - 18 /\ Len(s) \in Nat
  BY StuffedSize DEF Sized
<1>. HIDE DEF s
<1>3. PICK by \in {"c", "python"}, k \in 0..(Len(s) \div 8 + 1) :
        WireBytes(by, s, k) /\ air = Bytes(s, k)
  BY Zenon DEF Clean, s
<1>4. air \in Seq(Bit) /\ Len(air) = 8 * k
  BY <1>2, <1>3, WireCarries, Zenon
<1>5. 8 * k <= Len(s) + 7 /\ k \in Nat
  BY <1>2, <1>3, WireLength
<1>6. k + 2 <= IF 8 * L = 8 * IFrameBytes THEN ((IFrameBytes + 2) * 6) \div 5 ELSE 37
  <2>. HIDE DEF L
  <2>. QED
    BY <1>1, <1>2, <1>5, WireFits
<1>7. Len(air) % 8 = 0 /\ Len(air) \div 8 = k
  BY <1>4, <1>5
<1>. QED
  BY <1>4, <1>6, <1>7, Zenon DEF Airborne

\* ax25Recv takes the frame for what it is.
LEMMA LibraryTakes ==
  ASSUME NEW bytes, Framed(bytes), Last(bytes) # {},
         NEW air, air # <<>>, Clean(air, ToBits(bytes))
  PROVE  /\ Bytes(Unstuffed(air), CDelivered(Unstuffed(air))) = ToBits(bytes)
         /\ LibraryAccepts(ToBytes(ToBits(bytes)))
<1>. DEFINE frame == ToBits(bytes)    s == Stuffed(frame)
<1>1. /\ bytes \in Seq(Byte) /\ Len(bytes) \in {17, IFrameBytes}
      /\ SubSeq(bytes, 1, 7) \in {AddressBytes(Akito, {}), AddressBytes(Atlas, {})}
      /\ FcsMatches(bytes)
  BY Zenon DEF Framed
<1>3. Len(bytes) \in 17..IFrameBytes /\ Len(bytes) \in Nat /\ Len(bytes) > 0
  BY <1>1, FrameSize, Zenon
<1>4. frame \in Seq(Bit) /\ Len(frame) = 8 * Len(bytes)
  BY <1>1, ToBitsType
<1>5. ToBytes(frame) = bytes
  BY <1>1, BytesBack
<1>6. ~ZeroByte(frame, Len(bytes))
  BY <1>1, <1>3, LastByte
<1>7. s \in Seq(Bit)
  BY StuffedSize DEF Sized
<1>8. Bytes(Unstuffed(air), CDelivered(Unstuffed(air))) = frame
  <2>1. PICK by \in {"c", "python"}, k \in 0..(Len(s) \div 8 + 1) :
          WireBytes(by, s, k) /\ air = Bytes(s, k)
    BY Zenon DEF Clean
  <2>. HIDE DEF frame, s
  <2>2. air \in Seq(Bit) /\ Carries(air, s) /\ CutOff(air, s)
    BY <1>7, <2>1, WireCarries, Zenon
  <2>3. Len(air) > 0 /\ Len(frame) > 0
    BY <1>3, <1>4, <2>2
  <2>4. Restores(Unstuffed(air), frame)
    BY <1>4, <2>2, <2>3, StuffedRestores, Zenon DEF s
  <2>. QED
    BY <1>3, <1>4, <1>6, <2>4, DeliveredIsFrame, Zenon
<1>9. LibraryAccepts(bytes)
  BY <1>1, <1>3, Zenon DEF LibraryAccepts
<1>. QED
  BY <1>5, <1>8, <1>9, Zenon

\* Nothing goes on the air only of a frame of zeros.
LEMMA SomethingSent ==
  ASSUME NEW bytes, Framed(bytes), Last(bytes) # {}, Clean(<<>>, ToBits(bytes))
  PROVE  FALSE
<1>. DEFINE frame == ToBits(bytes)    s == Stuffed(frame)
<1>1. bytes \in Seq(Byte) /\ Len(bytes) \in {17, IFrameBytes}
  BY Zenon DEF Framed
<1>2. Len(bytes) > 0 /\ Len(bytes) \in Nat
  BY <1>1, FrameSize, Zenon
<1>3. frame \in Seq(Bit) /\ Len(frame) = 8 * Len(bytes)
  BY <1>1, ToBitsType
<1>4. ~ZeroByte(frame, Len(bytes))
  BY <1>1, <1>2, LastByte
<1>5. s \in Seq(Bit)
  BY StuffedSize DEF Sized
<1>6. PICK by \in {"c", "python"}, k \in 0..(Len(s) \div 8 + 1) :
        WireBytes(by, s, k) /\ <<>> = Bytes(s, k)
  BY Zenon DEF Clean
<1>. HIDE DEF frame, s
<1>7. CutOff(<<>>, s)
  BY <1>5, <1>6, WireCarries, Zenon
<1>8. PICK r : StuffRun(r, frame) /\ Stuffed(frame) = r[Len(frame)].out
  <2>1. Len(frame) > 0 /\ 0 \in DOMAIN StuffStep
    BY <1>2, <1>3, StuffTable
  <2>. QED
    BY <1>3, <2>1, StuffTable, LoopRuns DEF StuffRun, Stuffed
<1>9. ASSUME NEW i \in 1..Len(frame) PROVE frame[i] = 0
  <2>1. /\ 0 \in 0..Len(frame) /\ i > 0 /\ <<>> \in Seq(Bit) /\ 0 \in {0, 1}
    BY <1>3
  <2>2. Written(r, 0) = 0
    BY <1>3, <1>8, StuffRunTypes
  <2>4. Len(<<>>) = Written(r, 0) - 0
    BY <2>2
  <2>3. CutOff(<<>>, r[Len(frame)].out)
    BY <1>7, <1>8 DEF s
  <2>. QED
    BY <1>3, <1>8, <2>1, <2>3, <2>4, UnseenZeros, Zenon
<1>10. ZeroByte(frame, Len(bytes))
  BY <1>2, <1>3, <1>9 DEF ZeroByte
<1>. QED
  BY <1>4, <1>10

-----------------------------------------------------------------------------
(* What Reed-Solomon puts right *)

\* The sizes of an I frame.
LEMMA Sizes ==
  /\ RsEncodedDataSize \in Nat /\ RsDecodedDataSize \in Nat /\ RsDecodedDataSize < RsEncodedDataSize
  /\ NonInfoBytes = 18 /\ IFrameBytes = RsEncodedDataSize + 18
  /\ InfoStart = 17 /\ InfoEnd = 16 + RsEncodedDataSize /\ MaxErrors \in Nat
<1>1. /\ RsEncodedDataSize \in Nat /\ RsDecodedDataSize \in Nat
      /\ RsDecodedDataSize < RsEncodedDataSize /\ NonInfoBytes = 18
  BY SizesAssumption, PipelineAssumption
<1>. QED
  BY <1>1 DEF IFrameBytes, InfoStart, InfoEnd, MaxErrors

\* What comes out of unstuffing is no longer than what went in.
LEMMA UnstuffedShorter ==
  ASSUME NEW air \in Seq(Bit), air # <<>>
  PROVE  Unstuffed(air) \in Seq(Bit) /\ Len(Unstuffed(air)) <= Len(air)
<1>1. Len(air) \in Nat /\ Len(air) > 0 /\ Fresh \in Counts
  BY DEF Fresh, Counts
<1>2. PICK u : UnstuffRun(u, air) /\ Unstuffed(air) = u[Len(air)].out
  BY <1>1, UnstuffTable, LoopRuns, Zenon DEF UnstuffRun, Unstuffed, Fresh
<1>. DEFINE n == Len(air)    T == {p \in 0..n : Len(u[p].out) <= p}
<1>3. \A p \in 0..n : u[p].out \in Seq(Bit)
  BY <1>2, UnstuffRunTypes, Zenon
<1>4. 0 \in T
  <2>1. u[0].out = <<>>
    BY <1>2, UnstuffRunTypes, Zenon
  <2>. QED
    BY <1>1, <2>1
<1>5. ASSUME NEW p \in 1..n, p - 1 \in T PROVE p \in T
  <2>. DEFINE v == u[p - 1].out    w == u[p].out
  <2>1. p \in 0..n /\ p - 1 \in 0..n
    OBVIOUS
  <2>2. v \in Seq(Bit) /\ air[p] \in Bit /\ (w = v \/ w = v \o <<air[p]>>)
    BY <1>2, UnstuffStepped, Zenon
  <2>3. Len(v) <= p - 1
    BY <1>5
  <2>. HIDE DEF v, w
  <2>4. Len(w) <= p
    BY <2>2, <2>3
  <2>. QED
    BY <2>1, <2>4 DEF w
<1>. HIDE DEF T
<1>6. n \in T
  <2>1. \A p \in 0..n : p \in T
    BY <1>1, <1>4, <1>5, UpTo, Zenon
  <2>. QED
    BY <1>1, <2>1
<1>7. n \in 0..n
  BY <1>1
<1>. QED
  BY <1>2, <1>3, <1>6, <1>7, Zenon DEF T

\* the bytes of the frame that come out of unstuffing other than they were sent
Wrong(kept, frame) ==
  {b \in 1..IFrameBytes :
     \E i \in (8 * b - 7)..(8 * b) : i > Len(kept) \/ kept[i] # frame[i]}

\* no bit is missing, and nothing but zeros is behind them, less than a byte
Complete(kept) ==
  /\ kept \in Seq(Bit) /\ Len(kept) \div 8 = IFrameBytes
  /\ \A i \in (8 * IFrameBytes + 1)..Len(kept) : kept[i] = 0

\* The ground station takes all of it but the padding.
LEMMA PythonCount ==
  ASSUME NEW kept, Complete(kept)
  PROVE  PythonDelivered(kept) = IFrameBytes
<1>. DEFINE padded == Len(kept) \div 8 + 1
<1>1. IFrameBytes \in Nat /\ IFrameBytes = RsEncodedDataSize + NonInfoBytes
  BY Sizes
<1>2. padded = IFrameBytes + 1 /\ Len(kept) \in Nat
  BY DEF Complete
<1>3. ZeroByte(kept, IFrameBytes + 1)
  <2>1. ASSUME NEW i \in (8 * (IFrameBytes + 1) - 7)..(8 * (IFrameBytes + 1)), i <= Len(kept)
        PROVE  kept[i] = 0
    <3>1. i \in (8 * IFrameBytes + 1)..Len(kept)
      BY <1>1, <1>2, <2>1
    <3>. QED
      BY <3>1, Zenon DEF Complete
  <2>2. IFrameBytes + 1 > 0
    BY <1>1
  <2>. QED
    BY <2>1, <2>2, Zenon DEF ZeroByte
<1>4. padded > RsEncodedDataSize + NonInfoBytes /\ padded - 1 = IFrameBytes
  BY <1>1, <1>2
<1>5. ZeroByte(kept, padded)
  BY <1>2, <1>3, Zenon
<1>. HIDE DEF padded
<1>. QED
  BY <1>4, <1>5, Zenon DEF PythonDelivered, padded

\* packet is the frame of bytes, but for those in wrong
AsSent(packet, bytes, wrong) ==
  /\ packet \in Seq(Byte) /\ Len(packet) = IFrameBytes
  /\ \A b \in 1..IFrameBytes : b \notin wrong => packet[b] = bytes[b]

\* kept brings byte b of the frame as it was sent
Brings(kept, frame, b) ==
  \A i \in (8 * b - 7)..(8 * b) : i <= Len(kept) /\ kept[i] = frame[i]

\* The packet in bytes: those that kept brings are those of the frame.
LEMMA PacketBytes ==
  ASSUME NEW bytes \in Seq(Byte), NEW kept \in Seq(Bit), NEW n, n = Len(bytes),
         NEW packet, packet = ToBytes(Bytes(kept, n))
  PROVE  /\ packet \in Seq(Byte) /\ Len(packet) = n
         /\ \A b \in 1..n : Brings(kept, ToBits(bytes), b) => packet[b] = bytes[b]
<1>. DEFINE buffer == Bytes(kept, n)    frame == ToBits(bytes)
<1>1. n \in Nat
  OBVIOUS
<1>3. /\ Len(buffer) = 8 * n
      /\ \A i \in 1..(8 * n) : buffer[i] = IF i <= Len(kept) THEN kept[i] ELSE 0
  BY <1>1, BytesType, Zenon
<1>4. packet = [b \in 1..n |-> ToByte(buffer, b)]
  <2>1. Len(buffer) \div 8 = n
    BY <1>1, <1>3
  <2>. QED
    BY <2>1, Zenon DEF ToBytes
<1>5. ASSUME NEW b PROVE ToByte(buffer, b) \in Byte
  BY DEF ToByte, Byte
<1>. HIDE DEF buffer
<1>6. packet \in Seq(Byte) /\ Len(packet) = n
  BY <1>1, <1>4, <1>5
<1>7. ASSUME NEW b \in 1..n, Brings(kept, frame, b) PROVE packet[b] = bytes[b]
  <2>1. ASSUME NEW i \in 0..7 PROVE buffer[8 * b - i] = frame[8 * b - i]
    <3>1. 8 * b - i \in (8 * b - 7)..(8 * b) /\ 8 * b - i \in 1..(8 * n)
      BY <1>1
    <3>2. 8 * b - i <= Len(kept) /\ kept[8 * b - i] = frame[8 * b - i]
      BY <1>7, <3>1, Zenon DEF Brings
    <3>. QED
      BY <1>3, <3>1, <3>2, Zenon
  <2>2. ToByte(buffer, b) = ToByte(frame, b)
    <3>. HIDE DEF frame
    <3>. QED
      BY <2>1, Zenon DEF ToByte
  <2>3. ToByte(frame, b) = bytes[b]
    <3>1. ToBytes(frame) = bytes
      BY BytesBack
    <3>2. Len(frame) \div 8 = n
      <4>1. Len(frame) = 8 * n
        BY ToBitsType
      <4>. HIDE DEF frame
      <4>. QED
        BY <1>1, <4>1
    <3>3. ToBytes(frame) = [x \in 1..n |-> ToByte(frame, x)]
      BY <3>2, Zenon DEF ToBytes
    <3>. QED
      BY <3>1, <3>2, <3>3, Zenon
  <2>. QED
    BY <1>4, <2>2, <2>3, Zenon
<1>. QED
  BY <1>6, <1>7, Zenon

\* The packet of an I frame that is complete.
LEMMA PacketAsSent ==
  ASSUME NEW bytes \in Seq(Byte), Len(bytes) = IFrameBytes, NEW kept, Complete(kept)
  PROVE  AsSent(ToBytes(Bytes(kept, IFrameBytes)), bytes, Wrong(kept, ToBits(bytes)))
<1>. DEFINE n == IFrameBytes    packet == ToBytes(Bytes(kept, n))    frame == ToBits(bytes)
<1>1. kept \in Seq(Bit)
  BY DEF Complete
<1>2. /\ packet \in Seq(Byte) /\ Len(packet) = n
      /\ \A b \in 1..n : Brings(kept, frame, b) => packet[b] = bytes[b]
  <2>1. n = Len(bytes)
    OBVIOUS
  <2>. HIDE DEF n, frame
  <2>2. /\ packet \in Seq(Byte) /\ Len(packet) = n
        /\ \A b \in 1..n : Brings(kept, ToBits(bytes), b) => packet[b] = bytes[b]
    BY <1>1, <2>1, PacketBytes
  <2>. QED
    BY <2>2 DEF frame
<1>3. ASSUME NEW b \in 1..n, b \notin Wrong(kept, frame) PROVE Brings(kept, frame, b)
  <2>1. ASSUME NEW i \in (8 * b - 7)..(8 * b) PROVE ~(i > Len(kept)) /\ kept[i] = frame[i]
    BY <1>3, Zenon DEF Wrong
  <2>2. ASSUME NEW i \in (8 * b - 7)..(8 * b), ~(i > Len(kept)) PROVE i <= Len(kept)
    BY <1>1, <2>2, Sizes
  <2>. QED
    BY <2>1, <2>2, Zenon DEF Brings
<1>. QED
  BY <1>2, <1>3, Zenon DEF AsSent

\* flagged is the packet between two flags
Flagging(flagged, packet) ==
  /\ flagged \in Seq(Byte) /\ Len(flagged) = RsEncodedDataSize + 20
  /\ \A b \in 1..IFrameBytes : flagged[1 + b] = packet[b]

\* What decode_frame puts around the packet.
LEMMA BetweenFlags ==
  ASSUME NEW packet \in Seq(Byte), Len(packet) = IFrameBytes,
         NEW flagged, flagged = <<FlagByte>> \o packet \o <<FlagByte>>
  PROVE  Flagging(flagged, packet)
<1>. DEFINE f == <<FlagByte>>
<1>1. f \in Seq(Byte) /\ Len(f) = 1
  BY DEF FlagByte, Byte
<1>. HIDE DEF f
<1>2. flagged = Joined3(f, packet, f)
  BY Zenon DEF Joined3, f
<1>3. Holds3(Joined3(f, packet, f), f, packet, f, Byte)
  BY <1>1, ThreeParts, Zenon
<1>4. Holds3(flagged, f, packet, f, Byte)
  BY <1>2, <1>3, Zenon
<1>5. /\ flagged \in Seq(Byte) /\ Len(flagged) = 1 + IFrameBytes + 1
      /\ \A b \in 1..IFrameBytes : flagged[1 + b] = packet[b]
  BY <1>1, <1>4, Zenon DEF Holds3
<1>. QED
  BY <1>5, Sizes DEF Flagging

\* The information field of the packet.
LEMMA InfoOf ==
  ASSUME NEW packet, NEW flagged, Flagging(flagged, packet)
  PROVE  /\ Info(flagged) \in Seq(Byte) /\ Len(Info(flagged)) = RsEncodedDataSize
         /\ \A i \in 1..RsEncodedDataSize : Info(flagged)[i] = packet[16 + i]
<1>. DEFINE k == RsEncodedDataSize
<1>1. k \in Nat /\ IFrameBytes = k + 18 /\ InfoStart = 17 /\ InfoEnd = 16 + k
  BY Sizes
<1>2. /\ flagged \in Seq(Byte) /\ Len(flagged) = k + 20
      /\ \A b \in 1..IFrameBytes : flagged[1 + b] = packet[b]
  BY Zenon DEF Flagging, k
<1>. HIDE DEF k
<1>3. Min({1 + InfoEnd, Len(flagged)}) = k + 17
  <2>1. 1 + InfoEnd = k + 17 /\ Len(flagged) = k + 20 /\ k + 17 <= k + 20 /\ k + 20 \in Nat
    BY <1>1, <1>2
  <2>. QED
    BY <1>1, <2>1 DEF Min
<1>4. Info(flagged) = SubSeq(flagged, 18, k + 17)
  <2>1. 1 + InfoStart = 18
    BY <1>1
  <2>. QED
    BY <1>3, <2>1, Zenon DEF Info
<1>5. 18 \in Nat \ {0} /\ 18 - 1 + k <= Len(flagged) /\ k + 17 = 18 - 1 + k
  BY <1>1, <1>2
<1>6. /\ Info(flagged) \in Seq(Byte) /\ Len(Info(flagged)) = k
      /\ \A i \in 1..k : Info(flagged)[i] = flagged[18 - 1 + i]
  <2>. DEFINE m == 18    n == k + 17
  <2>1. m \in Nat \ {0} /\ m - 1 + k <= Len(flagged) /\ n = m - 1 + k /\ k \in Nat
    BY <1>1, <1>5
  <2>. HIDE DEF m, n
  <2>2. /\ SubSeq(flagged, m, n) \in Seq(Byte) /\ Len(SubSeq(flagged, m, n)) = k
        /\ \A i \in 1..k : SubSeq(flagged, m, n)[i] = flagged[m - 1 + i]
    <3>1. flagged \in Seq(Byte)
      BY <1>2
    <3>. QED
      BY <2>1, <3>1, Stretch, SMT
  <2>. QED
    BY <1>4, <2>2, Zenon DEF m, n
<1>7. ASSUME NEW i \in 1..k PROVE Info(flagged)[i] = packet[16 + i]
  <2>1. 18 - 1 + i = 1 + (16 + i) /\ 16 + i \in 1..IFrameBytes
    BY <1>1
  <2>. QED
    BY <1>2, <1>6, <2>1, Zenon
<1>. QED
  BY <1>6, <1>7, Zenon DEF k

\* where two blocks differ
Differs(a, b) == {i \in 1..RsEncodedDataSize : a[i] # b[i]}

\* Blocks that differ from a third one in few places differ from each other in few.
LEMMA Triangle ==
  ASSUME NEW a, NEW b, NEW c
  PROVE  /\ IsFiniteSet(Differs(a, b)) /\ Cardinality(Differs(a, b)) \in Nat
         /\ Cardinality(Differs(a, b)) <= Cardinality(Differs(a, c)) + Cardinality(Differs(b, c))
<1>1. RsEncodedDataSize \in Nat
  BY Sizes
<1>2. ASSUME NEW x, NEW y
      PROVE  IsFiniteSet(Differs(x, y)) /\ Cardinality(Differs(x, y)) \in Nat
  <2>1. IsFiniteSet(1..RsEncodedDataSize)
    BY <1>1, FS_Interval
  <2>2. Differs(x, y) \subseteq 1..RsEncodedDataSize
    BY DEF Differs
  <2>3. IsFiniteSet(Differs(x, y))
    BY <2>1, <2>2, FS_Subset, Zenon
  <2>. QED
    BY <2>3, FS_CardinalityType
<1>. DEFINE D == Differs(a, c)    E == Differs(b, c)
<1>3. Differs(a, b) \subseteq D \cup E
  BY DEF Differs
<1>4. IsFiniteSet(D) /\ IsFiniteSet(E)
  BY <1>2
<1>. HIDE DEF D, E
<1>5. /\ IsFiniteSet(D \cup E)
      /\ Cardinality(D \cup E) = Cardinality(D) + Cardinality(E) - Cardinality(D \cap E)
  BY <1>4, FS_Union, Zenon
<1>6. Cardinality(Differs(a, b)) <= Cardinality(D \cup E)
  BY <1>3, <1>5, FS_Subset, Zenon
<1>7. Cardinality(D \cap E) \in Nat
  <2>1. D \cap E \subseteq D
    OBVIOUS
  <2>2. IsFiniteSet(D \cap E)
    BY <1>4, <2>1, FS_Subset, Zenon
  <2>. QED
    BY <2>2, FS_CardinalityType
<1>8. Cardinality(D) \in Nat /\ Cardinality(E) \in Nat /\ Cardinality(Differs(a, b)) \in Nat
  BY <1>2 DEF D, E
<1>9. Cardinality(Differs(a, b)) <= Cardinality(D) + Cardinality(E)
  BY <1>5, <1>6, <1>7, <1>8
<1>. QED
  BY <1>2, <1>9, Zenon DEF D, E

\* The information differs from the codeword in no more bytes than are wrong.
LEMMA FewWrong ==
  ASSUME NEW word, NEW block, NEW wrong, wrong \subseteq 1..IFrameBytes,
         \A i \in 1..RsEncodedDataSize : 16 + i \notin wrong => block[i] = word[i]
  PROVE  /\ Cardinality(Differs(word, block)) <= Cardinality(wrong)
         /\ Cardinality(wrong) \in Nat
<1>. DEFINE S == Differs(word, block)    f == [i \in S |-> 16 + i]
<1>1. IFrameBytes \in Nat /\ RsEncodedDataSize \in Nat
  BY Sizes
<1>2. IsFiniteSet(wrong)
  <2>1. IsFiniteSet(1..IFrameBytes)
    BY <1>1, FS_Interval
  <2>. QED
    BY <2>1, FS_Subset, Zenon
<1>3. S \subseteq 1..RsEncodedDataSize /\ \A i \in S : 16 + i \in wrong
  BY DEF Differs
<1>. HIDE DEF S
<1>4. f \in [S -> wrong] /\ \A i, j \in S : f[i] = f[j] => i = j
  BY <1>1, <1>3
<1>. HIDE DEF f
<1>5. f \in Injection(S, wrong)
  BY <1>4, Zenon DEF Injection, IsInjective
<1>6. IsFiniteSet(S) /\ Cardinality(S) <= Cardinality(wrong)
  BY <1>2, <1>5, FS_Injection, Zenon
<1>. QED
  BY <1>2, <1>6, FS_CardinalityType, Zenon DEF S

\* Unlike is Differs on blocks of the encoded size.
LEMMA UnlikeDiffers ==
  ASSUME NEW w \in Codewords, NEW b
  PROVE  Unlike(w, b) = Differs(w, b)
<1>1. w \in Seq(SUBSET (0..7)) /\ Len(w) = RsEncodedDataSize
  BY PipelineAssumption
<1>2. DOMAIN w = 1..RsEncodedDataSize
  BY <1>1
<1>. QED
  BY <1>2, Zenon DEF Unlike, Differs

\* rsDecode makes of information with few wrong bytes the data that was sent, alone.
LEMMA CorrectedIsSent ==
  ASSUME NEW word \in Codewords, NEW info, Len(info) = RsEncodedDataSize,
         NEW wrong, wrong \subseteq 1..IFrameBytes, Cardinality(wrong) <= MaxErrors,
         \A i \in 1..RsEncodedDataSize : 16 + i \notin wrong => info[i] = word[i]
  PROVE  Corrected(info) = {SubSeq(word, 1, RsDecodedDataSize)}
<1>. DEFINE n == RsEncodedDataSize
            block == [i \in 1..n |-> IF i <= Len(info) THEN info[i] ELSE {}]
            Near == {w \in Codewords : Cardinality(Unlike(w, block)) <= MaxErrors}
<1>1. n \in Nat /\ MaxErrors \in Nat
  BY Sizes
<1>2. ASSUME NEW i \in 1..n PROVE block[i] = info[i]
  <2>1. i <= Len(info)
    BY <1>1
  <2>. QED
    BY <2>1
<1>3. Corrected(info) = {SubSeq(w, 1, RsDecodedDataSize) : w \in Near}
  BY DEF Corrected
<1>. HIDE DEF block
<1>4. \A i \in 1..RsEncodedDataSize : 16 + i \notin wrong => block[i] = word[i]
  BY <1>2, Zenon DEF n
<1>5. Cardinality(Differs(word, block)) <= MaxErrors
  <2>1. /\ Cardinality(Differs(word, block)) <= Cardinality(wrong)
        /\ Cardinality(wrong) \in Nat
    BY <1>4, FewWrong, Zenon
  <2>2. Cardinality(Differs(word, block)) \in Nat
    BY Triangle, Zenon
  <2>. QED
    BY <1>1, <2>1, <2>2
<1>6. word \in Near
  BY <1>5, UnlikeDiffers, Zenon
<1>7. ASSUME NEW w \in Near PROVE w = word
  <2>. SUFFICES ASSUME w # word PROVE FALSE
    OBVIOUS
  <2>1. w \in Codewords /\ Cardinality(Unlike(w, block)) <= MaxErrors
    OBVIOUS
  <2>. HIDE DEF Near
  <2>2. Cardinality(Unlike(word, w)) > 2 * MaxErrors
    BY <2>1, PipelineAssumption
  <2>3. Unlike(word, w) = Differs(word, w) /\ Unlike(w, block) = Differs(w, block)
    BY <2>1, UnlikeDiffers, Zenon
  <2>4. /\ Cardinality(Differs(word, w)) \in Nat
        /\ Cardinality(Differs(word, w))
             <= Cardinality(Differs(word, block)) + Cardinality(Differs(w, block))
        /\ Cardinality(Differs(word, block)) \in Nat /\ Cardinality(Differs(w, block)) \in Nat
    BY Triangle, Zenon
  <2>5. /\ Cardinality(Differs(word, w)) > 2 * MaxErrors
        /\ Cardinality(Differs(w, block)) <= MaxErrors
    BY <2>1, <2>2, <2>3
  <2>. QED
    BY <1>1, <1>5, <2>4, <2>5
<1>. HIDE DEF Near
<1>8. Near = {word}
  BY <1>6, <1>7, Zenon
<1>. QED
  BY <1>3, <1>8

\* the four stretches decode_frame puts the frame together from
Pieces(whole, head, data, parity, tail) ==
  /\ whole \in Seq(Byte) /\ Len(head) = 17 /\ Len(data) = RsDecodedDataSize
  /\ Len(parity) = RsEncodedDataSize - RsDecodedDataSize /\ Len(tail) = 3
  /\ Len(whole) = RsEncodedDataSize + 20
  /\ \A i \in 1..17 : whole[i] = head[i]
  /\ \A i \in 1..RsDecodedDataSize : whole[17 + i] = data[i]
  /\ \A i \in 1..(RsEncodedDataSize - RsDecodedDataSize) :
       whole[17 + RsDecodedDataSize + i] = parity[i]
  /\ \A i \in 1..3 : whole[17 + RsEncodedDataSize + i] = tail[i]

\* Four sequences of those lengths, end to end.
LEMMA FourPieces ==
  ASSUME NEW head \in Seq(Byte), NEW data \in Seq(Byte), NEW parity \in Seq(Byte),
         NEW tail \in Seq(Byte), Len(head) = 17, Len(data) = RsDecodedDataSize,
         Len(parity) = RsEncodedDataSize - RsDecodedDataSize, Len(tail) = 3,
         NEW whole, whole = head \o data \o parity \o tail
  PROVE  Pieces(whole, head, data, parity, tail)
<1>. DEFINE x == head \o data    y == x \o parity
            d == RsDecodedDataSize    e == RsEncodedDataSize
<1>0. d \in Nat /\ e \in Nat /\ d < e
  BY Sizes
<1>3. whole = y \o tail
  OBVIOUS
<1>1. Parts(x, head, data)
  <2>1. x = head \o data
    OBVIOUS
  <2>. HIDE DEF x
  <2>. QED
    BY <2>1, TwoByteParts, Zenon
<1>2. x \in Seq(Byte)
  BY <1>1, Zenon DEF Parts
<1>. HIDE DEF x
<1>4. Parts(y, x, parity)
  BY <1>2, TwoByteParts, Zenon
<1>5. y \in Seq(Byte)
  BY <1>4, Zenon DEF Parts
<1>. HIDE DEF y
<1>6. Parts(whole, y, tail)
  BY <1>3, <1>5, TwoByteParts, Zenon
<1>. HIDE DEF d, e
<1>7. Len(head) = 17 /\ Len(data) = d /\ Len(parity) = e - d /\ Len(tail) = 3
  BY DEF d, e
<1>8. Len(x) = 17 + d /\ Len(y) = 17 + e /\ Len(whole) = e + 20 /\ whole \in Seq(Byte)
  <2>1. Len(x) = 17 + d
    BY <1>1, <1>7, Zenon DEF Parts
  <2>2. Len(y) = (17 + d) + (e - d)
    BY <1>4, <1>7, <2>1, Zenon DEF Parts
  <2>3. Len(whole) = Len(y) + 3 /\ whole \in Seq(Byte)
    BY <1>6, <1>7, Zenon DEF Parts
  <2>. QED
    BY <1>0, <2>1, <2>2, <2>3
<1>9. ASSUME NEW i \in 1..(17 + e) PROVE whole[i] = y[i]
  BY <1>6, <1>8, Zenon DEF Parts
<1>10. ASSUME NEW i \in 1..(17 + d) PROVE whole[i] = x[i]
  <2>1. i \in 1..(17 + e)
    BY <1>0
  <2>2. y[i] = x[i]
    BY <1>4, <1>8, Zenon DEF Parts
  <2>. QED
    BY <1>9, <2>1, <2>2, Zenon
<1>11. ASSUME NEW i \in 1..17 PROVE whole[i] = head[i]
  <2>1. i \in 1..(17 + d)
    BY <1>0
  <2>2. x[i] = head[i]
    BY <1>1, <1>7, Zenon DEF Parts
  <2>. QED
    BY <1>10, <2>1, <2>2, Zenon
<1>12. ASSUME NEW i \in 1..d PROVE whole[17 + i] = data[i]
  <2>1. 17 + i \in 1..(17 + d)
    BY <1>0
  <2>2. x[17 + i] = data[i]
    BY <1>1, <1>7, Zenon DEF Parts
  <2>. QED
    BY <1>10, <2>1, <2>2, Zenon
<1>13. ASSUME NEW i \in 1..(e - d) PROVE whole[17 + d + i] = parity[i]
  <2>1. 17 + d + i \in 1..(17 + e)
    BY <1>0
  <2>2. y[17 + d + i] = parity[i]
    BY <1>4, <1>7, <1>8, Zenon DEF Parts
  <2>. QED
    BY <1>9, <2>1, <2>2, Zenon
<1>14. ASSUME NEW i \in 1..3 PROVE whole[17 + e + i] = tail[i]
  BY <1>6, <1>7, <1>8, Zenon DEF Parts
<1>. QED
  BY <1>7, <1>8, <1>11, <1>12, <1>13, <1>14, Zenon DEF Pieces, d, e

\* where they come from: what is in the packet, but for the data
Cuts(packet, flagged, word, info, head, data, parity, tail) ==
  /\ \A i \in 1..RsEncodedDataSize : info[i] = packet[16 + i]
  /\ \A i \in 1..17 : head[i] = flagged[i]
  /\ \A i \in 1..RsDecodedDataSize : data[i] = word[i]
  /\ \A i \in 1..(RsEncodedDataSize - RsDecodedDataSize) :
       parity[i] = info[RsDecodedDataSize + i]
  /\ \A i \in 1..3 : tail[i] = flagged[17 + RsEncodedDataSize + i]

\* a packet damaged in its data alone, with the data put right
Mends(whole, bytes, word, packet, flagged, info, head, data, parity, tail) ==
  /\ Carried(bytes, word) /\ Flagging(flagged, packet)
  /\ \A b \in 1..IFrameBytes : b \notin 17..(16 + RsDecodedDataSize) => packet[b] = bytes[b]
  /\ Cuts(packet, flagged, word, info, head, data, parity, tail)
  /\ Pieces(whole, head, data, parity, tail)

\* ... is the frame.
LEMMA WholeIsFrame ==
  ASSUME NEW whole, NEW bytes, NEW word, NEW packet, NEW flagged, NEW info, NEW head,
         NEW data, NEW parity, NEW tail, NEW b \in 1..IFrameBytes,
         Mends(whole, bytes, word, packet, flagged, info, head, data, parity, tail)
  PROVE  whole[1 + b] = bytes[b]
<1>. DEFINE d == RsDecodedDataSize    e == RsEncodedDataSize
<1>0. d \in Nat /\ e \in Nat /\ d < e /\ IFrameBytes = e + 18
  BY Sizes
<1>. HIDE DEF d, e
<1>1. b \notin 17..(16 + d) => packet[b] = bytes[b]
  BY Zenon DEF Mends, d
<1>2. flagged[1 + b] = packet[b]
  BY Zenon DEF Mends, Flagging
<1>3. CASE b \in 1..16
  <2>1. 1 + b \in 1..17 /\ b \notin 17..(16 + d)
    BY <1>3
  <2>. DEFINE i == 1 + b
  <2>2. i \in 1..17
    BY <2>1
  <2>. HIDE DEF i
  <2>3. whole[i] = head[i]
    BY <2>2, Zenon DEF Mends, Pieces
  <2>4. head[i] = flagged[i]
    BY <2>2, Zenon DEF Mends, Cuts
  <2>. QED
    BY <1>1, <1>2, <2>1, <2>3, <2>4, Zenon DEF i
<1>4. CASE b \in 17..(16 + d)
  <2>. DEFINE i == b - 16
  <2>1. i \in 1..d /\ i \in 1..e /\ 17 + i = 1 + b /\ 16 + i = b
    BY <1>0, <1>4
  <2>. HIDE DEF i
  <2>2. whole[17 + i] = data[i] /\ data[i] = word[i]
    BY <2>1, Zenon DEF Mends, Pieces, Cuts, d
  <2>3. bytes[16 + i] = word[i]
    BY <2>1, Zenon DEF Mends, Carried, e
  <2>. QED
    BY <2>1, <2>2, <2>3, Zenon
<1>5. CASE b \in (17 + d)..(16 + e)
  <2>. DEFINE i == b - 16 - d
  <2>1. /\ i \in 1..(e - d) /\ d + i \in 1..e /\ 17 + d + i = 1 + b /\ 16 + (d + i) = b
        /\ b \notin 17..(16 + d)
    BY <1>0, <1>5
  <2>. HIDE DEF i
  <2>2. whole[17 + d + i] = parity[i]
    BY <2>1, Zenon DEF Mends, Pieces, d, e
  <2>3. parity[i] = info[d + i]
    BY <2>1, Zenon DEF Mends, Cuts, d, e
  <2>4. info[d + i] = packet[16 + (d + i)]
    BY <2>1, Zenon DEF Mends, Cuts, e
  <2>. QED
    BY <1>1, <2>1, <2>2, <2>3, <2>4, Zenon
<1>6. CASE b \in (17 + e)..(18 + e)
  <2>. DEFINE i == b - 16 - e
  <2>1. i \in 1..3 /\ 17 + e + i = 1 + b /\ b \notin 17..(16 + d)
    BY <1>0, <1>6
  <2>. HIDE DEF i
  <2>2. whole[17 + e + i] = tail[i] /\ tail[i] = flagged[17 + e + i]
    BY <2>1, Zenon DEF Mends, Pieces, Cuts, e
  <2>. QED
    BY <1>1, <1>2, <2>1, <2>2, Zenon
<1>7. \/ b \in 1..16 \/ b \in 17..(16 + d) \/ b \in (17 + d)..(16 + e)
      \/ b \in (17 + e)..(18 + e)
  BY <1>0
<1>. QED
  BY <1>3, <1>4, <1>5, <1>6, <1>7, Zenon

\* decode_frame puts the frame together again.
LEMMA SplicedIsSent ==
  ASSUME NEW bytes \in Seq(Byte), Len(bytes) = IFrameBytes,
         NEW word \in Codewords, Carried(bytes, word),
         NEW wrong, wrong \subseteq 17..(16 + RsDecodedDataSize),
         NEW packet, AsSent(packet, bytes, wrong), NEW flagged, Flagging(flagged, packet)
  PROVE  Spliced(flagged, SubSeq(word, 1, RsDecodedDataSize)) = bytes
<1>. DEFINE d == RsDecodedDataSize    e == RsEncodedDataSize
            info == Info(flagged)     data == SubSeq(word, 1, d)
            from == Len(info) - (e - d) + 1
            parity == SubSeq(info, from, Len(info))
            head == SubSeq(flagged, 1, InfoStart)
            tail == SubSeq(flagged, 2 + InfoEnd, Len(flagged))
            whole == head \o data \o parity \o tail
<1>0. /\ d \in Nat /\ e \in Nat /\ d < e /\ IFrameBytes = e + 18
      /\ InfoStart = 17 /\ InfoEnd = 16 + e
  BY Sizes
<1>1. flagged \in Seq(Byte) /\ Len(flagged) = e + 20
  BY Zenon DEF Flagging
<1>2. /\ info \in Seq(Byte) /\ Len(info) = e
      /\ \A i \in 1..e : info[i] = packet[16 + i]
  BY InfoOf, Zenon
<1>3. word \in Seq(Byte) /\ Len(word) = e
  BY PipelineAssumption DEF Byte
<1>4. Spliced(flagged, data) = SubSeq(whole, 2, Len(whole) - 1)
  BY Zenon DEF Spliced
<1>. HIDE DEF d, e, info
<1>5. data \in Seq(Byte) /\ Len(data) = d /\ \A i \in 1..d : data[i] = word[i]
  <2>1. 1 \in Nat \ {0} /\ 1 - 1 + d <= Len(word) /\ d = 1 - 1 + d
    BY <1>0, <1>3
  <2>2. /\ data \in Seq(Byte) /\ Len(data) = d
        /\ \A i \in 1..d : data[i] = word[1 - 1 + i]
    BY <1>0, <1>3, <2>1, Stretch, SMT
  <2>3. \A i \in 1..d : 1 - 1 + i = i
    BY <1>0
  <2>. QED
    BY <2>2, <2>3, Zenon
<1>6. parity \in Seq(Byte) /\ Len(parity) = e - d /\ \A i \in 1..(e - d) : parity[i] = info[d + i]
  <2>1. /\ from \in Nat \ {0} /\ from - 1 + (e - d) <= Len(info)
        /\ Len(info) = from - 1 + (e - d) /\ e - d \in Nat /\ from - 1 = d
    BY <1>0, <1>2
  <2>. HIDE DEF from
  <2>2. /\ parity \in Seq(Byte) /\ Len(parity) = e - d
        /\ \A i \in 1..(e - d) : parity[i] = info[from - 1 + i]
    <3>1. info \in Seq(Byte)
      BY <1>2
    <3>. QED
      BY <2>1, <3>1, Stretch, SMT
  <2>. QED
    BY <2>1, <2>2, Zenon
<1>7. head \in Seq(Byte) /\ Len(head) = 17 /\ \A i \in 1..17 : head[i] = flagged[i]
  <2>1. 1 \in Nat \ {0} /\ 1 - 1 + 17 <= Len(flagged) /\ InfoStart = 1 - 1 + 17 /\ 17 \in Nat
    BY <1>0, <1>1
  <2>2. /\ head \in Seq(Byte) /\ Len(head) = 17
        /\ \A i \in 1..17 : head[i] = flagged[1 - 1 + i]
    BY <1>1, <2>1, Stretch, SMT
  <2>3. \A i \in 1..17 : 1 - 1 + i = i
    OBVIOUS
  <2>. QED
    BY <2>2, <2>3, Zenon
<1>8. tail \in Seq(Byte) /\ Len(tail) = 3 /\ \A i \in 1..3 : tail[i] = flagged[17 + e + i]
  <2>. DEFINE m == 2 + InfoEnd    n == Len(flagged)
  <2>1. /\ m \in Nat \ {0} /\ m - 1 + 3 <= Len(flagged) /\ n = m - 1 + 3 /\ 3 \in Nat
        /\ m - 1 = 17 + e
    BY <1>0, <1>1
  <2>2. tail = SubSeq(flagged, m, n)
    OBVIOUS
  <2>. HIDE DEF m, n, tail
  <2>3. /\ tail \in Seq(Byte) /\ Len(tail) = 3
        /\ \A i \in 1..3 : tail[i] = flagged[m - 1 + i]
    BY <1>1, <2>1, <2>2, Stretch, SMT
  <2>. QED
    BY <2>1, <2>3, Zenon
<1>9. whole = head \o data \o parity \o tail
  OBVIOUS
<1>. HIDE DEF data, parity, head, tail, whole
<1>10. Pieces(whole, head, data, parity, tail)
  BY <1>5, <1>6, <1>7, <1>8, <1>9, FourPieces, Zenon DEF d, e
<1>11. ASSUME NEW b \in 1..IFrameBytes PROVE whole[1 + b] = bytes[b]
  <2>1. \A i \in 1..RsEncodedDataSize : info[i] = packet[16 + i]
    BY <1>2, Zenon DEF e
  <2>2. \A i \in 1..RsDecodedDataSize : data[i] = word[i]
    BY <1>5, Zenon DEF d
  <2>3. \A i \in 1..(RsEncodedDataSize - RsDecodedDataSize) :
          parity[i] = info[RsDecodedDataSize + i]
    BY <1>6, Zenon DEF d, e
  <2>4. \A i \in 1..3 : tail[i] = flagged[17 + RsEncodedDataSize + i]
    BY <1>8, Zenon DEF e
  <2>5. \A i \in 1..17 : head[i] = flagged[i]
    BY <1>7, Zenon
  <2>6. Cuts(packet, flagged, word, info, head, data, parity, tail)
    BY <2>1, <2>2, <2>3, <2>4, <2>5, Zenon DEF Cuts
  <2>7. ASSUME NEW x \in 1..IFrameBytes, x \notin 17..(16 + RsDecodedDataSize)
        PROVE  packet[x] = bytes[x]
    <3>1. x \notin wrong
      BY <2>7, Zenon
    <3>. QED
      BY <3>1, Zenon DEF AsSent
  <2>8. Mends(whole, bytes, word, packet, flagged, info, head, data, parity, tail)
    BY <1>10, <2>6, <2>7, Zenon DEF Mends
  <2>. QED
    BY <2>8, WholeIsFrame, Zenon
<1>12. whole \in Seq(Byte) /\ Len(whole) = e + 20
  BY <1>10, Zenon DEF Pieces, e
<1>13. SubSeq(whole, 2, Len(whole) - 1) = bytes
  <2>. DEFINE m == 2    n == Len(whole) - 1
  <2>1. /\ m \in Nat \ {0} /\ m - 1 + Len(bytes) <= Len(whole) /\ n = m - 1 + Len(bytes)
        /\ Len(bytes) > 0
    BY <1>0, <1>12
  <2>2. ASSUME NEW i \in 1..Len(bytes) PROVE bytes[i] = whole[m - 1 + i]
    <3>1. i \in 1..IFrameBytes /\ m - 1 + i = 1 + i
      OBVIOUS
    <3>. QED
      BY <1>11, <3>1, Zenon
  <2>. HIDE DEF m, n
  <2>3. SubSeq(whole, m, n) = bytes
    BY <1>12, <2>1, <2>2, Slice, Zenon
  <2>. QED
    BY <2>3, Zenon DEF m, n
<1>. QED
  BY <1>4, <1>13, Zenon DEF data, d

\* what decode_frame makes of a long frame, and what of that passes the FCS
LongPacket(air) == ToBytes(Bytes(Unstuffed(air), PythonDelivered(Unstuffed(air))))
Mended(flagged) ==
  {frame \in {Spliced(flagged, data) : data \in Corrected(Info(flagged))} : FcsMatches(frame)}

\* air brings the I frame of bytes whole, with no more than MaxErrors bytes of data wrong
Repairable(air, bytes) ==
  /\ Framed(bytes) /\ Coded(bytes) /\ Len(bytes) = IFrameBytes
  /\ air \in Seq(Bit) /\ air # <<>> /\ Complete(Unstuffed(air))
  /\ Wrong(Unstuffed(air), ToBits(bytes)) \subseteq 17..(16 + RsDecodedDataSize)
  /\ Cardinality(Wrong(Unstuffed(air), ToBits(bytes))) <= MaxErrors

\* Then the frame is all that decode_frame can make of it.
LEMMA MendedIsSent ==
  ASSUME NEW air, NEW bytes, Repairable(air, bytes),
         NEW flagged, flagged = <<FlagByte>> \o LongPacket(air) \o <<FlagByte>>
  PROVE  Mended(flagged) = {bytes}
<1>. DEFINE kept == Unstuffed(air)    packet == LongPacket(air)
            wrong == Wrong(kept, ToBits(bytes))
<1>1. /\ bytes \in Seq(Byte) /\ Len(bytes) = IFrameBytes /\ FcsMatches(bytes) /\ Complete(kept)
      /\ wrong \subseteq 17..(16 + RsDecodedDataSize) /\ Cardinality(wrong) <= MaxErrors
  BY Zenon DEF Repairable, Framed
<1>2. PICK word \in Codewords : Carried(bytes, word)
  BY Zenon DEF Repairable, Coded
<1>3. AsSent(packet, bytes, wrong)
  <2>1. packet = ToBytes(Bytes(kept, IFrameBytes))
    BY <1>1, PythonCount, Zenon DEF LongPacket
  <2>. HIDE DEF kept, packet
  <2>2. AsSent(ToBytes(Bytes(kept, IFrameBytes)), bytes, Wrong(kept, ToBits(bytes)))
    BY <1>1, PacketAsSent, Zenon
  <2>. QED
    BY <2>1, <2>2, Zenon
<1>4. flagged = <<FlagByte>> \o packet \o <<FlagByte>>
  OBVIOUS
<1>. HIDE DEF kept, packet, wrong
<1>5. Flagging(flagged, packet)
  <2>1. packet \in Seq(Byte) /\ Len(packet) = IFrameBytes
    BY <1>3, Zenon DEF AsSent
  <2>. QED
    BY <1>4, <2>1, BetweenFlags, Zenon
<1>6. Corrected(Info(flagged)) = {SubSeq(word, 1, RsDecodedDataSize)}
  <2>1. /\ Len(Info(flagged)) = RsEncodedDataSize
        /\ \A i \in 1..RsEncodedDataSize : Info(flagged)[i] = packet[16 + i]
    BY <1>5, InfoOf, Zenon
  <2>2. ASSUME NEW i \in 1..RsEncodedDataSize, 16 + i \notin wrong
        PROVE  Info(flagged)[i] = word[i]
    <3>1. 16 + i \in 1..IFrameBytes
      BY Sizes
    <3>2. packet[16 + i] = bytes[16 + i]
      BY <1>3, <2>2, <3>1, Zenon DEF AsSent
    <3>3. bytes[16 + i] = word[i]
      BY <1>2, Zenon DEF Carried
    <3>. QED
      BY <2>1, <3>2, <3>3, Zenon
  <2>3. wrong \subseteq 1..IFrameBytes
    BY Zenon DEF Wrong, wrong
  <2>. QED
    BY <1>1, <2>1, <2>2, <2>3, CorrectedIsSent, Zenon
<1>7. Spliced(flagged, SubSeq(word, 1, RsDecodedDataSize)) = bytes
  BY <1>1, <1>2, <1>3, <1>5, SplicedIsSent, Zenon
<1>8. Mended(flagged) = {frame \in {Spliced(flagged, data) : data \in Corrected(Info(flagged))} :
                           FcsMatches(frame)}
  BY DEF Mended
<1>9. {Spliced(flagged, data) : data \in {SubSeq(word, 1, RsDecodedDataSize)}} = {bytes}
  BY <1>7, Zenon
<1>10. {frame \in {bytes} : FcsMatches(frame)} = {bytes}
  BY <1>1
<1>. QED
  BY <1>6, <1>8, <1>9, <1>10, Zenon

\* Such a frame is too long to be taken as it came.
LEMMA TooLong ==
  ASSUME NEW air, NEW bytes, Repairable(air, bytes)
  PROVE  ~(Len(air) \div 8 + 2 <= RsEncodedDataSize)
<1>1. air \in Seq(Bit) /\ air # <<>> /\ Complete(Unstuffed(air))
  BY Zenon DEF Repairable
<1>2. /\ Unstuffed(air) \in Seq(Bit) /\ Len(Unstuffed(air)) <= Len(air)
      /\ Len(Unstuffed(air)) \div 8 = IFrameBytes
  BY <1>1, UnstuffedShorter, Zenon DEF Complete
<1>. DEFINE k == Len(Unstuffed(air))    n == Len(air)
<1>3. k \in Nat /\ n \in Nat /\ k <= n /\ k \div 8 = RsEncodedDataSize + 18
  BY <1>1, <1>2, Sizes
<1>4. RsEncodedDataSize \in Nat
  BY Sizes
<1>. HIDE DEF k, n
<1>5. n >= 8 * (RsEncodedDataSize + 18)
  BY <1>3, <1>4
<1>6. ~(n \div 8 + 2 <= RsEncodedDataSize)
  BY <1>3, <1>4, <1>5
<1>. QED
  BY <1>6 DEF n

-----------------------------------------------------------------------------
(* The invariant *)

\* Some frame of the code was sent, as the bytes it is made of ...
SentOf(bytes) ==
  /\ Framed(bytes) /\ Coded(bytes)
  /\ sent = ToBits(bytes) /\ Airborne(wire, 8 * Len(bytes))

\* ... and what is on the air is typed, and clean as long as no bit was flipped.
Invariant ==
  /\ sender \in {"c", "python"} /\ listener \in {"c", "python"} /\ flips \in 0..MaxFlips
  /\ \/ sent = <<>> /\ wire = <<>>
     \/ \E bytes : SentOf(bytes)
  /\ flips = 0 /\ wire # <<>> => Clean(wire, sent)
  /\ LibraryHears

\* A frame has bits, and they are those of its bytes.
LEMMA FrameNotEmpty ==
  ASSUME NEW bytes, Framed(bytes)
  PROVE  /\ ToBits(bytes) # <<>> /\ Len(ToBits(bytes)) = 8 * Len(bytes)
         /\ Len(bytes) \in {17, IFrameBytes} /\ ToBytes(ToBits(bytes)) = bytes
<1>1. bytes \in Seq(Byte) /\ Len(bytes) \in {17, IFrameBytes}
  BY Zenon DEF Framed
<1>2. Len(bytes) \in Nat /\ Len(bytes) > 0
  BY <1>1, FrameSize, Zenon
<1>3. Len(ToBits(bytes)) = 8 * Len(bytes) /\ ToBytes(ToBits(bytes)) = bytes
  BY <1>1, ToBitsType, BytesBack
<1>4. ToBits(bytes) # <<>>
  BY <1>2, <1>3
<1>. QED
  BY <1>1, <1>3, <1>4, Zenon

\* Nothing on the air fits every packet.
LEMMA EmptyAir ==
  ASSUME NEW n
  PROVE  Airborne(<<>>, n)
<1>1. IFrameBytes \in Nat /\ IFrameBytes > 18
  BY SizesAssumption DEF IFrameBytes
<1>2. <<>> \in Seq(Bit) /\ Len(<<>>) = 0
  OBVIOUS
<1>. QED
  BY <1>1, <1>2 DEF Airborne

\* The invariant holds at the start.
LEMMA Initially == Init => Invariant
<1>. SUFFICES ASSUME Init PROVE Invariant
  OBVIOUS
<1>1. MaxFlips \in Nat
  BY PipelineAssumption
<1>2. LibraryHears
  BY DEF Init, LibraryHears, Received
<1>3. flips \in 0..MaxFlips
  BY <1>1 DEF Init
<1>. QED
  BY <1>2, <1>3 DEF Init, Invariant

\* Every send keeps it.
LEMMA TransmitKeeps ==
  ASSUME Invariant, NEW by, NEW frame, Sends(by, frame)
  PROVE  Invariant'
<1>1. /\ by \in {"c", "python"} /\ sender' = by /\ sent' = frame
      /\ flips' = 0 /\ heard' = <<>> /\ listener' = listener
  BY Zenon DEF Sends, Transmit
<1>2. PICK bytes : Framed(bytes) /\ Coded(bytes) /\ frame = ToBits(bytes)
  BY Zenon DEF Sends, Sendable
<1>3. Clean(wire', frame)
  BY Zenon DEF Sends, Transmit, Clean
<1>4. SentOf(bytes)'
  <2>1. Airborne(wire', 8 * Len(bytes))
    BY <1>2, <1>3, CleanFits, Zenon
  <2>. QED
    BY <1>1, <1>2, <2>1 DEF SentOf
<1>5. LibraryHears'
  <2>. SUFFICES ASSUME wire' = <<>>, Last(ToBytes(sent')) # {} PROVE FALSE
    BY Zenon DEF LibraryHears, Received
  <2>1. Last(bytes) # {}
    BY <1>1, <1>2, FrameNotEmpty, Zenon
  <2>. QED
    BY <1>2, <1>3, <2>1, SomethingSent, Zenon
<1>6. flips' \in 0..MaxFlips
  BY <1>1, PipelineAssumption
<1>7. sender' \in {"c", "python"} /\ listener' \in {"c", "python"}
  BY <1>1 DEF Invariant
<1>8. flips' = 0 /\ wire' # <<>> => Clean(wire, sent)'
  BY <1>1, <1>3 DEF Clean
<1>. QED
  BY <1>4, <1>5, <1>6, <1>7, <1>8, Zenon DEF Invariant

\* So does the radio, which keeps the length.
LEMMA FlipKeeps ==
  ASSUME Invariant, FlipBit
  PROVE  Invariant'
<1>1. /\ wire # <<>> /\ flips < MaxFlips /\ flips' = flips + 1
      /\ sender' = sender /\ sent' = sent /\ listener' = listener
  BY Zenon DEF FlipBit
<1>2. PICK p \in DOMAIN wire : wire' = [wire EXCEPT ![p] = 1 - @]
  BY Zenon DEF FlipBit
<1>3. PICK bytes : SentOf(bytes)
  BY <1>1, Zenon DEF Invariant
<1>4. /\ wire \in Seq(Bit) /\ Len(wire) % 8 = 0
      /\ Len(wire) \div 8 + 2 <= IF 8 * Len(bytes) = 8 * IFrameBytes
                                 THEN ((IFrameBytes + 2) * 6) \div 5 ELSE 37
  BY <1>3, Zenon DEF SentOf, Airborne
<1>5. wire' \in Seq(Bit) /\ Len(wire') = Len(wire) /\ wire' # <<>>
  <2>1. wire[p] \in Bit /\ p \in 1..Len(wire)
    BY <1>4
  <2>2. 1 - wire[p] \in Bit
    BY <2>1 DEF Bit
  <2>. QED
    BY <1>1, <1>2, <1>4, <2>1, <2>2
<1>6. SentOf(bytes)'
  <2>1. Airborne(wire', 8 * Len(bytes))
    BY <1>4, <1>5, Zenon DEF Airborne
  <2>. QED
    BY <1>1, <1>3, <2>1 DEF SentOf
<1>7. flips' \in 0..MaxFlips /\ flips' # 0
  BY <1>1, PipelineAssumption DEF Invariant
<1>8. LibraryHears'
  BY <1>7, Zenon DEF LibraryHears
<1>. QED
  BY <1>1, <1>6, <1>7, <1>8 DEF Invariant

\* What every receiver leaves behind.
LEMMA HearKeeps ==
  ASSUME Invariant, wire # <<>>, NEW by \in {"c", "python"}, NEW frame, Hear(by, frame),
         by = "c" /\ flips = 0 /\ Last(ToBytes(sent)) # {} => frame = sent
  PROVE  Invariant'
<1>1. /\ listener' = by /\ heard' = frame /\ wire' = <<>>
      /\ sender' = sender /\ sent' = sent /\ flips' = flips
  BY Zenon DEF Hear
<1>2. PICK bytes : SentOf(bytes)
  BY Zenon DEF Invariant
<1>3. SentOf(bytes)'
  <2>1. Airborne(wire', 8 * Len(bytes))
    BY <1>1, EmptyAir
  <2>. QED
    BY <1>1, <1>2, <2>1 DEF SentOf
<1>4. LibraryHears'
  BY <1>1, Zenon DEF LibraryHears, Received
<1>5. sender' \in {"c", "python"} /\ listener' \in {"c", "python"} /\ flips' \in 0..MaxFlips
  BY <1>1, Zenon DEF Invariant
<1>. QED
  BY <1>1, <1>3, <1>4, <1>5, Zenon DEF Invariant

\* ax25Recv keeps it: it takes what is clean for what was sent.
LEMMA LibraryKeeps ==
  ASSUME Invariant, Ax25Recv
  PROVE  Invariant'
<1>. DEFINE packet == Bytes(Unstuffed(wire), CDelivered(Unstuffed(wire)))
            frame == IF LibraryAccepts(ToBytes(packet)) THEN packet ELSE <<>>
<1>1. wire # <<>> /\ Hear("c", frame)
  BY Zenon DEF Ax25Recv
<1>2. PICK bytes : SentOf(bytes)
  BY <1>1, Zenon DEF Invariant
<1>3. Framed(bytes) /\ sent = ToBits(bytes)
  BY <1>2, Zenon DEF SentOf
<1>4. ASSUME flips = 0, Last(ToBytes(sent)) # {} PROVE frame = sent
  <2>1. Last(bytes) # {}
    BY <1>3, <1>4, FrameNotEmpty, Zenon
  <2>2. Clean(wire, ToBits(bytes))
    BY <1>1, <1>3, <1>4, Zenon DEF Invariant
  <2>3. packet = sent /\ LibraryAccepts(ToBytes(sent))
    BY <1>1, <1>3, <2>1, <2>2, LibraryTakes, Zenon
  <2>. QED
    BY <2>3, Zenon
<1>. HIDE DEF frame
<1>. QED
  BY <1>1, <1>4, HearKeeps

\* decode_frame keeps it, whatever it makes of the frame.
LEMMA GroundKeeps ==
  ASSUME Invariant, DecodeFrame \/ DecodeLongFrame
  PROVE  Invariant'
<1>1. wire # <<>> /\ \E frame : Hear("python", frame)
  <2>1. CASE DecodeFrame
    BY <2>1, Zenon DEF DecodeFrame
  <2>2. CASE DecodeLongFrame
    BY <2>2, Zenon DEF DecodeLongFrame
  <2>. QED
    BY <2>1, <2>2
<1>2. PICK frame : Hear("python", frame)
  BY <1>1
<1>. QED
  BY <1>1, <1>2, HearKeeps

\* And so does a step that changes nothing.
LEMMA StutterKeeps ==
  ASSUME Invariant, UNCHANGED vars
  PROVE  Invariant'
BY DEF vars, Invariant, SentOf, LibraryHears, Received

\* The invariant is inductive.
LEMMA Invariance == Invariant /\ [Next]_vars => Invariant'
<1>. SUFFICES ASSUME Invariant, [Next]_vars PROVE Invariant'
  OBVIOUS
<1>1. CASE \E by, frame : Sends(by, frame)
  BY <1>1, TransmitKeeps, Zenon
<1>2. CASE FlipBit
  BY <1>2, FlipKeeps
<1>3. CASE Ax25Recv
  BY <1>3, LibraryKeeps
<1>4. CASE DecodeFrame \/ DecodeLongFrame
  BY <1>4, GroundKeeps
<1>5. CASE UNCHANGED vars
  BY <1>5, StutterKeeps
<1>6. Next => \/ \E by, frame : Sends(by, frame)
              \/ FlipBit \/ Ax25Recv \/ DecodeFrame \/ DecodeLongFrame
  BY SendableFrames, Zenon DEF Next
<1>. QED
  BY <1>1, <1>2, <1>3, <1>4, <1>5, <1>6, Zenon

\* The ground station then hears what was sent.
Reads ==
  /\ listener' = "python" /\ wire # <<>> /\ wire' = <<>> /\ IsIFrame /\ sender = "c"
  /\ PaddingIntact
  /\ Damaged \subseteq InfoStart..(InfoStart + RsDecodedDataSize - 1)
  /\ Cardinality(Damaged) <= MaxErrors

LEMMA ReadsRepairable ==
  ASSUME Invariant, Reads
  PROVE  \E bytes : sent = ToBits(bytes) /\ Repairable(wire, bytes)
<1>1. wire # <<>> /\ Len(sent) = 8 * IFrameBytes /\ PaddingIntact
  BY Zenon DEF Reads, IsIFrame
<1>2. PICK bytes : SentOf(bytes)
  BY <1>1, Zenon DEF Invariant
<1>3. Framed(bytes) /\ Coded(bytes) /\ sent = ToBits(bytes) /\ wire \in Seq(Bit)
  BY <1>2, Zenon DEF SentOf, Airborne
<1>. DEFINE kept == Unstuffed(wire)    n == IFrameBytes
<1>4. n \in Nat /\ InfoStart = 17 /\ RsDecodedDataSize \in Nat
  BY Sizes
<1>5. Len(bytes) = n
  <2>1. 8 * Len(bytes) = 8 * n /\ Len(bytes) \in Nat
    <3>1. Len(ToBits(bytes)) = 8 * Len(bytes) /\ Len(bytes) \in {17, IFrameBytes}
      BY <1>3, FrameNotEmpty, Zenon
    <3>2. 8 * Len(bytes) = 8 * n
      BY <1>1, <1>3, <3>1, Zenon
    <3>. QED
      BY <1>4, <3>1, <3>2
  <2>. QED
    BY <1>4, <2>1
<1>6. (8 * n) \div 8 = n
  BY <1>4
<1>7. Complete(kept)
  <2>1. kept \in Seq(Bit)
    BY <1>1, <1>3, UnstuffedShorter, Zenon
  <2>2. Len(kept) \div 8 = Len(sent) \div 8 /\ \A i \in (Len(sent) + 1)..Len(kept) : kept[i] = 0
    BY <1>1, Zenon DEF PaddingIntact
  <2>. QED
    BY <1>1, <1>6, <2>1, <2>2, Zenon DEF Complete
<1>8. Damaged = Wrong(kept, ToBits(bytes))
  <2>1. Len(sent) \div 8 = n
    BY <1>1, <1>6, Zenon
  <2>. QED
    BY <1>3, <2>1, Zenon DEF Damaged, Wrong
<1>9. InfoStart + RsDecodedDataSize - 1 = 16 + RsDecodedDataSize
  BY <1>4
<1>. HIDE DEF kept, n
<1>10. /\ Damaged \subseteq 17..(16 + RsDecodedDataSize) /\ Cardinality(Damaged) <= MaxErrors
  BY <1>4, <1>9, Zenon DEF Reads
<1>. QED
  BY <1>1, <1>3, <1>5, <1>7, <1>8, <1>10, Zenon DEF Repairable, kept, n

\* No other action, and no other branch of decode_frame, takes the frame off the air.
LEMMA ReadsBySplicing ==
  ASSUME Invariant, [Next]_vars, Reads
  PROVE  DecodeLongFrame
<1>1. wire # <<>> /\ wire' = <<>> /\ listener' = "python"
  BY Zenon DEF Reads
<1>2. sent # <<>>
  <2>1. PICK bytes : SentOf(bytes)
    BY <1>1, Zenon DEF Invariant
  <2>. QED
    BY <2>1, FrameNotEmpty, Zenon DEF SentOf
<1>3. CASE \E by, frame : Sends(by, frame)
  BY <1>2, <1>3, Zenon DEF Sends, Transmit
<1>4. ASSUME FlipBit PROVE FALSE
  <2>1. PICK p \in DOMAIN wire : wire' = [wire EXCEPT ![p] = 1 - @]
    BY <1>4, Zenon DEF FlipBit
  <2>2. DOMAIN wire' = DOMAIN wire
    BY <2>1
  <2>3. p \in DOMAIN <<>>
    BY <1>1, <2>2
  <2>. QED
    BY <2>3
<1>5. CASE Ax25Recv
  <2>1. listener' = "c"
    BY <1>5, Zenon DEF Ax25Recv, Hear
  <2>. QED
    BY <1>1, <2>1
<1>6. CASE DecodeFrame
  <2>1. \E bytes : Repairable(wire, bytes)
    BY ReadsRepairable, Zenon
  <2>. QED
    BY <1>6, <2>1, TooLong, Zenon DEF DecodeFrame
<1>7. CASE UNCHANGED vars
  BY <1>1, <1>7 DEF vars
<1>8. Next => \/ \E by, frame : Sends(by, frame)
              \/ FlipBit \/ Ax25Recv \/ DecodeFrame \/ DecodeLongFrame
  BY SendableFrames, Zenon DEF Next
<1>. QED
  BY <1>3, <1>4, <1>5, <1>6, <1>7, <1>8, Zenon

\* What the ground station then takes the frame for.
LEMMA Corrects ==
  ASSUME Invariant, [Next]_vars, Reads
  PROVE  heard' = sent
<1>1. PICK bytes : sent = ToBits(bytes) /\ Repairable(wire, bytes)
  BY ReadsRepairable, Zenon
<1>. DEFINE flagged == <<FlagByte>> \o LongPacket(wire) \o <<FlagByte>>
<1>2. \/ Mended(flagged) = {}
      \/ \E frame \in Mended(flagged) : Hear("python", ToBits(frame))
  BY ReadsBySplicing, Zenon DEF DecodeLongFrame, LongPacket, Mended
<1>3. Mended(flagged) = {bytes}
  BY <1>1, MendedIsSent, Zenon
<1>. HIDE DEF flagged
<1>. QED
  BY <1>1, <1>2, <1>3, Zenon DEF Hear

-----------------------------------------------------------------------------
(* The FCS, byte by byte *)

Crc == SUBSET (0..15)

\* r is the register of calculateCrc16Ccitt after each of the n bytes from byte i on
CrcRun(r, crc, bytes, i, n) ==
  /\ r[0] = crc
  /\ \A k \in 1..n : r[k] = CrcStep(r[k - 1], bytes[i + k - 1])
  /\ \A k \in 0..n : r[k] \in Crc

\* The register keeps its width.
LEMMA CrcStepType ==
  ASSUME NEW crc \in Crc, NEW byte \in Byte
  PROVE  CrcStep(crc, byte) \in Crc
<1>1. ASSUME NEW a \in Crc, NEW b \in Crc PROVE Xor(a, b) \in Crc /\ a \cup b \in Crc
  BY DEF Xor, Crc
<1>2. ASSUME NEW a, NEW k PROVE Shl(a, k) \in Crc /\ Shr(a, k) \in Crc
  BY DEF Shl, Shr, Crc
<1>3. byte \in Crc
  BY DEF Byte, Crc
<1>. QED
  BY <1>1, <1>2, <1>3, Zenon DEF CrcStep

\* Every stretch of bytes has a run from every register.
LEMMA CrcRunExists ==
  ASSUME NEW bytes \in Seq(Byte), NEW crc \in Crc, NEW i \in Nat \ {0}, NEW n \in Nat,
         i + n <= Len(bytes) + 1
  PROVE  \E r : CrcRun(r, crc, bytes, i, n)
<1>. DEFINE T == [k \in 0..n |-> Crc]
            next == [k \in 1..n |-> [v \in Crc |-> CrcStep(v, bytes[i + k - 1])]]
<1>1. ASSUME NEW k \in 1..n PROVE bytes[i + k - 1] \in Byte
  <2>1. i + k - 1 \in 1..Len(bytes)
    OBVIOUS
  <2>. QED
    BY <2>1, ElementOfSeq
<1>2. \A k \in 1..n : k \in 0..n /\ k - 1 \in 0..n
  OBVIOUS
<1>3. (\A k \in 0..n : T[k] = Crc) /\ 0 \in 0..n
  OBVIOUS
<1>4. \A k \in 1..n : \A v \in T[k - 1] : next[k][v] = CrcStep(v, bytes[i + k - 1])
  BY <1>2, <1>3, Zenon
<1>5. \A k \in 1..n : \A v \in T[k - 1] : next[k][v] \in T[k]
  BY <1>1, <1>2, <1>3, <1>4, CrcStepType, Zenon
<1>6. crc \in T[0]
  BY <1>3, Zenon
<1>. HIDE DEF T, next
<1>7. PICK r : Iterates(r, n, T, crc, next)
  BY <1>5, <1>6, Iteration, Zenon
<1>8. \A k \in 0..n : r[k] \in Crc
  BY <1>3, <1>7, Zenon DEF Iterates
<1>9. \A k \in 1..n : r[k] = CrcStep(r[k - 1], bytes[i + k - 1])
  BY <1>2, <1>4, <1>7, Zenon DEF Iterates
<1>10. r[0] = crc
  BY <1>7, Zenon DEF Iterates
<1>. QED
  BY <1>8, <1>9, <1>10, Zenon DEF CrcRun

\* b bytes behind byte a of run r, run q is where r is
CrcJoins(r, a, q, b) == r[a + b] = q[b]

\* A run goes on as the run that begins where it has come to.
LEMMA CrcRunJoins ==
  ASSUME NEW bytes, NEW crc, NEW i \in Nat \ {0}, NEW n \in Nat,
         NEW r, CrcRun(r, crc, bytes, i, n), NEW a \in 0..n, NEW m \in 0..(n - a),
         NEW q, CrcRun(q, r[a], bytes, i + a, m)
  PROVE  \A b \in 0..m : CrcJoins(r, a, q, b)
<1>. DEFINE Ends == {b \in 0..m : r[a + b] = q[b]}
<1>1. 0 \in Ends
  <2>1. a + 0 = a /\ 0 \in 0..m /\ q[0] = r[a]
    BY DEF CrcRun
  <2>. QED
    BY <2>1
<1>2. ASSUME NEW b \in 1..m, b - 1 \in Ends PROVE b \in Ends
  <2>1. /\ a + b \in 1..n /\ (a + b) - 1 = a + (b - 1) /\ b \in 0..m
        /\ i + (a + b) - 1 = i + a + b - 1
    OBVIOUS
  <2>2. r[a + b] = CrcStep(r[(a + b) - 1], bytes[i + (a + b) - 1])
    BY <2>1, Zenon DEF CrcRun
  <2>3. q[b] = CrcStep(q[b - 1], bytes[i + a + b - 1])
    BY Zenon DEF CrcRun
  <2>4. r[a + (b - 1)] = q[b - 1]
    BY <1>2
  <2>5. r[a + b] = q[b]
    BY <2>1, <2>2, <2>3, <2>4, Zenon
  <2>. QED
    BY <2>1, <2>5
<1>. HIDE DEF Ends
<1>3. \A b \in 0..m : b \in Ends
  <2>1. m \in Nat
    OBVIOUS
  <2>. QED
    BY <1>1, <1>2, <2>1, UpTo
<1>. QED
  BY <1>3, Zenon DEF Ends, CrcJoins

\* what from of Crc16 is: one of its values, and the function
CrcHalf(f, bytes, i, j, crc) ==
  IF i >= j THEN CrcStep(crc, bytes[i])
  ELSE LET middle == (i + j) \div 2 IN f[middle + 1][j][f[i][middle][crc]]

CrcHalves(f, bytes) ==
  [i \in 1..Len(bytes) |->
     [j \in 1..Len(bytes) |-> [crc \in Crc |-> CrcHalf(f, bytes, i, j, crc)]]]

CrcFrom(bytes) == CHOOSE f : f = CrcHalves(f, bytes)

\* the run from byte i to the end, and what it has come to with byte j
CrcRunFrom(bytes, i, crc) == CHOOSE r : CrcRun(r, crc, bytes, i, Len(bytes) + 1 - i)
CrcReached(bytes, i, j, crc) == CrcRunFrom(bytes, i, crc)[j + 1 - i]

\* The model's Crc16, with the function it defines inside named.
LEMMA Crc16IsFrom ==
  ASSUME NEW bytes
  PROVE  Crc16(bytes) = CrcFrom(bytes)[1][Len(bytes)][{}]
BY DEF Crc16, CrcFrom, CrcHalves, CrcHalf, Crc

\* The run that CrcRunFrom chooses exists.
LEMMA CrcRunFromIsRun ==
  ASSUME NEW bytes \in Seq(Byte), NEW i \in 1..Len(bytes), NEW crc \in Crc
  PROVE  CrcRun(CrcRunFrom(bytes, i, crc), crc, bytes, i, Len(bytes) + 1 - i)
<1>. DEFINE n == Len(bytes) + 1 - i
<1>1. i \in Nat \ {0} /\ n \in Nat /\ i + n <= Len(bytes) + 1
  OBVIOUS
<1>. HIDE DEF n
<1>2. \E r : CrcRun(r, crc, bytes, i, n)
  BY <1>1, CrcRunExists
<1>. QED
  BY <1>2, Zenon DEF CrcRunFrom, n

\* The bytes i to j, from the bytes i to m and m + 1 to j.
LEMMA CrcReachedJoins ==
  ASSUME NEW bytes \in Seq(Byte), NEW i \in 1..Len(bytes),
         NEW j \in i..Len(bytes), NEW m \in i..(j - 1), NEW crc \in Crc,
         NEW left, left = CrcReached(bytes, i, m, crc)
  PROVE  left \in Crc /\ CrcReached(bytes, i, j, crc) = CrcReached(bytes, m + 1, j, left)
<1>. DEFINE n == Len(bytes) + 1 - i
            a == m + 1 - i
            k == Len(bytes) + 1 - (m + 1)
            b == j + 1 - (m + 1)
            r == CrcRunFrom(bytes, i, crc)
            q == CrcRunFrom(bytes, m + 1, left)
<1>1. /\ n \in Nat /\ i \in Nat \ {0} /\ a \in 0..n
      /\ k \in 0..(n - a) /\ b \in 0..k /\ i + a = m + 1 /\ m + 1 \in 1..Len(bytes)
      /\ a + b = j + 1 - i
  OBVIOUS
<1>2. CrcRun(r, crc, bytes, i, n)
  BY CrcRunFromIsRun
<1>3. left = r[a]
  BY DEF CrcReached
<1>4. left \in Crc
  BY <1>1, <1>2, <1>3, Zenon DEF CrcRun
<1>5. CrcRun(q, left, bytes, m + 1, k)
  BY <1>1, <1>4, CrcRunFromIsRun
<1>6. CrcReached(bytes, i, j, crc) = r[j + 1 - i] /\ CrcReached(bytes, m + 1, j, left) = q[b]
  BY DEF CrcReached
<1>. HIDE DEF n, a, k, b, r, q
<1>7. CrcRun(q, r[a], bytes, i + a, k)
  BY <1>1, <1>3, <1>5
<1>8. \A x \in 0..k : CrcJoins(r, a, q, x)
  <2>1. i \in Nat \ {0} /\ n \in Nat
    BY <1>1
  <2>2. a \in 0..n /\ k \in 0..(n - a)
    BY <1>1
  <2>. QED
    BY <1>2, <1>7, <2>1, <2>2, CrcRunJoins, Zenon
<1>. QED
  BY <1>1, <1>4, <1>6, <1>8 DEF CrcJoins

\* One byte.
LEMMA CrcReachedOne ==
  ASSUME NEW bytes \in Seq(Byte), NEW i \in 1..Len(bytes), NEW crc \in Crc
  PROVE  CrcReached(bytes, i, i, crc) = CrcStep(crc, bytes[i])
<1>. DEFINE r == CrcRunFrom(bytes, i, crc)    n == Len(bytes) + 1 - i
<1>1. i + 1 - i = 1 /\ 1 \in 1..n /\ i + 1 - 1 = i /\ 1 - 1 = 0
  OBVIOUS
<1>2. CrcRun(r, crc, bytes, i, n)
  BY CrcRunFromIsRun
<1>3. CrcReached(bytes, i, i, crc) = r[1]
  BY <1>1, Zenon DEF CrcReached
<1>. HIDE DEF r, n
<1>4. r[1] = CrcStep(r[1 - 1], bytes[i + 1 - 1]) /\ r[0] = crc
  BY <1>1, <1>2, Zenon DEF CrcRun
<1>. QED
  BY <1>1, <1>3, <1>4, Zenon

\* There is a function that does what Crc16 says of from.
LEMMA CrcHalvesExist ==
  ASSUME NEW bytes \in Seq(Byte)
  PROVE  CrcFrom(bytes) = CrcHalves(CrcFrom(bytes), bytes)
<1>. DEFINE n == Len(bytes)
            cell(i, j, crc) ==
              IF i >= j THEN CrcStep(crc, bytes[i]) ELSE CrcReached(bytes, i, j, crc)
            f == [i \in 1..n |-> [j \in 1..n |-> [crc \in Crc |-> cell(i, j, crc)]]]
<1>1. ASSUME NEW i \in 1..n, NEW j \in 1..n, NEW crc \in Crc
      PROVE  f[i][j][crc] = cell(i, j, crc)
  BY Zenon
<1>2. ASSUME NEW i \in 1..n, NEW j \in 1..n, NEW crc \in Crc, i <= j
      PROVE  f[i][j][crc] = CrcReached(bytes, i, j, crc)
  <2>1. CASE i = j
    <3>1. i >= j
      BY <2>1
    <3>2. f[i][j][crc] = CrcStep(crc, bytes[i])
      BY <1>1, <3>1, Zenon
    <3>. QED
      BY <2>1, <3>2, CrcReachedOne, Zenon
  <2>2. CASE i < j
    <3>1. ~(i >= j)
      BY <2>2
    <3>. QED
      BY <1>1, <3>1, Zenon
  <2>. QED
    BY <1>2, <2>1, <2>2
<1>. HIDE DEF f
<1>3. ASSUME NEW i \in 1..n, NEW j \in 1..n, NEW crc \in Crc
      PROVE  cell(i, j, crc) = CrcHalf(f, bytes, i, j, crc)
  <2>1. CASE i >= j
    BY <2>1, Zenon DEF CrcHalf
  <2>2. CASE i < j
    <3>. DEFINE m == (i + j) \div 2    left == f[i][m][crc]
    <3>1. /\ m \in i..(j - 1) /\ m \in 1..n /\ m + 1 \in 1..n /\ i <= m /\ m + 1 <= j
          /\ j \in i..Len(bytes) /\ ~(i >= j)
      BY <2>2
    <3>2. left = CrcReached(bytes, i, m, crc)
      BY <3>1, <1>2
    <3>3. CrcHalf(f, bytes, i, j, crc) = f[m + 1][j][left]
      BY <3>1, Zenon DEF CrcHalf
    <3>. HIDE DEF m, left
    <3>4. left \in Crc /\ CrcReached(bytes, i, j, crc) = CrcReached(bytes, m + 1, j, left)
      BY <3>1, <3>2, CrcReachedJoins
    <3>5. f[m + 1][j][left] = CrcReached(bytes, m + 1, j, left)
      BY <3>1, <3>4, <1>2, Zenon
    <3>. QED
      BY <3>1, <3>3, <3>4, <3>5, Zenon
  <2>. QED
    BY <2>1, <2>2
<1>4. f = CrcHalves(f, bytes)
  BY <1>3, Zenon DEF f, CrcHalves
<1>. HIDE DEF f
<1>. QED
  BY <1>4, Zenon DEF CrcFrom

\* from is what the runs have come to.
LEMMA CrcFromIsReached ==
  ASSUME NEW bytes \in Seq(Byte), Len(bytes) > 0
  PROVE  CrcFrom(bytes)[1][Len(bytes)][{}] = CrcReached(bytes, 1, Len(bytes), {})
<1>. DEFINE n == Len(bytes)
            f == CrcFrom(bytes)
            Span(d) == \A i \in 1..n, j \in 1..n : i <= j /\ j - i <= d =>
                         \A c \in Crc : f[i][j][c] = CrcReached(bytes, i, j, c)
            Spans == {d \in 0..n : Span(d)}
<1>1. f = CrcHalves(f, bytes)
  BY CrcHalvesExist
<1>. HIDE DEF f
<1>2. ASSUME NEW i \in 1..n, NEW j \in 1..n, NEW c \in Crc
      PROVE  f[i][j][c] = CrcHalf(f, bytes, i, j, c)
  <2>1. CrcHalves(f, bytes)[i][j][c] = CrcHalf(f, bytes, i, j, c)
    BY Zenon DEF CrcHalves
  <2>. QED
    BY <1>1, <2>1, Zenon
<1>3. ASSUME NEW i \in 1..n, NEW c \in Crc
      PROVE  f[i][i][c] = CrcReached(bytes, i, i, c)
  <2>1. f[i][i][c] = CrcHalf(f, bytes, i, i, c) /\ i >= i
    BY <1>2
  <2>2. f[i][i][c] = CrcStep(c, bytes[i])
    BY <2>1, Zenon DEF CrcHalf
  <2>. QED
    BY <2>2, CrcReachedOne, Zenon
<1>4. 0 \in Spans
  <2>1. ASSUME NEW i \in 1..n, NEW j \in 1..n, i <= j, j - i <= 0, NEW c \in Crc
        PROVE  f[i][j][c] = CrcReached(bytes, i, j, c)
    <3>1. i = j
      BY <2>1
    <3>. QED
      BY <3>1, <1>3, Zenon
  <2>2. Span(0) /\ 0 \in 0..n
    BY <2>1
  <2>. QED
    BY <2>2
<1>5. ASSUME NEW d \in 1..n, d - 1 \in Spans PROVE d \in Spans
  <2>0. \A i \in 1..n, j \in 1..n : i <= j /\ j - i <= d - 1 =>
          \A c \in Crc : f[i][j][c] = CrcReached(bytes, i, j, c)
    BY <1>5
  <2>. HIDE DEF Spans
  <2>1. ASSUME NEW i \in 1..n, NEW j \in 1..n, i <= j, j - i <= d, NEW c \in Crc
        PROVE  f[i][j][c] = CrcReached(bytes, i, j, c)
    <3>1. CASE i = j
      BY <3>1, <1>3, Zenon
    <3>2. CASE i # j
      <4>. DEFINE m == (i + j) \div 2    left == f[i][m][c]
      <4>1. /\ m \in i..(j - 1) /\ m \in 1..n /\ m + 1 \in 1..n /\ i <= m /\ m + 1 <= j
            /\ m - i <= d - 1 /\ j - (m + 1) <= d - 1 /\ j \in i..Len(bytes) /\ ~(i >= j)
        BY <2>1, <3>2
      <4>2. CrcHalf(f, bytes, i, j, c) = f[m + 1][j][left]
        BY <4>1, Zenon DEF CrcHalf
      <4>. HIDE DEF m
      <4>3. left = CrcReached(bytes, i, m, c)
        BY <4>1, <2>0, Zenon
      <4>. HIDE DEF left
      <4>4. left \in Crc /\ CrcReached(bytes, i, j, c) = CrcReached(bytes, m + 1, j, left)
        BY <4>1, <4>3, CrcReachedJoins
      <4>5. f[m + 1][j][left] = CrcReached(bytes, m + 1, j, left)
        BY <4>1, <4>4, <2>0, Zenon
      <4>. QED
        BY <4>2, <4>4, <4>5, <1>2, Zenon
    <3>. QED
      BY <3>1, <3>2
  <2>2. Span(d)
    BY <2>1, Zenon
  <2>3. d \in 0..n
    OBVIOUS
  <2>. QED
    BY <2>2, <2>3 DEF Spans
<1>6. n \in Spans
  <2>. HIDE DEF Spans, n
  <2>1. n \in Nat
    BY DEF n
  <2>2. \A d \in 0..n : d \in Spans
    BY <2>1, <1>4, <1>5, UpTo
  <2>. QED
    BY <2>1, <2>2
<1>7. Span(n)
  BY <1>6
<1>8. 1 \in 1..n /\ n \in 1..n /\ 1 <= n /\ n - 1 <= n /\ {} \in Crc
  BY DEF Crc
<1>9. f[1][n][{}] = CrcReached(bytes, 1, n, {})
  BY <1>7, <1>8, Zenon
<1>. QED
  BY <1>9 DEF f

\* Crc16, which halves the bytes to keep its recursion shallow, is the loop of
\* calculateCrc16Ccitt: the register after the last byte.
THEOREM CrcRuns ==
  ASSUME NEW bytes \in Seq(Byte), Len(bytes) > 0
  PROVE  \E r : CrcRun(r, {}, bytes, 1, Len(bytes)) /\ Crc16(bytes) = r[Len(bytes)]
<1>. DEFINE r == CrcRunFrom(bytes, 1, {})
<1>1. 1 \in 1..Len(bytes) /\ Len(bytes) + 1 - 1 = Len(bytes) /\ {} \in Crc
  BY DEF Crc
<1>2. CrcRun(r, {}, bytes, 1, Len(bytes))
  <2>1. CrcRun(r, {}, bytes, 1, Len(bytes) + 1 - 1)
    BY <1>1, CrcRunFromIsRun
  <2>. QED
    BY <1>1, <2>1
<1>3. CrcReached(bytes, 1, Len(bytes), {}) = r[Len(bytes)]
  BY <1>1 DEF CrcReached
<1>4. Crc16(bytes) = r[Len(bytes)]
  BY <1>3, Crc16IsFrom, CrcFromIsReached
<1>. HIDE DEF r
<1>. QED
  BY <1>2, <1>4

\* Xor, bit by bit.
LEMMA XorAt ==
  ASSUME NEW a, NEW b, NEW i
  PROVE  i \in Xor(a, b) <=> ~(i \in a <=> i \in b)
BY Zenon DEF Xor

\* What was added can be taken away again.
LEMMA XorCancels ==
  ASSUME NEW a, NEW b, NEW c, Xor(a, c) = Xor(b, c)
  PROVE  a = b
<1>1. ASSUME NEW i PROVE i \in a <=> i \in b
  BY XorAt, Zenon
<1>. QED
  BY <1>1, Zenon

\* The low byte, bit by bit.
LEMMA LowAt ==
  ASSUME NEW a, NEW b
  PROVE  Low(a) = Low(b) <=> \A i \in 0..7 : i \in a <=> i \in b
<1>1. ASSUME NEW i \in 0..7, Low(a) = Low(b) PROVE i \in a <=> i \in b
  BY <1>1, Zenon DEF Low
<1>2. ASSUME \A i \in 0..7 : i \in a <=> i \in b PROVE Low(a) = Low(b)
  BY <1>2, Zenon DEF Low
<1>. QED
  BY <1>1, <1>2, Zenon

\* the four lines of calculateCrc16Ccitt, one after the other
Swap(crc, byte) == Xor(Shr(crc, 8) \cup Shl(crc, 8), byte)
Mix(s) == Xor(s, Shr(Low(s), 4))
Rise(m) == Xor(m, Shl(m, 12))
Spread(h) == Xor(h, Shl(Low(h), 5))

LEMMA CrcStages ==
  ASSUME NEW crc, NEW byte
  PROVE  CrcStep(crc, byte) = Spread(Rise(Mix(Swap(crc, byte))))
BY Zenon DEF CrcStep, Spread, Rise, Mix, Swap

\* What a line makes of a register tells what it was, and its low byte what the low
\* byte was.
Tells(f, g, a, b) ==
  /\ Low(f) = Low(g) => Low(a) = Low(b)
  /\ f = g => a = b

LEMMA MixTells ==
  ASSUME NEW a, NEW b
  PROVE  Tells(Mix(a), Mix(b), a, b)
<1>1. ASSUME NEW s, NEW i \in 4..7 PROVE i \in Mix(s) <=> i \in s
  <2>1. i \notin Shr(Low(s), 4)
    BY DEF Shr, Low
  <2>2. i \in Mix(s) <=> ~(i \in s <=> i \in Shr(Low(s), 4))
    BY DEF Mix, Xor
  <2>. QED
    BY <2>1, <2>2, Zenon
<1>2. ASSUME Low(Mix(a)) = Low(Mix(b)) PROVE Shr(Low(a), 4) = Shr(Low(b), 4)
  <2>1. ASSUME NEW i \in 4..7 PROVE i \in a <=> i \in b
    <3>1. i \in 0..7
      OBVIOUS
    <3>. QED
      BY <1>1, <1>2, <3>1, LowAt, Zenon
  <2>2. ASSUME NEW s PROVE Shr(Low(s), 4) = {i \in 0..3 : i + 4 \in s}
    BY DEF Shr, Low
  <2>3. ASSUME NEW i \in 0..3 PROVE i + 4 \in a <=> i + 4 \in b
    <3>1. i + 4 \in 4..7
      OBVIOUS
    <3>. QED
      BY <2>1, <3>1
  <2>4. {i \in 0..3 : i + 4 \in a} = {i \in 0..3 : i + 4 \in b}
    BY <2>3, Zenon
  <2>. QED
    BY <2>2, <2>4, Zenon
<1>3. ASSUME Low(Mix(a)) = Low(Mix(b)) PROVE Low(a) = Low(b)
  <2>1. ASSUME NEW i \in 0..7 PROVE i \in a <=> i \in b
    <3>1. i \in Mix(a) <=> i \in Mix(b)
      BY <1>3, LowAt, Zenon
    <3>2. i \in Shr(Low(a), 4) <=> i \in Shr(Low(b), 4)
      BY <1>2, <1>3, Zenon
    <3>3. ASSUME NEW s PROVE i \in Mix(s) <=> ~(i \in s <=> i \in Shr(Low(s), 4))
      BY DEF Mix, Xor
    <3>. QED
      BY <3>1, <3>2, <3>3, Zenon
  <2>. QED
    BY <2>1, LowAt, Zenon
<1>4. ASSUME Mix(a) = Mix(b) PROVE a = b
  <2>1. Shr(Low(a), 4) = Shr(Low(b), 4)
    BY <1>2, <1>4, Zenon
  <2>. QED
    BY <1>4, <2>1, XorCancels, Zenon DEF Mix
<1>. QED
  BY <1>3, <1>4, Zenon DEF Tells

LEMMA RiseTells ==
  ASSUME NEW a \in Crc, NEW b \in Crc
  PROVE  Tells(Rise(a), Rise(b), a, b)
<1>1. ASSUME NEW m \in Crc, NEW i \in 0..11 PROVE i \in Rise(m) <=> i \in m
  <2>1. i \notin Shl(m, 12)
    <3>1. i - 12 \notin 0..15
      OBVIOUS
    <3>2. i - 12 \notin m
      BY <3>1, Zenon DEF Crc
    <3>. QED
      BY <3>2 DEF Shl
  <2>2. i \in Rise(m) <=> ~(i \in m <=> i \in Shl(m, 12))
    BY DEF Rise, Xor
  <2>. QED
    BY <2>1, <2>2, Zenon
<1>2. ASSUME Low(Rise(a)) = Low(Rise(b)) PROVE Low(a) = Low(b)
  <2>1. ASSUME NEW i \in 0..7 PROVE i \in a <=> i \in b
    <3>1. i \in 0..11
      OBVIOUS
    <3>2. i \in Rise(a) <=> i \in Rise(b)
      BY <1>2, LowAt, Zenon
    <3>. QED
      BY <1>1, <3>1, <3>2, Zenon
  <2>. QED
    BY <2>1, LowAt, Zenon
<1>3. ASSUME Rise(a) = Rise(b) PROVE a = b
  <2>1. ASSUME NEW i \in 0..15 PROVE i \in Shl(a, 12) <=> i \in Shl(b, 12)
    <3>1. CASE i - 12 \in 0..7
      <4>1. i - 12 \in a <=> i - 12 \in b
        BY <1>2, <1>3, <3>1, LowAt, Zenon
      <4>. QED
        BY <4>1, Zenon DEF Shl
    <3>2. CASE i - 12 \notin 0..7
      <4>1. i - 12 \notin 0..15
        BY <3>2
      <4>2. i - 12 \notin a /\ i - 12 \notin b
        BY <4>1, Zenon DEF Crc
      <4>. QED
        BY <4>2, Zenon DEF Shl
    <3>. QED
      BY <3>1, <3>2, Zenon
  <2>2. Shl(a, 12) = Shl(b, 12)
    BY <2>1, Zenon DEF Shl
  <2>. QED
    BY <1>3, <2>2, XorCancels, Zenon DEF Rise
<1>. QED
  BY <1>2, <1>3, Zenon DEF Tells

LEMMA SpreadTells ==
  ASSUME NEW a, NEW b
  PROVE  Tells(Spread(a), Spread(b), a, b)
<1>1. ASSUME NEW h, NEW i \in 0..4 PROVE i \in Spread(h) <=> i \in h
  <2>1. i \notin Shl(Low(h), 5)
    BY DEF Shl, Low
  <2>2. i \in Spread(h) <=> ~(i \in h <=> i \in Shl(Low(h), 5))
    BY DEF Spread, Xor
  <2>. QED
    BY <2>1, <2>2, Zenon
<1>2. ASSUME NEW h, NEW i \in 5..7 PROVE i \in Shl(Low(h), 5) <=> i - 5 \in h
  BY DEF Shl, Low
<1>3. ASSUME Low(Spread(a)) = Low(Spread(b)) PROVE Low(a) = Low(b)
  <2>0. ASSUME NEW i \in 0..4 PROVE i \in a <=> i \in b
    <3>1. i \in 0..7
      OBVIOUS
    <3>. QED
      BY <1>1, <1>3, <3>1, LowAt, Zenon
  <2>1. ASSUME NEW i \in 0..7 PROVE i \in a <=> i \in b
    <3>1. CASE i \in 0..4
      BY <2>0, <3>1, Zenon
    <3>2. CASE i \in 5..7
      <4>1. i - 5 \in 0..4
        BY <3>2
      <4>2. i \in Shl(Low(a), 5) <=> i \in Shl(Low(b), 5)
        BY <1>2, <2>0, <3>2, <4>1, Zenon
      <4>3. i \in Spread(a) <=> i \in Spread(b)
        BY <1>3, LowAt, Zenon
      <4>4. ASSUME NEW h PROVE i \in Spread(h) <=> ~(i \in h <=> i \in Shl(Low(h), 5))
        BY DEF Spread, Xor
      <4>. QED
        BY <4>2, <4>3, <4>4, Zenon
    <3>3. i \in 0..4 \/ i \in 5..7
      OBVIOUS
    <3>. QED
      BY <3>1, <3>2, <3>3, Zenon
  <2>. QED
    BY <2>1, LowAt, Zenon
<1>4. ASSUME Spread(a) = Spread(b) PROVE a = b
  <2>1. Low(a) = Low(b)
    BY <1>3, <1>4, Zenon
  <2>. QED
    BY <1>4, <2>1, XorCancels, Zenon DEF Spread
<1>. QED
  BY <1>3, <1>4, Zenon DEF Tells

\* So does the step: its low byte tells the low byte of what was read, and the
\* register that of what it was before.
LEMMA SwapTells ==
  ASSUME NEW a \in Crc, NEW b \in Crc, NEW x \in Byte, NEW y \in Byte
  PROVE  /\ Low(Swap(a, x)) = Low(Swap(a, y)) => x = y
         /\ Swap(a, x) = Swap(b, y) => Low(a) = Low(b)
         /\ Swap(a, x) = Swap(b, x) => a = b
<1>1. ASSUME Low(Swap(a, x)) = Low(Swap(a, y)) PROVE x = y
  <2>1. ASSUME NEW i \in 0..7 PROVE i \in x <=> i \in y
    <3>1. i \in Swap(a, x) <=> i \in Swap(a, y)
      BY <1>1, LowAt, Zenon
    <3>2. ASSUME NEW z PROVE i \in Swap(a, z) <=> ~(i \in Shr(a, 8) \cup Shl(a, 8) <=> i \in z)
      BY DEF Swap, Xor
    <3>. QED
      BY <3>1, <3>2, Zenon
  <2>. QED
    BY <2>1, Zenon DEF Byte
<1>2. ASSUME NEW c \in Crc, NEW z \in Byte, NEW i \in 0..7
      PROVE  i + 8 \in Swap(c, z) <=> i \in c
  <2>1. i + 8 \notin z /\ i + 8 \notin Shr(c, 8)
    <3>1. i + 8 \notin 0..7 /\ i + 8 + 8 \notin 0..15
      OBVIOUS
    <3>. QED
      BY <3>1, Zenon DEF Byte, Crc, Shr
  <2>2. i + 8 \in Shl(c, 8) <=> i \in c
    <3>1. i + 8 \in 0..15 /\ i + 8 - 8 = i
      OBVIOUS
    <3>. QED
      BY <3>1 DEF Shl
  <2>3. i + 8 \in Swap(c, z) <=> ~(i + 8 \in Shr(c, 8) \cup Shl(c, 8) <=> i + 8 \in z)
    BY DEF Swap, Xor
  <2>. QED
    BY <2>1, <2>2, <2>3, Zenon
<1>3. ASSUME Swap(a, x) = Swap(b, y) PROVE Low(a) = Low(b)
  BY <1>2, <1>3, LowAt, Zenon
<1>4. ASSUME Swap(a, x) = Swap(b, x) PROVE a = b
  <2>1. Shr(a, 8) \cup Shl(a, 8) = Shr(b, 8) \cup Shl(b, 8)
    BY <1>4, XorCancels, Zenon DEF Swap
  <2>2. ASSUME NEW c \in Crc, NEW i \in 8..15
        PROVE  i - 8 \in Shr(c, 8) \cup Shl(c, 8) <=> i \in c
    <3>1. i - 8 \notin Shl(c, 8)
      <4>1. i - 8 - 8 \notin 0..15
        OBVIOUS
      <4>. QED
        BY <4>1, Zenon DEF Shl, Crc
    <3>2. i - 8 \in Shr(c, 8) <=> i \in c
      <4>1. i - 8 \in 0..15 /\ i - 8 + 8 = i
        OBVIOUS
      <4>. QED
        BY <4>1, Zenon DEF Shr
    <3>. QED
      BY <3>1, <3>2, Zenon
  <2>3. ASSUME NEW i \in 0..15 PROVE i \in a <=> i \in b
    <3>1. CASE i \in 0..7
      BY <1>2, <1>4, <3>1, Zenon
    <3>2. CASE i \in 8..15
      BY <2>1, <2>2, <3>2, Zenon
    <3>3. i \in 0..7 \/ i \in 8..15
      OBVIOUS
    <3>. QED
      BY <3>1, <3>2, <3>3, Zenon
  <2>. QED
    BY <2>3, Zenon DEF Crc
<1>. QED
  BY <1>1, <1>3, <1>4, Zenon

LEMMA CrcStepTells ==
  ASSUME NEW a \in Crc, NEW b \in Crc, NEW x \in Byte, NEW y \in Byte
  PROVE  /\ Low(CrcStep(a, x)) = Low(CrcStep(a, y)) => x = y
         /\ CrcStep(a, x) = CrcStep(b, y) => Low(a) = Low(b)
         /\ CrcStep(a, x) = CrcStep(b, x) => a = b
<1>1. ASSUME NEW c \in Crc, NEW d \in Crc, NEW z \in Byte, NEW w \in Byte
      PROVE  Tells(CrcStep(c, z), CrcStep(d, w), Swap(c, z), Swap(d, w))
  <2>1. ASSUME NEW e \in Crc, NEW v \in Byte
        PROVE  Swap(e, v) \in Crc /\ Mix(Swap(e, v)) \in Crc
    <3>1. ASSUME NEW p \in Crc, NEW q \in Crc PROVE Xor(p, q) \in Crc /\ p \cup q \in Crc
      BY Zenon DEF Xor, Crc
    <3>2. ASSUME NEW p, NEW k PROVE Shl(p, k) \in Crc /\ Shr(p, k) \in Crc
      BY Zenon DEF Shl, Shr, Crc
    <3>3. v \in Crc
      BY DEF Byte, Crc
    <3>. QED
      BY <3>1, <3>2, <3>3, Zenon DEF Swap, Mix
  <2>. DEFINE s == Swap(c, z)    t == Swap(d, w)
  <2>2. s \in Crc /\ t \in Crc /\ Mix(s) \in Crc /\ Mix(t) \in Crc
    BY <2>1, Zenon
  <2>3. CrcStep(c, z) = Spread(Rise(Mix(s))) /\ CrcStep(d, w) = Spread(Rise(Mix(t)))
    BY CrcStages, Zenon
  <2>. HIDE DEF s, t
  <2>4. Tells(Spread(Rise(Mix(s))), Spread(Rise(Mix(t))), Rise(Mix(s)), Rise(Mix(t)))
    BY SpreadTells, Zenon
  <2>5. Tells(Rise(Mix(s)), Rise(Mix(t)), Mix(s), Mix(t))
    BY <2>2, RiseTells, Zenon
  <2>6. Tells(Mix(s), Mix(t), s, t)
    BY MixTells, Zenon
  <2>. QED
    BY <2>3, <2>4, <2>5, <2>6, Zenon DEF Tells, s, t
<1>2. ASSUME Low(CrcStep(a, x)) = Low(CrcStep(a, y)) PROVE x = y
  <2>1. Tells(CrcStep(a, x), CrcStep(a, y), Swap(a, x), Swap(a, y))
    BY <1>1, Zenon
  <2>2. Low(Swap(a, x)) = Low(Swap(a, y))
    BY <1>2, <2>1, Zenon DEF Tells
  <2>. QED
    BY <2>2, SwapTells
<1>3. ASSUME CrcStep(a, x) = CrcStep(b, y) PROVE Low(a) = Low(b)
  <2>1. Tells(CrcStep(a, x), CrcStep(b, y), Swap(a, x), Swap(b, y))
    BY <1>1, Zenon
  <2>2. Swap(a, x) = Swap(b, y)
    BY <1>3, <2>1, Zenon DEF Tells
  <2>. QED
    BY <2>2, SwapTells
<1>4. ASSUME CrcStep(a, x) = CrcStep(b, x) PROVE a = b
  <2>1. Tells(CrcStep(a, x), CrcStep(b, x), Swap(a, x), Swap(b, x))
    BY <1>1, Zenon
  <2>2. Swap(a, x) = Swap(b, x)
    BY <1>4, <2>1, Zenon DEF Tells
  <2>. QED
    BY <2>2, SwapTells
<1>. QED
  BY <1>2, <1>3, <1>4, Zenon

\* the bytes are the same but for byte b and the next
Confined(x, y, b) ==
  /\ x \in Seq(Byte) /\ y \in Seq(Byte) /\ Len(y) = Len(x)
  /\ \A k \in 1..Len(x) : k \notin {b, b + 1} => y[k] = x[k]

\* Up to the bytes that differ the registers are the same.
LEMMA SameBefore ==
  ASSUME NEW x, NEW y, NEW n \in Nat, NEW r, NEW q,
         CrcRun(r, {}, x, 1, n), CrcRun(q, {}, y, 1, n),
         NEW a \in 0..n, \A k \in 1..a : y[k] = x[k]
  PROVE  r[a] = q[a]
<1>. DEFINE Same == {k \in 0..a : r[k] = q[k]}
<1>1. 0 \in Same
  BY DEF CrcRun
<1>2. ASSUME NEW k \in 1..a, k - 1 \in Same PROVE k \in Same
  <2>1. k \in 1..n /\ k \in 0..a /\ 1 + k - 1 = k
    OBVIOUS
  <2>2. r[k] = CrcStep(r[k - 1], x[1 + k - 1]) /\ q[k] = CrcStep(q[k - 1], y[1 + k - 1])
    BY <2>1, Zenon DEF CrcRun
  <2>3. r[k - 1] = q[k - 1] /\ y[k] = x[k]
    BY <1>2
  <2>. QED
    BY <2>1, <2>2, <2>3, Zenon
<1>. HIDE DEF Same
<1>3. \A k \in 0..a : k \in Same
  <2>1. a \in Nat
    OBVIOUS
  <2>. QED
    BY <1>1, <1>2, <2>1, UpTo
<1>4. a \in 0..a
  OBVIOUS
<1>. QED
  BY <1>3, <1>4, Zenon DEF Same

\* If they are the same in the end, they were the same behind the bytes that differ.
LEMMA SameBehind ==
  ASSUME NEW x \in Seq(Byte), NEW y \in Seq(Byte), NEW n \in Nat, Len(x) = n, Len(y) = n,
         NEW r, NEW q, CrcRun(r, {}, x, 1, n), CrcRun(q, {}, y, 1, n), r[n] = q[n],
         NEW a \in 0..n, \A k \in (a + 1)..n : y[k] = x[k]
  PROVE  r[a] = q[a]
<1>. DEFINE Same == {d \in 0..(n - a) : r[n - d] = q[n - d]}
<1>1. 0 \in Same
  <2>1. n - 0 = n /\ 0 \in 0..(n - a)
    OBVIOUS
  <2>. QED
    BY <2>1
<1>2. ASSUME NEW d \in 1..(n - a), d - 1 \in Same PROVE d \in Same
  <2>. DEFINE k == n - (d - 1)
  <2>1. /\ k \in 1..n /\ k \in (a + 1)..n /\ d \in 0..(n - a) /\ 1 + k - 1 = k
        /\ n - d = k - 1 /\ k - 1 \in 0..n
    OBVIOUS
  <2>2. r[k] = q[k]
    BY <1>2
  <2>. HIDE DEF k
  <2>3. r[k] = CrcStep(r[k - 1], x[1 + k - 1]) /\ q[k] = CrcStep(q[k - 1], y[1 + k - 1])
    BY <2>1, Zenon DEF CrcRun
  <2>4. y[k] = x[k] /\ x[k] \in Byte
    <3>1. k \in 1..Len(x)
      BY <2>1
    <3>. QED
      BY <2>1, <3>1, ElementOfSeq
  <2>5. r[k - 1] \in Crc /\ q[k - 1] \in Crc
    BY <2>1, Zenon DEF CrcRun
  <2>6. CrcStep(r[k - 1], x[k]) = CrcStep(q[k - 1], x[k])
    BY <2>1, <2>2, <2>3, <2>4, Zenon
  <2>7. r[k - 1] = q[k - 1]
    BY <2>4, <2>5, <2>6, CrcStepTells
  <2>. QED
    BY <2>1, <2>7
<1>. HIDE DEF Same
<1>3. \A d \in 0..(n - a) : d \in Same
  <2>1. n - a \in Nat
    OBVIOUS
  <2>. QED
    BY <1>1, <1>2, <2>1, UpTo
<1>4. n - a \in 0..(n - a) /\ n - (n - a) = a
  OBVIOUS
<1>5. n - a \in Same
  BY <1>3, <1>4, Zenon
<1>. QED
  BY <1>4, <1>5 DEF Same

\* The CRC notices whatever happens to two neighbouring bytes.
THEOREM CrcNoticesBursts ==
  ASSUME NEW x, NEW y, NEW b \in 1..(Len(x) - 1), Confined(x, y, b), Crc16(x) = Crc16(y)
  PROVE  x = y
<1>. DEFINE n == Len(x)
<1>1. x \in Seq(Byte) /\ y \in Seq(Byte) /\ Len(y) = n /\ n \in Nat /\ n > 1
  BY DEF Confined
<1>2. PICK r : CrcRun(r, {}, x, 1, n) /\ Crc16(x) = r[n]
  BY <1>1, CrcRuns
<1>3. PICK q : CrcRun(q, {}, y, 1, n) /\ Crc16(y) = q[n]
  <2>1. Len(y) > 0
    BY <1>1
  <2>2. \E q : CrcRun(q, {}, y, 1, Len(y)) /\ Crc16(y) = q[Len(y)]
    BY <1>1, <2>1, CrcRuns, Zenon
  <2>. QED
    BY <1>1, <2>2, Zenon
<1>4. /\ b - 1 \in 0..n /\ b + 1 \in 0..n /\ b \in 1..n /\ b + 1 \in 1..n /\ b \in 0..n
      /\ (b + 1) - 1 = b /\ 1 + b - 1 = b /\ 1 + (b + 1) - 1 = b + 1
  BY <1>1
<1>5. \A k \in 1..n : k \notin {b, b + 1} => y[k] = x[k]
  BY Zenon DEF Confined
<1>6. \A k \in 1..(b - 1) : y[k] = x[k]
  BY <1>1, <1>5
<1>7. \A k \in (b + 1 + 1)..n : y[k] = x[k]
  BY <1>1, <1>5
<1>. HIDE DEF n
<1>8. r[b - 1] = q[b - 1]
  BY <1>1, <1>2, <1>3, <1>4, <1>6, SameBefore
<1>9. r[b + 1] = q[b + 1]
  <2>1. r[n] = q[n]
    BY <1>2, <1>3, Zenon
  <2>. QED
    <3>1. Len(x) = n
      BY DEF n
    <3>. QED
      BY <1>1, <1>2, <1>3, <1>4, <1>7, <2>1, <3>1, SameBehind
<1>10. /\ r[b] = CrcStep(r[b - 1], x[b]) /\ q[b] = CrcStep(r[b - 1], y[b])
       /\ r[b + 1] = CrcStep(r[b], x[b + 1]) /\ r[b + 1] = CrcStep(q[b], y[b + 1])
  <2>1. /\ r[b] = CrcStep(r[b - 1], x[1 + b - 1]) /\ q[b] = CrcStep(q[b - 1], y[1 + b - 1])
    BY <1>2, <1>3, <1>4, Zenon DEF CrcRun
  <2>2. /\ r[b + 1] = CrcStep(r[(b + 1) - 1], x[1 + (b + 1) - 1])
        /\ q[b + 1] = CrcStep(q[(b + 1) - 1], y[1 + (b + 1) - 1])
    BY <1>2, <1>3, <1>4, Zenon DEF CrcRun
  <2>. QED
    BY <1>4, <1>8, <1>9, <2>1, <2>2, Zenon
<1>11. r[b - 1] \in Crc /\ r[b] \in Crc /\ q[b] \in Crc
  BY <1>2, <1>3, <1>4, Zenon DEF CrcRun
<1>12. x[b] \in Byte /\ y[b] \in Byte /\ x[b + 1] \in Byte /\ y[b + 1] \in Byte
  BY <1>1, <1>4, ElementOfSeq, Zenon DEF n
<1>13. x[b] = y[b]
  <2>1. CrcStep(r[b], x[b + 1]) = CrcStep(q[b], y[b + 1])
    BY <1>10, Zenon
  <2>2. Low(r[b]) = Low(q[b])
    BY <1>11, <1>12, <2>1, CrcStepTells
  <2>3. Low(CrcStep(r[b - 1], x[b])) = Low(CrcStep(r[b - 1], y[b]))
    BY <1>10, <2>2, Zenon
  <2>. QED
    BY <1>11, <1>12, <2>3, CrcStepTells
<1>14. x[b + 1] = y[b + 1]
  <2>1. CrcStep(r[b], x[b + 1]) = CrcStep(r[b], y[b + 1])
    BY <1>10, <1>13, Zenon
  <2>2. Low(CrcStep(r[b], x[b + 1])) = Low(CrcStep(r[b], y[b + 1]))
    BY <2>1, Zenon
  <2>. QED
    BY <1>11, <1>12, <2>2, CrcStepTells
<1>15. \A k \in 1..n : x[k] = y[k]
  BY <1>5, <1>13, <1>14, Zenon
<1>. QED
  BY <1>1, <1>15, SeqEqual, Zenon DEF n

\* The FCS tells the CRC.
LEMMA FcsTellsCrc ==
  ASSUME NEW x \in Seq(Byte), NEW y \in Seq(Byte), Len(x) > 0, Len(y) > 0, Fcs(x) = Fcs(y)
  PROVE  Crc16(x) = Crc16(y)
<1>0. ASSUME NEW a, NEW b, Low(a) = Low(b), NEW i \in 0..7 PROVE i \in a <=> i \in b
  BY <1>0, Zenon DEF Low
<1>. DEFINE reversed(c) == {15 - i : i \in c}
<1>1. ASSUME NEW z \in Seq(Byte), Len(z) > 0
      PROVE  Crc16(z) \in Crc
  <2>1. PICK r : CrcRun(r, {}, z, 1, Len(z)) /\ Crc16(z) = r[Len(z)]
    BY <1>1, CrcRuns
  <2>2. Len(z) \in 0..Len(z)
    OBVIOUS
  <2>. QED
    BY <2>1, <2>2, Zenon DEF CrcRun
<1>2. ASSUME NEW z PROVE Fcs(z) = <<Low(Shr(reversed(Crc16(z)), 8)), Low(reversed(Crc16(z)))>>
  BY Zenon DEF Fcs
<1>3. /\ Low(Shr(reversed(Crc16(x)), 8)) = Low(Shr(reversed(Crc16(y)), 8))
      /\ Low(reversed(Crc16(x))) = Low(reversed(Crc16(y)))
  <2>1. ASSUME NEW a, NEW b, NEW c, NEW d, <<a, b>> = <<c, d>> PROVE a = c /\ b = d
    BY <2>1
  <2>. QED
    BY <1>2, <2>1, Zenon
<1>4. ASSUME NEW c \in Crc, NEW i \in 0..15 PROVE i \in c <=> 15 - i \in reversed(c)
  <2>1. ASSUME NEW j \in c, 15 - i = 15 - j PROVE i = j
    <3>1. j \in 0..15
      BY DEF Crc
    <3>. QED
      BY <2>1, <3>1
  <2>. QED
    BY <2>1, Zenon
<1>. HIDE DEF reversed
<1>5. ASSUME NEW i \in 0..7, NEW c \in Crc PROVE i \in c <=> 7 - i \in Shr(reversed(c), 8)
  <2>1. 7 - i \in 0..15 /\ 7 - i + 8 = 15 - i /\ i \in 0..15
    OBVIOUS
  <2>2. 7 - i \in Shr(reversed(c), 8) <=> 15 - i \in reversed(c)
    BY <2>1, Zenon DEF Shr
  <2>. QED
    BY <1>4, <2>1, <2>2, Zenon
<1>6. ASSUME NEW i \in 0..15 PROVE i \in Crc16(x) <=> i \in Crc16(y)
  <2>1. Crc16(x) \in Crc /\ Crc16(y) \in Crc
    BY <1>1
  <2>2. CASE i \in 0..7
    <3>1. 7 - i \in 0..7
      BY <2>2
    <3>2. 7 - i \in Shr(reversed(Crc16(x)), 8) <=> 7 - i \in Shr(reversed(Crc16(y)), 8)
      BY <1>0, <1>3, <3>1
    <3>. QED
      BY <1>5, <2>1, <2>2, <3>2, Zenon
  <2>3. CASE i \in 8..15
    <3>1. 15 - i \in 0..7
      BY <2>3
    <3>2. 15 - i \in reversed(Crc16(x)) <=> 15 - i \in reversed(Crc16(y))
      BY <1>0, <1>3, <3>1
    <3>. QED
      BY <1>4, <2>1, <3>2, Zenon
  <2>4. i \in 0..7 \/ i \in 8..15
    OBVIOUS
  <2>. QED
    BY <2>2, <2>3, <2>4, Zenon
<1>. QED
  BY <1>1, <1>6, Zenon DEF Crc

-----------------------------------------------------------------------------
(* Frames that stuffing leaves as they are *)

\* never five ones in a row
FewOnes(bits) == \A i \in 5..Len(bits) : \E j \in (i - 4)..i : bits[j] = 0

\* the first k bits have been written as they are, and their last ones counted
AsIs(r, bits, k) ==
  /\ HasBits(r[k].out, bits, k) /\ r[k].state <= k
  /\ \A j \in (k - r[k].state + 1)..k : bits[j] = 1

\* ax25Stuff then writes what it reads.
LEMMA StuffedAsIs ==
  ASSUME NEW bits \in Seq(Bit), Len(bits) > 0, FewOnes(bits)
  PROVE  Stuffed(bits) = bits
<1>. DEFINE n == Len(bits)
<1>1. PICK r : StuffRun(r, bits) /\ Stuffed(bits) = r[n].out
  <2>1. 0 \in DOMAIN StuffStep
    BY StuffTable
  <2>. QED
    BY <2>1, StuffTable, LoopRuns DEF StuffRun, Stuffed
<1>. DEFINE Plain == {k \in 0..n : AsIs(r, bits, k)}
<1>2. 0 \in Plain
  <2>1. r[0].out = <<>> /\ r[0].state = 0
    BY <1>1, StuffRunTypes
  <2>2. HasBits(<<>>, bits, 0)
    BY DEF HasBits
  <2>3. AsIs(r, bits, 0)
    BY <2>1, <2>2 DEF AsIs
  <2>. QED
    BY <2>3
<1>3. ASSUME NEW k \in 1..n, k - 1 \in Plain PROVE k \in Plain
  <2>. DEFINE out == r[k - 1].out    ones == r[k - 1].state    bit == bits[k]
  <2>1. /\ out \in Seq(Bit) /\ ones \in 0..4 /\ bit \in Bit
        /\ r[k].out = out \o Emitted(bit, ones) /\ r[k].state = NextCount(bit, ones)
    BY <1>1, StuffStepped
  <2>2. /\ HasBits(out, bits, k - 1) /\ ones <= k - 1
        /\ \A j \in (k - 1 - ones + 1)..(k - 1) : bits[j] = 1
    BY <1>3 DEF AsIs
  <2>. HIDE DEF Plain, out, ones
  <2>3. ~Fifth(bit, ones)
    <3>. SUFFICES ASSUME Fifth(bit, ones) PROVE FALSE
      OBVIOUS
    <3>1. ones = 4 /\ bit = 1
      BY DEF Fifth
    <3>2. k \in 5..Len(bits)
      BY <2>2, <3>1
    <3>3. PICK j \in (k - 4)..k : bits[j] = 0
      BY <3>2, Zenon DEF FewOnes
    <3>4. j = k \/ j \in (k - 1 - ones + 1)..(k - 1)
      BY <3>1, <3>2
    <3>. QED
      BY <2>2, <3>1, <3>3, <3>4
  <2>4. Emitted(bit, ones) = <<bit>>
    BY <2>3, Zenon DEF Emitted
  <2>5. HasBits(r[k].out, bits, k)
    BY <2>1, <2>2, <2>4 DEF HasBits
  <2>6. /\ NextCount(bit, ones) <= k
        /\ \A j \in (k - NextCount(bit, ones) + 1)..k : bits[j] = 1
    <3>1. CASE bit = 0
      BY <3>1 DEF NextCount
    <3>2. CASE bit # 0
      <4>1. bit = 1 /\ ones # 4
        BY <2>1, <2>3, <3>2 DEF Bit, Fifth
      <4>2. NextCount(bit, ones) = ones + 1
        BY <4>1 DEF NextCount
      <4>. HIDE DEF bit
      <4>3. ASSUME NEW j \in (k - (ones + 1) + 1)..k PROVE bits[j] = 1
        <5>1. j = k \/ j \in (k - 1 - ones + 1)..(k - 1)
          BY <2>1
        <5>. QED
          BY <2>2, <4>1, <5>1 DEF bit
      <4>4. ones + 1 <= k
        BY <2>1, <2>2
      <4>. QED
        BY <4>2, <4>3, <4>4, Zenon
    <3>. QED
      BY <3>1, <3>2
  <2>7. AsIs(r, bits, k)
    BY <2>1, <2>5, <2>6, Zenon DEF AsIs
  <2>8. k \in 0..n
    OBVIOUS
  <2>. QED
    BY <2>7, <2>8 DEF Plain
<1>. HIDE DEF Plain
<1>4. n \in Plain
  <2>. HIDE DEF n
  <2>1. n \in Nat
    BY DEF n
  <2>2. \A k \in 0..n : k \in Plain
    BY <2>1, <1>2, <1>3, UpTo
  <2>. QED
    BY <2>1, <2>2
<1>5. HasBits(r[n].out, bits, n) /\ r[n].out \in Seq(Bit)
  <2>1. n \in 0..n
    OBVIOUS
  <2>. QED
    BY <1>1, <1>4, <2>1, StuffRunTypes DEF Plain, AsIs
<1>. DEFINE s == r[n].out
<1>. HIDE DEF s
<1>6. s \in Seq(Bit) /\ Len(s) = Len(bits) /\ \A i \in 1..Len(bits) : s[i] = bits[i]
  BY <1>5 DEF s, HasBits
<1>7. s = bits
  BY <1>6, SeqEqual
<1>. QED
  BY <1>1, <1>7 DEF s

\* the pieces of five bits that start in byte x, which byte y follows, are not all ones
Calm(x, y) ==
  /\ ~({3, 4, 5, 6, 7} \subseteq x) /\ ~({2, 3, 4, 5, 6} \subseteq x)
  /\ ~({1, 2, 3, 4, 5} \subseteq x) /\ ~({0, 1, 2, 3, 4} \subseteq x)
  /\ ~({0, 1, 2, 3} \subseteq x /\ 7 \in y) /\ ~({0, 1, 2} \subseteq x /\ {6, 7} \subseteq y)
  /\ ~({0, 1} \subseteq x /\ {5, 6, 7} \subseteq y)
  /\ ~(0 \in x /\ {4, 5, 6, 7} \subseteq y)

CalmBytes(bytes) ==
  /\ \A b \in 1..(Len(bytes) - 1) : Calm(bytes[b], bytes[b + 1])
  /\ Calm(bytes[Len(bytes)], {})

\* Bytes in which no five ones follow each other.
LEMMA CalmFewOnes ==
  ASSUME NEW bytes \in Seq(Byte), CalmBytes(bytes)
  PROVE  FewOnes(ToBits(bytes))
<1>. DEFINE n == Len(bytes)    bits == ToBits(bytes)
<1>1. n \in Nat /\ Len(bits) = 8 * n
  BY ToBitsType
<1>2. ASSUME NEW b \in 1..n, NEW t \in 0..7 PROVE bits[8 * (b - 1) + 1 + t] = 0 <=> 7 - t \notin bytes[b]
  <2>. DEFINE i == 8 * (b - 1) + 1 + t
  <2>1. i \in 1..(8 * n) /\ 7 - ((i - 1) % 8) = 7 - t /\ (i + 7) \div 8 = b
    BY <1>1
  <2>. HIDE DEF i
  <2>2. bits[i] = IF 7 - ((i - 1) % 8) \in bytes[(i + 7) \div 8] THEN 1 ELSE 0
    BY <2>1, ToBitsType
  <2>3. bits[i] = IF 7 - t \in bytes[b] THEN 1 ELSE 0
    BY <2>1, <2>2, Zenon
  <2>4. bits[i] = 0 <=> 7 - t \notin bytes[b]
    BY <2>3
  <2>. QED
    BY <2>4 DEF i
<1>. HIDE DEF bits
<1>3. ASSUME NEW i \in 5..(8 * n) PROVE \E j \in (i - 4)..i : bits[j] = 0
  <2>. DEFINE k == i - 4    b == (k + 7) \div 8    t == (k - 1) % 8
  <2>1. b \in 1..n /\ t \in 0..7 /\ k = 8 * (b - 1) + 1 + t
    BY <1>1
  <2>. HIDE DEF b, t
  <2>2. ASSUME NEW d \in 0..4, t + d \in 0..7, 7 - (t + d) \notin bytes[b]
        PROVE  \E j \in (i - 4)..i : bits[j] = 0
    <3>1. bits[8 * (b - 1) + 1 + (t + d)] = 0
      BY <1>2, <2>1, <2>2
    <3>2. 8 * (b - 1) + 1 + (t + d) \in (i - 4)..i
      BY <2>1
    <3>. QED
      BY <3>1, <3>2
  <2>3. ASSUME NEW d \in 0..4, t + d > 7, 15 - (t + d) \notin bytes[b + 1]
        PROVE  \E j \in (i - 4)..i : bits[j] = 0
    <3>. DEFINE c == b + 1    u == t + d - 8
    <3>1. b < n
      BY <1>1, <2>1, <2>3
    <3>2. /\ c \in 1..n /\ u \in 0..7 /\ 7 - u = 15 - (t + d)
          /\ 8 * (c - 1) + 1 + u \in (i - 4)..i
      BY <1>1, <2>1, <2>3, <3>1
    <3>3. 7 - u \notin bytes[c]
      BY <2>3, <3>2
    <3>. HIDE DEF c, u
    <3>4. bits[8 * (c - 1) + 1 + u] = 0
      BY <1>2, <3>2, <3>3
    <3>. QED
      BY <3>2, <3>4
  <2>4. b < n => Calm(bytes[b], bytes[b + 1])
    BY <1>1, <2>1 DEF CalmBytes
  <2>5. b = n => Calm(bytes[b], {})
    BY DEF CalmBytes
  <2>6. \E d \in 0..4 : \/ t + d \in 0..7 /\ 7 - (t + d) \notin bytes[b]
                        \/ t + d > 7 /\ 15 - (t + d) \notin bytes[b + 1]
    <3>1. t >= 4 => b < n
      BY <1>1, <2>1
    <3>2. t < 4 => \E d \in 0..4 : 7 - (t + d) \notin bytes[b]
      <4>1. Calm(bytes[b], bytes[b + 1]) \/ Calm(bytes[b], {})
        BY <1>1, <2>1, <2>4, <2>5
      <4>. QED
        BY <2>1, <4>1 DEF Calm
    <3>3. t >= 4 => \E d \in 0..4 : \/ t + d \in 0..7 /\ 7 - (t + d) \notin bytes[b]
                                    \/ t + d > 7 /\ 15 - (t + d) \notin bytes[b + 1]
      BY <2>1, <2>4, <3>1, SMTT(30) DEF Calm
    <3>. QED
      BY <2>1, <3>2, <3>3
  <2>. QED
    BY <2>2, <2>3, <2>6
<1>. QED
  BY <1>1, <1>3, Zenon DEF FewOnes, bits

-----------------------------------------------------------------------------
(* The answer to a connection request *)

\* the addresses of a U frame
ToAkito(bytes) ==
  /\ bytes[1] = {1, 7} /\ bytes[2] = {1, 2, 4, 7}
  /\ bytes[3] = {1, 4, 7} /\ bytes[4] = {3, 5, 7}
  /\ bytes[5] = {1, 2, 3, 4, 7} /\ bytes[6] = {6}
  /\ bytes[7] = {5, 6}

ToAtlas(bytes) ==
  /\ bytes[1] = {1, 7} /\ bytes[2] = {3, 5, 7}
  /\ bytes[3] = {3, 4, 7} /\ bytes[4] = {1, 7}
  /\ bytes[5] = {1, 2, 5, 7} /\ bytes[6] = {6}
  /\ bytes[7] = {5, 6}

FromAtlas(bytes) ==
  /\ bytes[8] = {1, 7} /\ bytes[9] = {3, 5, 7}
  /\ bytes[10] = {3, 4, 7} /\ bytes[11] = {1, 7}
  /\ bytes[12] = {1, 2, 5, 7} /\ bytes[13] = {6}
  /\ bytes[14] = {0, 5, 6}

\* The letters of the callsigns, shifted.
LEMMA Letters ==
  /\ Low(Shl(Bits(65), 1)) = {1, 7}
  /\ Low(Shl(Bits(73), 1)) = {1, 4, 7}
  /\ Low(Shl(Bits(75), 1)) = {1, 2, 4, 7}
  /\ Low(Shl(Bits(76), 1)) = {3, 4, 7}
  /\ Low(Shl(Bits(79), 1)) = {1, 2, 3, 4, 7}
  /\ Low(Shl(Bits(83), 1)) = {1, 2, 5, 7}
  /\ Low(Shl(Bits(84), 1)) = {3, 5, 7}
<1>1. Low(Shl(Bits(65), 1)) = {1, 7}
  <2>1. Bits(65) = {0, 6}
    BY DEF Bits, Weight
  <2>. QED
    BY <2>1 DEF Low, Shl
<1>2. Low(Shl(Bits(73), 1)) = {1, 4, 7}
  <2>1. Bits(73) = {0, 3, 6}
    BY DEF Bits, Weight
  <2>. QED
    BY <2>1 DEF Low, Shl
<1>3. Low(Shl(Bits(75), 1)) = {1, 2, 4, 7}
  <2>1. Bits(75) = {0, 1, 3, 6}
    BY DEF Bits, Weight
  <2>. QED
    BY <2>1 DEF Low, Shl
<1>4. Low(Shl(Bits(76), 1)) = {3, 4, 7}
  <2>1. Bits(76) = {2, 3, 6}
    BY DEF Bits, Weight
  <2>. QED
    BY <2>1 DEF Low, Shl
<1>5. Low(Shl(Bits(79), 1)) = {1, 2, 3, 4, 7}
  <2>1. Bits(79) = {0, 1, 2, 3, 6}
    BY DEF Bits, Weight
  <2>. QED
    BY <2>1 DEF Low, Shl
<1>6. Low(Shl(Bits(83), 1)) = {1, 2, 5, 7}
  <2>1. Bits(83) = {0, 1, 4, 6}
    BY DEF Bits, Weight
  <2>. QED
    BY <2>1 DEF Low, Shl
<1>7. Low(Shl(Bits(84), 1)) = {3, 5, 7}
  <2>1. Bits(84) = {2, 4, 6}
    BY DEF Bits, Weight
  <2>. QED
    BY <2>1 DEF Low, Shl
<1>. QED
  BY <1>1, <1>2, <1>3, <1>4, <1>5, <1>6, <1>7

\* The bytes of an address.
LEMMA AddressByte ==
  ASSUME NEW call, Len(call) = 5, NEW last
  PROVE  LET a == AddressBytes(call, last) IN
           /\ \A i \in 1..5 : a[i] = Low(Shl(Bits(call[i]), 1))
           /\ a[6] = {6} /\ a[7] = {5, 6} \cup last
BY DEF AddressBytes

\* a U frame of the library up to its FCS
UBody(call, control) ==
  AddressBytes(call, {}) \o AddressBytes(Atlas, {0}) \o <<control>>

\* an ACK up to its FCS
AckBody(call, poll) == UBody(call, Ack \cup poll)

\* body is two addresses and a control byte
MadeOf(body, a, b, control) ==
  /\ body \in Seq(Byte) /\ Len(body) = 15 /\ body[15] = control
  /\ \A i \in 1..7 : body[i] = a[i] /\ body[7 + i] = b[i]

\* What it is made of.
LEMMA UBodyParts ==
  ASSUME NEW call, NEW control \in Byte
  PROVE  MadeOf(UBody(call, control), AddressBytes(call, {}), AddressBytes(Atlas, {0}),
                control)
<1>. DEFINE a == AddressBytes(call, {})    b == AddressBytes(Atlas, {0})
            c == <<control>>               body == UBody(call, control)
<1>1. a \in Seq(Byte) /\ Len(a) = 7 /\ b \in Seq(Byte) /\ Len(b) = 7
  BY AddressType
<1>2. c \in Seq(Byte) /\ Len(c) = 1 /\ c[1] = control
  OBVIOUS
<1>3. body = (a \o b) \o c
  BY DEF UBody
<1>. HIDE DEF a, b, c, body
<1>. DEFINE d == a \o b
<1>4. Parts(d, a, b)
  BY <1>1, TwoByteParts, Zenon
<1>5. d \in Seq(Byte) /\ body = d \o c
  BY <1>3, <1>4, Zenon DEF Parts
<1>. HIDE DEF d
<1>6. Parts(body, d, c)
  BY <1>2, <1>5, TwoByteParts, Zenon
<1>7. Len(d) = 14 /\ \A i \in 1..7 : d[i] = a[i] /\ d[7 + i] = b[i]
  BY <1>1, <1>4 DEF Parts
<1>8. body \in Seq(Byte) /\ Len(body) = 15 /\ body[15] = c[1]
  BY <1>2, <1>6, <1>7 DEF Parts
<1>9. \A i \in 1..14 : body[i] = d[i]
  BY <1>6, <1>7 DEF Parts
<1>10. ASSUME NEW i \in 1..7 PROVE body[i] = a[i] /\ body[7 + i] = b[i]
  BY <1>7, <1>9
<1>. QED
  BY <1>2, <1>8, <1>10, Zenon DEF MadeOf, a, b, body

\* So is an ACK.
LEMMA AckBodyParts ==
  ASSUME NEW call, NEW poll \in {{}, Poll}
  PROVE  MadeOf(AckBody(call, poll), AddressBytes(call, {}), AddressBytes(Atlas, {0}),
                Ack \cup poll)
<1>1. Ack \cup poll \in Byte
  BY DEF Ack, Poll, Byte
<1>. QED
  BY <1>1, UBodyParts, Zenon DEF AckBody

\* The addresses of an ACK.
LEMMA AckAddresses ==
  ASSUME NEW poll \in {{}, Poll}
  PROVE  /\ ToAkito(AckBody(Akito, poll)) /\ FromAtlas(AckBody(Akito, poll))
         /\ ToAtlas(AckBody(Atlas, poll)) /\ FromAtlas(AckBody(Atlas, poll))
<1>1. ASSUME NEW call \in {Akito, Atlas}
      PROVE  FromAtlas(AckBody(call, poll))
  <2>. DEFINE b == AddressBytes(Atlas, {0})    body == AckBody(call, poll)
  <2>0. MadeOf(body, AddressBytes(call, {}), b, Ack \cup poll)
    BY AckBodyParts, Zenon
  <2>1. \A i \in 1..7 : body[7 + i] = b[i]
    BY <2>0, Zenon DEF MadeOf
  <2>2. /\ Len(Atlas) = 5 /\ Atlas[1] = 65 /\ Atlas[2] = 84 /\ Atlas[3] = 76
        /\ Atlas[4] = 65 /\ Atlas[5] = 83
    BY DEF Atlas
  <2>3. (\A i \in 1..5 : b[i] = Low(Shl(Bits(Atlas[i]), 1))) /\ b[6] = {6} /\ b[7] = {0, 5, 6}
    BY <2>2, AddressByte
  <2>. HIDE DEF b, body
  <2>4. /\ body[8] = b[1] /\ body[9] = b[2] /\ body[10] = b[3] /\ body[11] = b[4]
        /\ body[12] = b[5] /\ body[13] = b[6] /\ body[14] = b[7]
    BY <2>1
  <2>5. /\ b[1] = {1, 7} /\ b[2] = {3, 5, 7} /\ b[3] = {3, 4, 7} /\ b[4] = {1, 7}
        /\ b[5] = {1, 2, 5, 7}
    BY <2>2, <2>3, Letters
  <2>. QED
    BY <2>3, <2>4, <2>5 DEF FromAtlas, body
<1>2. ToAkito(AckBody(Akito, poll))
  <2>. DEFINE a == AddressBytes(Akito, {})    body == AckBody(Akito, poll)
  <2>0. MadeOf(body, a, AddressBytes(Atlas, {0}), Ack \cup poll)
    BY AckBodyParts, Zenon
  <2>1. \A i \in 1..7 : body[i] = a[i]
    BY <2>0, Zenon DEF MadeOf
  <2>2. /\ Len(Akito) = 5 /\ Akito[1] = 65 /\ Akito[2] = 75 /\ Akito[3] = 73
        /\ Akito[4] = 84 /\ Akito[5] = 79
    BY DEF Akito
  <2>3. (\A i \in 1..5 : a[i] = Low(Shl(Bits(Akito[i]), 1))) /\ a[6] = {6} /\ a[7] = {5, 6}
    BY <2>2, AddressByte
  <2>. HIDE DEF a, body
  <2>4. /\ body[1] = a[1] /\ body[2] = a[2] /\ body[3] = a[3] /\ body[4] = a[4]
        /\ body[5] = a[5] /\ body[6] = a[6] /\ body[7] = a[7]
    BY <2>1
  <2>5. /\ a[1] = {1, 7} /\ a[2] = {1, 2, 4, 7} /\ a[3] = {1, 4, 7} /\ a[4] = {3, 5, 7}
        /\ a[5] = {1, 2, 3, 4, 7}
    BY <2>2, <2>3, Letters
  <2>. QED
    BY <2>3, <2>4, <2>5 DEF ToAkito, body
<1>3. ToAtlas(AckBody(Atlas, poll))
  <2>. DEFINE a == AddressBytes(Atlas, {})    body == AckBody(Atlas, poll)
  <2>0. MadeOf(body, a, AddressBytes(Atlas, {0}), Ack \cup poll)
    BY AckBodyParts, Zenon
  <2>1. \A i \in 1..7 : body[i] = a[i]
    BY <2>0, Zenon DEF MadeOf
  <2>2. /\ Len(Atlas) = 5 /\ Atlas[1] = 65 /\ Atlas[2] = 84 /\ Atlas[3] = 76
        /\ Atlas[4] = 65 /\ Atlas[5] = 83
    BY DEF Atlas
  <2>3. (\A i \in 1..5 : a[i] = Low(Shl(Bits(Atlas[i]), 1))) /\ a[6] = {6} /\ a[7] = {5, 6}
    BY <2>2, AddressByte
  <2>. HIDE DEF a, body
  <2>4. /\ body[1] = a[1] /\ body[2] = a[2] /\ body[3] = a[3] /\ body[4] = a[4]
        /\ body[5] = a[5] /\ body[6] = a[6] /\ body[7] = a[7]
    BY <2>1
  <2>5. /\ a[1] = {1, 7} /\ a[2] = {3, 5, 7} /\ a[3] = {3, 4, 7} /\ a[4] = {1, 7}
        /\ a[5] = {1, 2, 5, 7}
    BY <2>2, <2>3, Letters
  <2>. QED
    BY <2>3, <2>4, <2>5 DEF ToAtlas, body
<1>. QED
  BY <1>1, <1>2, <1>3

\* r is the register over the addresses
Registers(r, bytes) ==
  r[0] = {} /\ \A k \in 1..15 : r[k] = CrcStep(r[k - 1], bytes[k])

\* The register behind the addresses of an ACK to the satellite.
LEMMA AkitoRegister ==
  ASSUME NEW r, NEW bytes, Registers(r, bytes), ToAkito(bytes), FromAtlas(bytes)
  PROVE  r[14] = {0, 6, 8, 14}
<1>0. /\ r[0] = {} /\ \A k \in 1..15 : r[k] = CrcStep(r[k - 1], bytes[k])
  BY DEF Registers
<1>1. r[1] = {1, 3, 6, 7, 8, 12, 13, 15}
  <2>1. CrcStep({}, {1, 7})
          = {1, 3, 6, 7, 8, 12, 13, 15}
    BY DEF CrcStep, Xor, Shl, Shr, Low
  <2>2. r[1] = CrcStep(r[0], bytes[1])
    BY <1>0
  <2>3. bytes[1] = {1, 7}
    BY Zenon DEF ToAkito
  <2>. QED
    BY <1>0, <2>1, <2>2, <2>3, ZenonT(60)
<1>2. r[2] = {0, 2, 7, 9, 10, 11, 12, 15}
  <2>1. CrcStep({1, 3, 6, 7, 8, 12, 13, 15}, {1, 2, 4, 7})
          = {0, 2, 7, 9, 10, 11, 12, 15}
    BY DEF CrcStep, Xor, Shl, Shr, Low
  <2>2. r[2] = CrcStep(r[1], bytes[2])
    BY <1>0
  <2>3. bytes[2] = {1, 2, 4, 7}
    BY Zenon DEF ToAkito
  <2>. QED
    BY <1>1, <2>1, <2>2, <2>3, ZenonT(60)
<1>3. r[3] = {2, 3, 7, 10, 14}
  <2>1. CrcStep({0, 2, 7, 9, 10, 11, 12, 15}, {1, 4, 7})
          = {2, 3, 7, 10, 14}
    BY DEF CrcStep, Xor, Shl, Shr, Low
  <2>2. r[3] = CrcStep(r[2], bytes[3])
    BY <1>0
  <2>3. bytes[3] = {1, 4, 7}
    BY Zenon DEF ToAkito
  <2>. QED
    BY <1>2, <2>1, <2>2, <2>3, ZenonT(60)
<1>4. r[4] = {1, 5, 7, 12, 13, 15}
  <2>1. CrcStep({2, 3, 7, 10, 14}, {3, 5, 7})
          = {1, 5, 7, 12, 13, 15}
    BY DEF CrcStep, Xor, Shl, Shr, Low
  <2>2. r[4] = CrcStep(r[3], bytes[4])
    BY <1>0
  <2>3. bytes[4] = {3, 5, 7}
    BY Zenon DEF ToAkito
  <2>. QED
    BY <1>3, <2>1, <2>2, <2>3, ZenonT(60)
<1>5. r[5] = {2, 3, 5, 7, 8, 9, 10, 13, 14}
  <2>1. CrcStep({1, 5, 7, 12, 13, 15}, {1, 2, 3, 4, 7})
          = {2, 3, 5, 7, 8, 9, 10, 13, 14}
    BY DEF CrcStep, Xor, Shl, Shr, Low
  <2>2. r[5] = CrcStep(r[4], bytes[5])
    BY <1>0
  <2>3. bytes[5] = {1, 2, 3, 4, 7}
    BY Zenon DEF ToAkito
  <2>. QED
    BY <1>4, <2>1, <2>2, <2>3, ZenonT(60)
<1>6. r[6] = {0, 2, 7, 11, 12, 13, 14, 15}
  <2>1. CrcStep({2, 3, 5, 7, 8, 9, 10, 13, 14}, {6})
          = {0, 2, 7, 11, 12, 13, 14, 15}
    BY DEF CrcStep, Xor, Shl, Shr, Low
  <2>2. r[6] = CrcStep(r[5], bytes[6])
    BY <1>0
  <2>3. bytes[6] = {6}
    BY Zenon DEF ToAkito
  <2>. QED
    BY <1>5, <2>1, <2>2, <2>3, ZenonT(60)
<1>7. r[7] = {0, 4, 5, 7, 8, 9, 10, 15}
  <2>1. CrcStep({0, 2, 7, 11, 12, 13, 14, 15}, {5, 6})
          = {0, 4, 5, 7, 8, 9, 10, 15}
    BY DEF CrcStep, Xor, Shl, Shr, Low
  <2>2. r[7] = CrcStep(r[6], bytes[7])
    BY <1>0
  <2>3. bytes[7] = {5, 6}
    BY Zenon DEF ToAkito
  <2>. QED
    BY <1>6, <2>1, <2>2, <2>3, ZenonT(60)
<1>8. r[8] = {0, 2, 5, 7, 8, 13, 14, 15}
  <2>1. CrcStep({0, 4, 5, 7, 8, 9, 10, 15}, {1, 7})
          = {0, 2, 5, 7, 8, 13, 14, 15}
    BY DEF CrcStep, Xor, Shl, Shr, Low
  <2>2. r[8] = CrcStep(r[7], bytes[8])
    BY <1>0
  <2>3. bytes[8] = {1, 7}
    BY Zenon DEF FromAtlas
  <2>. QED
    BY <1>7, <2>1, <2>2, <2>3, ZenonT(60)
<1>9. r[9] = {0, 2, 3, 5, 6, 7, 10, 11, 12, 13, 14}
  <2>1. CrcStep({0, 2, 5, 7, 8, 13, 14, 15}, {3, 5, 7})
          = {0, 2, 3, 5, 6, 7, 10, 11, 12, 13, 14}
    BY DEF CrcStep, Xor, Shl, Shr, Low
  <2>2. r[9] = CrcStep(r[8], bytes[9])
    BY <1>0
  <2>3. bytes[9] = {3, 5, 7}
    BY Zenon DEF FromAtlas
  <2>. QED
    BY <1>8, <2>1, <2>2, <2>3, ZenonT(60)
<1>10. r[10] = {1, 3, 5, 7, 12, 14}
  <2>1. CrcStep({0, 2, 3, 5, 6, 7, 10, 11, 12, 13, 14}, {3, 4, 7})
          = {1, 3, 5, 7, 12, 14}
    BY DEF CrcStep, Xor, Shl, Shr, Low
  <2>2. r[10] = CrcStep(r[9], bytes[10])
    BY <1>0
  <2>3. bytes[10] = {3, 4, 7}
    BY Zenon DEF FromAtlas
  <2>. QED
    BY <1>9, <2>1, <2>2, <2>3, ZenonT(60)
<1>11. r[11] = {0, 1, 2, 3, 4, 5, 8, 14}
  <2>1. CrcStep({1, 3, 5, 7, 12, 14}, {1, 7})
          = {0, 1, 2, 3, 4, 5, 8, 14}
    BY DEF CrcStep, Xor, Shl, Shr, Low
  <2>2. r[11] = CrcStep(r[10], bytes[11])
    BY <1>0
  <2>3. bytes[11] = {1, 7}
    BY Zenon DEF FromAtlas
  <2>. QED
    BY <1>10, <2>1, <2>2, <2>3, ZenonT(60)
<1>12. r[12] = {0, 3, 6, 7, 9, 12, 13, 15}
  <2>1. CrcStep({0, 1, 2, 3, 4, 5, 8, 14}, {1, 2, 5, 7})
          = {0, 3, 6, 7, 9, 12, 13, 15}
    BY DEF CrcStep, Xor, Shl, Shr, Low
  <2>2. r[12] = CrcStep(r[11], bytes[12])
    BY <1>0
  <2>3. bytes[12] = {1, 2, 5, 7}
    BY Zenon DEF FromAtlas
  <2>. QED
    BY <1>11, <2>1, <2>2, <2>3, ZenonT(60)
<1>13. r[13] = {0, 2, 3, 4, 6, 9, 10}
  <2>1. CrcStep({0, 3, 6, 7, 9, 12, 13, 15}, {6})
          = {0, 2, 3, 4, 6, 9, 10}
    BY DEF CrcStep, Xor, Shl, Shr, Low
  <2>2. r[13] = CrcStep(r[12], bytes[13])
    BY <1>0
  <2>3. bytes[13] = {6}
    BY Zenon DEF FromAtlas
  <2>. QED
    BY <1>12, <2>1, <2>2, <2>3, ZenonT(60)
<1>14. r[14] = {0, 6, 8, 14}
  <2>1. CrcStep({0, 2, 3, 4, 6, 9, 10}, {0, 5, 6})
          = {0, 6, 8, 14}
    BY DEF CrcStep, Xor, Shl, Shr, Low
  <2>2. r[14] = CrcStep(r[13], bytes[14])
    BY <1>0
  <2>3. bytes[14] = {0, 5, 6}
    BY Zenon DEF FromAtlas
  <2>. QED
    BY <1>13, <2>1, <2>2, <2>3, ZenonT(60)
<1>. QED
  BY <1>14

\* The register behind the addresses of an ACK to the ground station.
LEMMA AtlasRegister ==
  ASSUME NEW r, NEW bytes, Registers(r, bytes), ToAtlas(bytes), FromAtlas(bytes)
  PROVE  r[14] = {0, 3, 4, 5, 6, 10, 11, 13, 15}
<1>0. /\ r[0] = {} /\ \A k \in 1..15 : r[k] = CrcStep(r[k - 1], bytes[k])
  BY DEF Registers
<1>1. r[1] = {1, 3, 6, 7, 8, 12, 13, 15}
  <2>1. CrcStep({}, {1, 7})
          = {1, 3, 6, 7, 8, 12, 13, 15}
    BY DEF CrcStep, Xor, Shl, Shr, Low
  <2>2. r[1] = CrcStep(r[0], bytes[1])
    BY <1>0
  <2>3. bytes[1] = {1, 7}
    BY Zenon DEF ToAtlas
  <2>. QED
    BY <1>0, <2>1, <2>2, <2>3, ZenonT(60)
<1>2. r[2] = {3, 4, 8, 11, 14}
  <2>1. CrcStep({1, 3, 6, 7, 8, 12, 13, 15}, {3, 5, 7})
          = {3, 4, 8, 11, 14}
    BY DEF CrcStep, Xor, Shl, Shr, Low
  <2>2. r[2] = CrcStep(r[1], bytes[2])
    BY <1>0
  <2>3. bytes[2] = {3, 5, 7}
    BY Zenon DEF ToAtlas
  <2>. QED
    BY <1>1, <2>1, <2>2, <2>3, ZenonT(60)
<1>3. r[3] = {2, 3, 4, 6, 8, 9, 14, 15}
  <2>1. CrcStep({3, 4, 8, 11, 14}, {3, 4, 7})
          = {2, 3, 4, 6, 8, 9, 14, 15}
    BY DEF CrcStep, Xor, Shl, Shr, Low
  <2>2. r[3] = CrcStep(r[2], bytes[3])
    BY <1>0
  <2>3. bytes[3] = {3, 4, 7}
    BY Zenon DEF ToAtlas
  <2>. QED
    BY <1>2, <2>1, <2>2, <2>3, ZenonT(60)
<1>4. r[4] = {0, 2, 5, 6, 7, 10}
  <2>1. CrcStep({2, 3, 4, 6, 8, 9, 14, 15}, {1, 7})
          = {0, 2, 5, 6, 7, 10}
    BY DEF CrcStep, Xor, Shl, Shr, Low
  <2>2. r[4] = CrcStep(r[3], bytes[4])
    BY <1>0
  <2>3. bytes[4] = {1, 7}
    BY Zenon DEF ToAtlas
  <2>. QED
    BY <1>3, <2>1, <2>2, <2>3, ZenonT(60)
<1>5. r[5] = {3, 5, 7, 12, 13, 14}
  <2>1. CrcStep({0, 2, 5, 6, 7, 10}, {1, 2, 5, 7})
          = {3, 5, 7, 12, 13, 14}
    BY DEF CrcStep, Xor, Shl, Shr, Low
  <2>2. r[5] = CrcStep(r[4], bytes[5])
    BY <1>0
  <2>3. bytes[5] = {1, 2, 5, 7}
    BY Zenon DEF ToAtlas
  <2>. QED
    BY <1>4, <2>1, <2>2, <2>3, ZenonT(60)
<1>6. r[6] = {0, 1, 4, 6, 9, 10, 11, 12, 15}
  <2>1. CrcStep({3, 5, 7, 12, 13, 14}, {6})
          = {0, 1, 4, 6, 9, 10, 11, 12, 15}
    BY DEF CrcStep, Xor, Shl, Shr, Low
  <2>2. r[6] = CrcStep(r[5], bytes[6])
    BY <1>0
  <2>3. bytes[6] = {6}
    BY Zenon DEF ToAtlas
  <2>. QED
    BY <1>5, <2>1, <2>2, <2>3, ZenonT(60)
<1>7. r[7] = {0, 4, 6, 7, 8, 10, 11, 12, 14}
  <2>1. CrcStep({0, 1, 4, 6, 9, 10, 11, 12, 15}, {5, 6})
          = {0, 4, 6, 7, 8, 10, 11, 12, 14}
    BY DEF CrcStep, Xor, Shl, Shr, Low
  <2>2. r[7] = CrcStep(r[6], bytes[7])
    BY <1>0
  <2>3. bytes[7] = {5, 6}
    BY Zenon DEF ToAtlas
  <2>. QED
    BY <1>6, <2>1, <2>2, <2>3, ZenonT(60)
<1>8. r[8] = {1, 4, 7, 8, 9, 11, 13, 14, 15}
  <2>1. CrcStep({0, 4, 6, 7, 8, 10, 11, 12, 14}, {1, 7})
          = {1, 4, 7, 8, 9, 11, 13, 14, 15}
    BY DEF CrcStep, Xor, Shl, Shr, Low
  <2>2. r[8] = CrcStep(r[7], bytes[8])
    BY <1>0
  <2>3. bytes[8] = {1, 7}
    BY Zenon DEF FromAtlas
  <2>. QED
    BY <1>7, <2>1, <2>2, <2>3, ZenonT(60)
<1>9. r[9] = {0, 1, 2, 5, 7, 9, 11, 13, 14, 15}
  <2>1. CrcStep({1, 4, 7, 8, 9, 11, 13, 14, 15}, {3, 5, 7})
          = {0, 1, 2, 5, 7, 9, 11, 13, 14, 15}
    BY DEF CrcStep, Xor, Shl, Shr, Low
  <2>2. r[9] = CrcStep(r[8], bytes[9])
    BY <1>0
  <2>3. bytes[9] = {3, 5, 7}
    BY Zenon DEF FromAtlas
  <2>. QED
    BY <1>8, <2>1, <2>2, <2>3, ZenonT(60)
<1>10. r[10] = {0, 2, 4, 6, 7, 8, 11, 12, 13, 14, 15}
  <2>1. CrcStep({0, 1, 2, 5, 7, 9, 11, 13, 14, 15}, {3, 4, 7})
          = {0, 2, 4, 6, 7, 8, 11, 12, 13, 14, 15}
    BY DEF CrcStep, Xor, Shl, Shr, Low
  <2>2. r[10] = CrcStep(r[9], bytes[10])
    BY <1>0
  <2>3. bytes[10] = {3, 4, 7}
    BY Zenon DEF FromAtlas
  <2>. QED
    BY <1>9, <2>1, <2>2, <2>3, ZenonT(60)
<1>11. r[11] = {2, 3, 4, 5, 6, 7, 9, 11, 12}
  <2>1. CrcStep({0, 2, 4, 6, 7, 8, 11, 12, 13, 14, 15}, {1, 7})
          = {2, 3, 4, 5, 6, 7, 9, 11, 12}
    BY DEF CrcStep, Xor, Shl, Shr, Low
  <2>2. r[11] = CrcStep(r[10], bytes[11])
    BY <1>0
  <2>3. bytes[11] = {1, 7}
    BY Zenon DEF FromAtlas
  <2>. QED
    BY <1>10, <2>1, <2>2, <2>3, ZenonT(60)
<1>12. r[12] = {0, 1, 2, 4, 6, 9, 11, 12, 15}
  <2>1. CrcStep({2, 3, 4, 5, 6, 7, 9, 11, 12}, {1, 2, 5, 7})
          = {0, 1, 2, 4, 6, 9, 11, 12, 15}
    BY DEF CrcStep, Xor, Shl, Shr, Low
  <2>2. r[12] = CrcStep(r[11], bytes[12])
    BY <1>0
  <2>3. bytes[12] = {1, 2, 5, 7}
    BY Zenon DEF FromAtlas
  <2>. QED
    BY <1>11, <2>1, <2>2, <2>3, ZenonT(60)
<1>13. r[13] = {0, 1, 2, 4, 5, 8, 10, 11, 12, 13}
  <2>1. CrcStep({0, 1, 2, 4, 6, 9, 11, 12, 15}, {6})
          = {0, 1, 2, 4, 5, 8, 10, 11, 12, 13}
    BY DEF CrcStep, Xor, Shl, Shr, Low
  <2>2. r[13] = CrcStep(r[12], bytes[13])
    BY <1>0
  <2>3. bytes[13] = {6}
    BY Zenon DEF FromAtlas
  <2>. QED
    BY <1>12, <2>1, <2>2, <2>3, ZenonT(60)
<1>14. r[14] = {0, 3, 4, 5, 6, 10, 11, 13, 15}
  <2>1. CrcStep({0, 1, 2, 4, 5, 8, 10, 11, 12, 13}, {0, 5, 6})
          = {0, 3, 4, 5, 6, 10, 11, 13, 15}
    BY DEF CrcStep, Xor, Shl, Shr, Low
  <2>2. r[14] = CrcStep(r[13], bytes[14])
    BY <1>0
  <2>3. bytes[14] = {0, 5, 6}
    BY Zenon DEF FromAtlas
  <2>. QED
    BY <1>13, <2>1, <2>2, <2>3, ZenonT(60)
<1>. QED
  BY <1>14

\* the two bytes of its FCS
AckFcs(call, poll) ==
  IF call = Akito
  THEN IF poll = {} THEN <<{2}, {1, 5, 7}>> ELSE <<{3, 7}, {1, 3, 5, 6, 7}>>
  ELSE IF poll = {} THEN <<{0, 2, 6, 7}, {1, 3, 7}>> ELSE <<{0, 3, 6}, {1, 6, 7}>>

\* The FCS, from the register.
LEMMA FcsOf ==
  ASSUME NEW bytes, NEW reversed, {15 - i : i \in Crc16(bytes)} = reversed
  PROVE  Fcs(bytes) = <<Low(Shr(reversed, 8)), Low(reversed)>>
BY Zenon DEF Fcs

\* The control byte of an ACK, without and with the poll bit.
LEMMA AckControl == Ack \cup {} = {0, 1, 5, 6} /\ Ack \cup Poll = {0, 1, 4, 5, 6}
BY DEF Ack, Poll

\* The FCS of each of the four ACKs.
LEMMA AckFcsIs ==
  ASSUME NEW call \in {Akito, Atlas}, NEW poll \in {{}, Poll}
  PROVE  Fcs(AckBody(call, poll)) = AckFcs(call, poll)
<1>. DEFINE body == AckBody(call, poll)
<1>1. body \in Seq(Byte) /\ Len(body) = 15 /\ body[15] = Ack \cup poll
  <2>1. MadeOf(body, AddressBytes(call, {}), AddressBytes(Atlas, {0}), Ack \cup poll)
    BY AckBodyParts, Zenon
  <2>. QED
    BY <2>1, Zenon DEF MadeOf
<1>2. PICK r : CrcRun(r, {}, body, 1, 15) /\ Crc16(body) = r[15]
  <2>1. Len(body) > 0
    BY <1>1
  <2>2. PICK r : CrcRun(r, {}, body, 1, Len(body)) /\ Crc16(body) = r[Len(body)]
    BY <1>1, <2>1, CrcRuns, Zenon
  <2>. QED
    BY <1>1, <2>2, Zenon
<1>3. Registers(r, body)
  <2>1. ASSUME NEW k \in 1..15 PROVE r[k] = CrcStep(r[k - 1], body[k])
    <3>1. 1 + k - 1 = k
      OBVIOUS
    <3>. QED
      BY <1>2, <3>1, Zenon DEF CrcRun
  <2>. QED
    BY <1>2, <2>1, Zenon DEF CrcRun, Registers
<1>4. r[15] = CrcStep(r[14], Ack \cup poll)
  <2>1. 15 \in 1..15 /\ 15 - 1 = 14
    OBVIOUS
  <2>. QED
    BY <1>1, <1>3, <2>1, Zenon DEF Registers
<1>5. Akito # Atlas
  <2>1. Akito[2] = 75 /\ Atlas[2] = 84
    BY DEF Akito, Atlas
  <2>. QED
    BY <2>1
<1>. HIDE DEF body
<1>6. ASSUME call = Akito, poll = {}
      PROVE  Fcs(AckBody(call, poll)) = AckFcs(call, poll)
  <2>1. r[14] = {0, 6, 8, 14}
    <3>1. ToAkito(body) /\ FromAtlas(body)
      BY <1>6, AckAddresses, Zenon DEF body
    <3>. QED
      BY <1>3, <3>1, AkitoRegister, Zenon
  <2>2. Ack \cup poll = {0, 1, 5, 6}
    BY <1>6, AckControl, Zenon
  <2>3. CrcStep({0, 6, 8, 14}, {0, 1, 5, 6})
          = {5, 8, 10, 14}
    BY DEF CrcStep, Xor, Shl, Shr, Low
  <2>4. Crc16(body) = {5, 8, 10, 14}
    BY <1>2, <1>4, <2>1, <2>2, <2>3, ZenonT(60)
  <2>5. {15 - i : i \in {5, 8, 10, 14}} = {1, 5, 7, 10}
    OBVIOUS
  <2>6. Low(Shr({1, 5, 7, 10}, 8)) = {2}
    BY DEF Low, Shr
  <2>7. Low({1, 5, 7, 10}) = {1, 5, 7}
    BY DEF Low
  <2>8. Fcs(body) = <<{2}, {1, 5, 7}>>
    <3>1. {15 - i : i \in Crc16(body)} = {1, 5, 7, 10}
      BY <2>4, <2>5, Zenon
    <3>2. Fcs(body) = <<Low(Shr({1, 5, 7, 10}, 8)),
                        Low({1, 5, 7, 10})>>
      BY <3>1, FcsOf, Zenon
    <3>. QED
      BY <2>6, <2>7, <3>2, Zenon
  <2>9. AckFcs(call, poll) = <<{2}, {1, 5, 7}>>
    BY <1>5, <1>6 DEF AckFcs, Poll
  <2>. QED
    BY <2>8, <2>9, Zenon DEF body
<1>7. ASSUME call = Akito, poll = Poll
      PROVE  Fcs(AckBody(call, poll)) = AckFcs(call, poll)
  <2>1. r[14] = {0, 6, 8, 14}
    <3>1. ToAkito(body) /\ FromAtlas(body)
      BY <1>7, AckAddresses, Zenon DEF body
    <3>. QED
      BY <1>3, <3>1, AkitoRegister, Zenon
  <2>2. Ack \cup poll = {0, 1, 4, 5, 6}
    BY <1>7, AckControl, Zenon
  <2>3. CrcStep({0, 6, 8, 14}, {0, 1, 4, 5, 6})
          = {0, 4, 8, 9, 10, 12, 14}
    BY DEF CrcStep, Xor, Shl, Shr, Low
  <2>4. Crc16(body) = {0, 4, 8, 9, 10, 12, 14}
    BY <1>2, <1>4, <2>1, <2>2, <2>3, ZenonT(60)
  <2>5. {15 - i : i \in {0, 4, 8, 9, 10, 12, 14}} = {1, 3, 5, 6, 7, 11, 15}
    OBVIOUS
  <2>6. Low(Shr({1, 3, 5, 6, 7, 11, 15}, 8)) = {3, 7}
    BY DEF Low, Shr
  <2>7. Low({1, 3, 5, 6, 7, 11, 15}) = {1, 3, 5, 6, 7}
    BY DEF Low
  <2>8. Fcs(body) = <<{3, 7}, {1, 3, 5, 6, 7}>>
    <3>1. {15 - i : i \in Crc16(body)} = {1, 3, 5, 6, 7, 11, 15}
      BY <2>4, <2>5, Zenon
    <3>2. Fcs(body) = <<Low(Shr({1, 3, 5, 6, 7, 11, 15}, 8)),
                        Low({1, 3, 5, 6, 7, 11, 15})>>
      BY <3>1, FcsOf, Zenon
    <3>. QED
      BY <2>6, <2>7, <3>2, Zenon
  <2>9. AckFcs(call, poll) = <<{3, 7}, {1, 3, 5, 6, 7}>>
    BY <1>5, <1>7 DEF AckFcs, Poll
  <2>. QED
    BY <2>8, <2>9, Zenon DEF body
<1>8. ASSUME call = Atlas, poll = {}
      PROVE  Fcs(AckBody(call, poll)) = AckFcs(call, poll)
  <2>1. r[14] = {0, 3, 4, 5, 6, 10, 11, 13, 15}
    <3>1. ToAtlas(body) /\ FromAtlas(body)
      BY <1>8, AckAddresses, Zenon DEF body
    <3>. QED
      BY <1>3, <3>1, AtlasRegister, Zenon
  <2>2. Ack \cup poll = {0, 1, 5, 6}
    BY <1>8, AckControl, Zenon
  <2>3. CrcStep({0, 3, 4, 5, 6, 10, 11, 13, 15}, {0, 1, 5, 6})
          = {0, 1, 5, 7, 8, 12, 14}
    BY DEF CrcStep, Xor, Shl, Shr, Low
  <2>4. Crc16(body) = {0, 1, 5, 7, 8, 12, 14}
    BY <1>2, <1>4, <2>1, <2>2, <2>3, ZenonT(60)
  <2>5. {15 - i : i \in {0, 1, 5, 7, 8, 12, 14}} = {1, 3, 7, 8, 10, 14, 15}
    OBVIOUS
  <2>6. Low(Shr({1, 3, 7, 8, 10, 14, 15}, 8)) = {0, 2, 6, 7}
    BY DEF Low, Shr
  <2>7. Low({1, 3, 7, 8, 10, 14, 15}) = {1, 3, 7}
    BY DEF Low
  <2>8. Fcs(body) = <<{0, 2, 6, 7}, {1, 3, 7}>>
    <3>1. {15 - i : i \in Crc16(body)} = {1, 3, 7, 8, 10, 14, 15}
      BY <2>4, <2>5, Zenon
    <3>2. Fcs(body) = <<Low(Shr({1, 3, 7, 8, 10, 14, 15}, 8)),
                        Low({1, 3, 7, 8, 10, 14, 15})>>
      BY <3>1, FcsOf, Zenon
    <3>. QED
      BY <2>6, <2>7, <3>2, Zenon
  <2>9. AckFcs(call, poll) = <<{0, 2, 6, 7}, {1, 3, 7}>>
    BY <1>5, <1>8 DEF AckFcs, Poll
  <2>. QED
    BY <2>8, <2>9, Zenon DEF body
<1>9. ASSUME call = Atlas, poll = Poll
      PROVE  Fcs(AckBody(call, poll)) = AckFcs(call, poll)
  <2>1. r[14] = {0, 3, 4, 5, 6, 10, 11, 13, 15}
    <3>1. ToAtlas(body) /\ FromAtlas(body)
      BY <1>9, AckAddresses, Zenon DEF body
    <3>. QED
      BY <1>3, <3>1, AtlasRegister, Zenon
  <2>2. Ack \cup poll = {0, 1, 4, 5, 6}
    BY <1>9, AckControl, Zenon
  <2>3. CrcStep({0, 3, 4, 5, 6, 10, 11, 13, 15}, {0, 1, 4, 5, 6})
          = {1, 4, 7, 8, 9, 14}
    BY DEF CrcStep, Xor, Shl, Shr, Low
  <2>4. Crc16(body) = {1, 4, 7, 8, 9, 14}
    BY <1>2, <1>4, <2>1, <2>2, <2>3, ZenonT(60)
  <2>5. {15 - i : i \in {1, 4, 7, 8, 9, 14}} = {1, 6, 7, 8, 11, 14}
    OBVIOUS
  <2>6. Low(Shr({1, 6, 7, 8, 11, 14}, 8)) = {0, 3, 6}
    BY DEF Low, Shr
  <2>7. Low({1, 6, 7, 8, 11, 14}) = {1, 6, 7}
    BY DEF Low
  <2>8. Fcs(body) = <<{0, 3, 6}, {1, 6, 7}>>
    <3>1. {15 - i : i \in Crc16(body)} = {1, 6, 7, 8, 11, 14}
      BY <2>4, <2>5, Zenon
    <3>2. Fcs(body) = <<Low(Shr({1, 6, 7, 8, 11, 14}, 8)),
                        Low({1, 6, 7, 8, 11, 14})>>
      BY <3>1, FcsOf, Zenon
    <3>. QED
      BY <2>6, <2>7, <3>2, Zenon
  <2>9. AckFcs(call, poll) = <<{0, 3, 6}, {1, 6, 7}>>
    BY <1>5, <1>9 DEF AckFcs, Poll
  <2>. QED
    BY <2>8, <2>9, Zenon DEF body
<1>. QED
  BY <1>6, <1>7, <1>8, <1>9, Zenon

\* No five ones in the addresses follow each other, nor in any of the four ends.
LEMMA CalmAddresses ==
  ASSUME NEW bytes, ToAkito(bytes) \/ ToAtlas(bytes), FromAtlas(bytes)
  PROVE  \A b \in 1..13 : Calm(bytes[b], bytes[b + 1])
<1>1. ASSUME NEW b \in 1..13, b <= 6 PROVE Calm(bytes[b], bytes[b + 1])
  <2>1. CASE ToAkito(bytes)
    <3>1. Calm(bytes[1], bytes[2])
      BY <2>1, SMT DEF Calm, ToAkito
    <3>2. Calm(bytes[2], bytes[3])
      BY <2>1, SMT DEF Calm, ToAkito
    <3>3. Calm(bytes[3], bytes[4])
      BY <2>1, SMT DEF Calm, ToAkito
    <3>4. Calm(bytes[4], bytes[5])
      BY <2>1, SMT DEF Calm, ToAkito
    <3>5. Calm(bytes[5], bytes[6])
      BY <2>1, SMT DEF Calm, ToAkito
    <3>6. Calm(bytes[6], bytes[7])
      BY <2>1, SMT DEF Calm, ToAkito
    <3>. QED
      BY <1>1, <3>1, <3>2, <3>3, <3>4, <3>5, <3>6
  <2>2. CASE ToAtlas(bytes)
    <3>1. Calm(bytes[1], bytes[2])
      BY <2>2, SMT DEF Calm, ToAtlas
    <3>2. Calm(bytes[2], bytes[3])
      BY <2>2, SMT DEF Calm, ToAtlas
    <3>3. Calm(bytes[3], bytes[4])
      BY <2>2, SMT DEF Calm, ToAtlas
    <3>4. Calm(bytes[4], bytes[5])
      BY <2>2, SMT DEF Calm, ToAtlas
    <3>5. Calm(bytes[5], bytes[6])
      BY <2>2, SMT DEF Calm, ToAtlas
    <3>6. Calm(bytes[6], bytes[7])
      BY <2>2, SMT DEF Calm, ToAtlas
    <3>. QED
      BY <1>1, <3>1, <3>2, <3>3, <3>4, <3>5, <3>6
  <2>. QED
    BY <2>1, <2>2
<1>2. Calm(bytes[7], bytes[8])
  <2>1. bytes[7] = {5, 6} /\ bytes[8] = {1, 7}
    BY DEF ToAkito, ToAtlas, FromAtlas
  <2>. QED
    BY <2>1 DEF Calm
<1>3. ASSUME NEW b \in 1..13, b >= 8 PROVE Calm(bytes[b], bytes[b + 1])
  <2>1. Calm(bytes[8], bytes[9])
    BY SMT DEF Calm, FromAtlas
  <2>2. Calm(bytes[9], bytes[10])
    BY SMT DEF Calm, FromAtlas
  <2>3. Calm(bytes[10], bytes[11])
    BY SMT DEF Calm, FromAtlas
  <2>4. Calm(bytes[11], bytes[12])
    BY SMT DEF Calm, FromAtlas
  <2>5. Calm(bytes[12], bytes[13])
    BY SMT DEF Calm, FromAtlas
  <2>6. Calm(bytes[13], bytes[14])
    BY SMT DEF Calm, FromAtlas
  <2>. QED
    BY <1>3, <2>1, <2>2, <2>3, <2>4, <2>5, <2>6
<1>. QED
  BY <1>1, <1>2, <1>3

\* no five ones follow each other in the control byte and the FCS
Ended(f, poll) ==
  /\ Calm({0, 5, 6}, Ack \cup poll) /\ Calm(Ack \cup poll, f[1])
  /\ Calm(f[1], f[2]) /\ Calm(f[2], {})

\* The ends of the four frames.
LEMMA CalmEnds ==
  ASSUME NEW call \in {Akito, Atlas}, NEW poll \in {{}, Poll},
         NEW f, f = AckFcs(call, poll)
  PROVE  Ended(f, poll)
<1>1. Calm({0, 5, 6}, Ack \cup poll)
  BY DEF Ack, Poll, Calm
<1>2. ASSUME f = <<{2}, {1, 5, 7}>>, poll = {}
      PROVE  Ended(f, poll)
  <2>1. f[1] = {2} /\ f[2] = {1, 5, 7}
    BY <1>2
  <2>2. Ack \cup poll = {0, 1, 5, 6}
    BY <1>2, AckControl, Zenon
  <2>3. Calm({0, 1, 5, 6}, {2})
    BY DEF Calm
  <2>4. Calm({2}, {1, 5, 7})
    BY DEF Calm
  <2>5. Calm({1, 5, 7}, {})
    BY DEF Calm
  <2>. QED
    BY <1>1, <2>1, <2>2, <2>3, <2>4, <2>5, Zenon DEF Ended
<1>3. ASSUME f = <<{3, 7}, {1, 3, 5, 6, 7}>>, poll = Poll
      PROVE  Ended(f, poll)
  <2>1. f[1] = {3, 7} /\ f[2] = {1, 3, 5, 6, 7}
    BY <1>3
  <2>2. Ack \cup poll = {0, 1, 4, 5, 6}
    BY <1>3, AckControl, Zenon
  <2>3. Calm({0, 1, 4, 5, 6}, {3, 7})
    BY DEF Calm
  <2>4. Calm({3, 7}, {1, 3, 5, 6, 7})
    BY DEF Calm
  <2>5. Calm({1, 3, 5, 6, 7}, {})
    BY DEF Calm
  <2>. QED
    BY <1>1, <2>1, <2>2, <2>3, <2>4, <2>5, Zenon DEF Ended
<1>4. ASSUME f = <<{0, 2, 6, 7}, {1, 3, 7}>>, poll = {}
      PROVE  Ended(f, poll)
  <2>1. f[1] = {0, 2, 6, 7} /\ f[2] = {1, 3, 7}
    BY <1>4
  <2>2. Ack \cup poll = {0, 1, 5, 6}
    BY <1>4, AckControl, Zenon
  <2>3. Calm({0, 1, 5, 6}, {0, 2, 6, 7})
    BY DEF Calm
  <2>4. Calm({0, 2, 6, 7}, {1, 3, 7})
    BY DEF Calm
  <2>5. Calm({1, 3, 7}, {})
    BY DEF Calm
  <2>. QED
    BY <1>1, <2>1, <2>2, <2>3, <2>4, <2>5, Zenon DEF Ended
<1>5. ASSUME f = <<{0, 3, 6}, {1, 6, 7}>>, poll = Poll
      PROVE  Ended(f, poll)
  <2>1. f[1] = {0, 3, 6} /\ f[2] = {1, 6, 7}
    BY <1>5
  <2>2. Ack \cup poll = {0, 1, 4, 5, 6}
    BY <1>5, AckControl, Zenon
  <2>3. Calm({0, 1, 4, 5, 6}, {0, 3, 6})
    BY DEF Calm
  <2>4. Calm({0, 3, 6}, {1, 6, 7})
    BY DEF Calm
  <2>5. Calm({1, 6, 7}, {})
    BY DEF Calm
  <2>. QED
    BY <1>1, <2>1, <2>2, <2>3, <2>4, <2>5, Zenon DEF Ended
<1>6. \/ f = <<{2}, {1, 5, 7}>> /\ poll = {}
      \/ f = <<{3, 7}, {1, 3, 5, 6, 7}>> /\ poll = Poll
      \/ f = <<{0, 2, 6, 7}, {1, 3, 7}>> /\ poll = {}
      \/ f = <<{0, 3, 6}, {1, 6, 7}>> /\ poll = Poll
  BY Zenon DEF AckFcs
<1>. QED
  BY <1>2, <1>3, <1>4, <1>5, <1>6, Zenon

\* bytes is the U frame of the library to call, with that control byte
IsUFrame(bytes, call, control) ==
  /\ bytes = UBody(call, control) \o Fcs(UBody(call, control))
  /\ UFrame(call, Atlas, control) = ToBits(bytes)
  /\ Framed(bytes) /\ Len(bytes) = 17 /\ bytes[15] = control
  /\ \A i \in 1..15 : bytes[i] = UBody(call, control)[i]
  /\ bytes[16] = Fcs(UBody(call, control))[1] /\ bytes[17] = Fcs(UBody(call, control))[2]

\* Every U frame of the library is that.
LEMMA UFrameIs ==
  ASSUME NEW call \in {Akito, Atlas}, NEW control \in Byte
  PROVE  \E bytes : IsUFrame(bytes, call, control)
<1>. DEFINE body == UBody(call, control)    f == Fcs(body)    bytes == body \o f
<1>1. body \in Seq(Byte) /\ Len(body) = 15 /\ body[15] = control
  <2>1. MadeOf(body, AddressBytes(call, {}), AddressBytes(Atlas, {0}), control)
    BY UBodyParts, Zenon
  <2>. QED
    BY <2>1, Zenon DEF MadeOf
<1>2. f \in Seq(Byte) /\ Len(f) = 2
  BY FcsType, Zenon
<1>3. UFrame(call, Atlas, control) = ToBits(bytes)
  BY DEF UFrame, UBody
<1>4. Sendable(UFrame(call, Atlas, control))
  BY UFrameSendable, Zenon
<1>. HIDE DEF f
<1>10. bytes = UBody(call, control) \o Fcs(UBody(call, control))
  BY Zenon DEF f
<1>5. Parts(bytes, body, f)
  BY <1>1, <1>2, TwoByteParts, Zenon
<1>. HIDE DEF bytes, body
<1>6. bytes \in Seq(Byte) /\ Len(bytes) = 17 /\ \A i \in 1..15 : bytes[i] = body[i]
  BY <1>1, <1>2, <1>5 DEF Parts
<1>7. bytes[16] = f[1] /\ bytes[17] = f[2]
  <2>1. bytes[15 + 1] = f[1] /\ bytes[15 + 2] = f[2]
    BY <1>1, <1>2, <1>5 DEF Parts
  <2>. QED
    BY <2>1
<1>8. Framed(bytes)
  <2>1. PICK b : Framed(b) /\ ToBits(bytes) = ToBits(b)
    BY <1>3, <1>4, Zenon DEF Sendable
  <2>2. ToBytes(ToBits(b)) = b
    BY <2>1, FrameNotEmpty, Zenon
  <2>3. ToBytes(ToBits(bytes)) = bytes
    BY <1>6, BytesBack
  <2>. QED
    BY <2>1, <2>2, <2>3, Zenon
<1>9. bytes[15] = control
  BY <1>1, <1>6
<1>. QED
  BY <1>3, <1>6, <1>7, <1>8, <1>9, <1>10, Zenon DEF IsUFrame, body, f

\* The ACKs are left as they are, and so is their length.
LEMMA AckPlain ==
  ASSUME NEW call \in {Akito, Atlas}, NEW poll \in {{}, Poll},
         NEW frame, frame = UFrame(call, Atlas, Ack \cup poll)
  PROVE  frame \in Seq(Bit) /\ Len(frame) = 8 * 17 /\ Stuffed(frame) = frame
<1>1. Ack \cup poll \in Byte
  BY DEF Ack, Poll, Byte
<1>2. PICK bytes : IsUFrame(bytes, call, Ack \cup poll)
  BY <1>1, UFrameIs, Zenon
<1>. DEFINE body == AckBody(call, poll)    f == AckFcs(call, poll)
<1>3. Fcs(body) = f
  BY AckFcsIs, Zenon
<1>4. /\ frame = ToBits(bytes) /\ Framed(bytes) /\ Len(bytes) = 17
      /\ bytes[15] = Ack \cup poll /\ \A i \in 1..15 : bytes[i] = body[i]
      /\ bytes[16] = f[1] /\ bytes[17] = f[2]
  BY <1>2, <1>3, Zenon DEF IsUFrame, AckBody
<1>5. (ToAkito(body) \/ ToAtlas(body)) /\ FromAtlas(body)
  BY AckAddresses, Zenon
<1>6. bytes \in Seq(Byte)
  BY <1>4, Zenon DEF Framed
<1>7. /\ Calm({0, 5, 6}, Ack \cup poll) /\ Calm(Ack \cup poll, f[1])
      /\ Calm(f[1], f[2]) /\ Calm(f[2], {})
  BY CalmEnds, Zenon DEF Ended
<1>. HIDE DEF body, f
<1>8. /\ bytes[1] = body[1] /\ bytes[2] = body[2] /\ bytes[3] = body[3]
      /\ bytes[4] = body[4] /\ bytes[5] = body[5] /\ bytes[6] = body[6]
      /\ bytes[7] = body[7] /\ bytes[8] = body[8] /\ bytes[9] = body[9]
      /\ bytes[10] = body[10] /\ bytes[11] = body[11] /\ bytes[12] = body[12]
      /\ bytes[13] = body[13] /\ bytes[14] = body[14]
  BY <1>4
<1>9. (ToAkito(bytes) \/ ToAtlas(bytes)) /\ FromAtlas(bytes)
  BY <1>5, <1>8, Zenon DEF ToAkito, ToAtlas, FromAtlas
<1>10. \A b \in 1..13 : Calm(bytes[b], bytes[b + 1])
  BY <1>9, CalmAddresses, Zenon
<1>11. bytes[14] = {0, 5, 6}
  BY <1>9, Zenon DEF FromAtlas
<1>12. CalmBytes(bytes)
  <2>1. Calm(bytes[14], bytes[15]) /\ Calm(bytes[15], bytes[16]) /\ Calm(bytes[16], bytes[17])
    BY <1>4, <1>7, <1>11, Zenon
  <2>2. ASSUME NEW b \in 1..16 PROVE Calm(bytes[b], bytes[b + 1])
    BY <1>10, <2>1
  <2>3. Calm(bytes[17], {})
    BY <1>4, <1>7, Zenon
  <2>. QED
    BY <1>4, <2>2, <2>3 DEF CalmBytes
<1>13. FewOnes(ToBits(bytes))
  BY <1>6, <1>12, CalmFewOnes, Zenon
<1>14. frame \in Seq(Bit) /\ Len(frame) = 8 * 17
  BY <1>4, <1>6, ToBitsType
<1>15. Len(frame) > 0
  <2>1. 8 * 17 > 0
    OBVIOUS
  <2>. QED
    BY <1>14, <2>1, Zenon
<1>16. FewOnes(frame)
  BY <1>4, <1>13, Zenon
<1>. QED
  BY <1>14, <1>15, <1>16, StuffedAsIs, Zenon

\* an undamaged ACK of the library is on the air as it was made
AckOnAir ==
  wire # <<>> /\ sender = "c" /\ flips = 0 /\ Command = Ack
    => wire = sent /\ Len(wire) = 8 * 17

\* An I frame's control byte is where that of a U frame is.
LEMMA IFrameControl ==
  ASSUME NEW dst, NEW src, NEW control \in Byte, NEW pid \in Byte, NEW info \in Seq(Byte)
  PROVE  ToBytes(IFrame(dst, src, control, pid, info))[15] = control
<1>. DEFINE a == AddressBytes(dst, {})    b == AddressBytes(src, {0})
            c == <<control, pid>>         body == a \o b \o c \o info
            ab == a \o b                  abc == ab \o c
            f == Fcs(body)                bytes == body \o f
<1>1. a \in Seq(Byte) /\ Len(a) = 7 /\ b \in Seq(Byte) /\ Len(b) = 7
  BY AddressType
<1>2. c \in Seq(Byte) /\ Len(c) = 2 /\ c[1] = control
  OBVIOUS
<1>3. f \in Seq(Byte)
  BY FcsType, Zenon
<1>4. IFrame(dst, src, control, pid, info) = ToBits(bytes)
  BY DEF IFrame
<1>5. body = abc \o info
  OBVIOUS
<1>. HIDE DEF a, b, c, f, body
<1>6. Parts(ab, a, b)
  BY <1>1, TwoByteParts, Zenon
<1>7. ab \in Seq(Byte) /\ Len(ab) = 14
  BY <1>1, <1>6 DEF Parts
<1>. HIDE DEF ab
<1>8. Parts(abc, ab, c)
  BY <1>2, <1>7, TwoByteParts, Zenon
<1>9. abc \in Seq(Byte) /\ Len(abc) = 16 /\ abc[14 + 1] = control
  BY <1>2, <1>7, <1>8 DEF Parts
<1>. HIDE DEF abc
<1>10. Parts(body, abc, info)
  BY <1>5, <1>9, TwoByteParts, Zenon
<1>11. body \in Seq(Byte) /\ Len(body) >= 16 /\ body[15] = control
  BY <1>9, <1>10 DEF Parts
<1>12. Parts(bytes, body, f)
  BY <1>3, <1>11, TwoByteParts, Zenon
<1>. HIDE DEF bytes
<1>13. bytes \in Seq(Byte) /\ bytes[15] = control
  BY <1>11, <1>12 DEF Parts
<1>. QED
  BY <1>4, <1>13, BytesBack

\* What needs no stuffing goes on the air as it is.
LEMMA TransmitAck ==
  ASSUME NEW frame, Transmit("c", frame), frame \in Seq(Bit), Len(frame) = 8 * 17,
         Stuffed(frame) = frame
  PROVE  sent' = frame /\ wire' = frame
<1>1. PICK k \in 0..(Len(frame) \div 8 + 1) : WireBytes("c", frame, k) /\ wire' = Bytes(frame, k)
  BY Zenon DEF Transmit
<1>2. k = (Len(frame) + 7) \div 8
  BY <1>1, Zenon DEF WireBytes
<1>3. k = 17
  BY <1>2
<1>4. /\ Bytes(frame, 17) \in Seq(Bit) /\ Len(Bytes(frame, 17)) = 8 * 17
      /\ \A i \in 1..(8 * 17) :
           Bytes(frame, 17)[i] = IF i <= Len(frame) THEN frame[i] ELSE 0
  BY BytesType
<1>. DEFINE s == Bytes(frame, 17)
<1>. HIDE DEF s
<1>5. s \in Seq(Bit) /\ Len(s) = Len(frame) /\ \A i \in 1..Len(frame) : s[i] = frame[i]
  BY <1>4 DEF s
<1>6. s = frame
  BY <1>5, SeqEqual
<1>. QED
  BY <1>1, <1>3, <1>6, Zenon DEF Transmit, s

AckInvariant == AckOnAir /\ AckHeard

\* None of the other frames is taken for an ACK.
LEMMA OtherCommands ==
  /\ \A cmd \in {Sabm, Disc}, poll \in {{}, Poll} : (cmd \cup poll) \ Poll # Ack
  /\ \A control \in LinkControls : control \ Poll # Ack
<1>1. ASSUME NEW poll \in {{}, Poll} PROVE (Sabm \cup poll) \ Poll # Ack
  <2>1. 2 \in (Sabm \cup poll) \ Poll /\ 2 \notin Ack
    BY DEF Sabm, Poll, Ack
  <2>. QED
    BY <2>1, Zenon
<1>2. ASSUME NEW poll \in {{}, Poll} PROVE (Disc \cup poll) \ Poll # Ack
  <2>1. 5 \notin (Disc \cup poll) \ Poll /\ 5 \in Ack
    BY DEF Disc, Poll, Ack
  <2>. QED
    BY <2>1, Zenon
<1>3. ASSUME NEW control \in LinkControls PROVE control \ Poll # Ack
  <2>1. 0 \notin control
    BY PipelineAssumption
  <2>2. 0 \in Ack
    BY DEF Ack
  <2>. QED
    BY <2>1, <2>2, Zenon
<1>. QED
  BY <1>1, <1>2, <1>3

\* A frame that is no ACK, or not of the library, keeps AckInvariant.
LEMMA OtherFrameKeeps ==
  ASSUME sender' # "c" \/ Command' # Ack
  PROVE  AckInvariant'
BY Zenon DEF AckInvariant, AckOnAir, AckHeard

\* ax25SendUFrame keeps AckInvariant: an ACK goes on the air as it is.
LEMMA UFrameKeepsAck ==
  ASSUME NEW call \in LinkCallsigns, NEW cmd \in {Sabm, Disc, Ack}, NEW poll \in {{}, Poll},
         Ax25SendUFrame(call, cmd, poll)
  PROVE  AckInvariant'
<1>. DEFINE frame == UFrame(call, Atlas, cmd \cup poll)
<1>1. call \in {Akito, Atlas}
  BY CallsignAssumption
<1>2. Transmit("c", frame)
  BY Zenon DEF Ax25SendUFrame
<1>3. CASE cmd = Ack
  <2>1. frame \in Seq(Bit) /\ Len(frame) = 8 * 17 /\ Stuffed(frame) = frame
    BY <1>1, <1>3, AckPlain, Zenon
  <2>. HIDE DEF frame
  <2>2. sent' = frame /\ wire' = frame
    BY <1>2, <2>1, TransmitAck, Zenon
  <2>3. wire' # <<>>
    BY <2>1, <2>2
  <2>. QED
    BY <2>1, <2>2, <2>3, Zenon DEF AckInvariant, AckOnAir, AckHeard, Received
<1>4. CASE cmd \in {Sabm, Disc}
  <2>1. cmd \cup poll \in Byte
    BY DEF Sabm, Disc, Ack, Poll, Byte
  <2>2. PICK bytes : IsUFrame(bytes, call, cmd \cup poll)
    BY <1>1, <2>1, UFrameIs, Zenon
  <2>3. ToBytes(frame) = bytes /\ bytes[15] = cmd \cup poll
    BY <2>2, FrameNotEmpty, Zenon DEF IsUFrame
  <2>4. sent' = frame
    BY <1>2, Zenon DEF Transmit
  <2>. HIDE DEF frame
  <2>5. Command' = (cmd \cup poll) \ Poll
    BY <2>3, <2>4 DEF Command
  <2>. QED
    BY <1>4, <2>5, OtherCommands, OtherFrameKeeps, Zenon
<1>. QED
  BY <1>3, <1>4

\* No other frame is an ACK of the library.
LEMMA OtherSendsKeepAck ==
  /\ \A c \in GroundCommands : EncodeFrame(c.cmd, c.poll) => AckInvariant'
  /\ \A info \in Codewords : EncodeData(info) => AckInvariant'
  /\ \A call \in LinkCallsigns, control \in LinkControls, info \in Codewords :
       Ax25SendIFrame(call, control, info) => AckInvariant'
<1>1. ASSUME NEW frame, Transmit("python", frame) PROVE AckInvariant'
  <2>1. sender' # "c"
    BY <1>1 DEF Transmit
  <2>. QED
    BY <2>1, OtherFrameKeeps, Zenon
<1>2. ASSUME NEW call \in LinkCallsigns, NEW control \in LinkControls, NEW info \in Codewords,
             Ax25SendIFrame(call, control, info)
      PROVE  AckInvariant'
  <2>1. control \in Byte /\ Pid \in Byte /\ info \in Seq(Byte)
    BY PipelineAssumption DEF Byte, Pid
  <2>2. sent' = IFrame(call, Atlas, control, Pid, info)
    BY <1>2, Zenon DEF Ax25SendIFrame, Transmit
  <2>3. Command' = control \ Poll
    <3>1. ToBytes(IFrame(call, Atlas, control, Pid, info))[15] = control
      BY <2>1, IFrameControl
    <3>. QED
      BY <2>2, <3>1 DEF Command
  <2>. QED
    BY <2>3, OtherCommands, OtherFrameKeeps, Zenon
<1>. QED
  BY <1>1, <1>2, Zenon DEF EncodeFrame, EncodeData

\* What decode_frame makes of an ACK.
LEMMA DecodeKeepsAck ==
  ASSUME Invariant, AckInvariant, DecodeFrame \/ DecodeLongFrame
  PROVE  AckInvariant'
<1>1. /\ wire # <<>> /\ wire' = <<>> /\ sent' = sent /\ sender' = sender /\ flips' = flips
  BY Zenon DEF DecodeFrame, DecodeLongFrame, Hear
<1>2. AckOnAir'
  BY <1>1, Zenon DEF AckOnAir
<1>3. Command' = Command
  BY <1>1 DEF Command
<1>4. ASSUME sender = "c", flips = 0, Command = Ack PROVE heard' = sent
  <2>1. wire = sent /\ Len(wire) = 8 * 17
    BY <1>1, <1>4, Zenon DEF AckInvariant, AckOnAir
  <2>2. PICK bytes : SentOf(bytes)
    BY <1>1, Zenon DEF Invariant
  <2>3. Framed(bytes) /\ sent = ToBits(bytes)
    BY <2>2, Zenon DEF SentOf
  <2>4. FcsMatches(ToBytes(wire))
    <3>1. ToBytes(wire) = bytes
      BY <2>1, <2>3, FrameNotEmpty, Zenon
    <3>. QED
      BY <2>3, <3>1, Zenon DEF Framed
  <2>5. ~DecodeLongFrame
    <3>1. ~(Len(wire) \div 8 + 2 > RsEncodedDataSize)
      BY <2>1, SizesAssumption
    <3>. QED
      BY <3>1, Zenon DEF DecodeLongFrame
  <2>6. Hear("python", IF FcsMatches(ToBytes(wire)) THEN wire ELSE <<>>)
    BY <2>5, Zenon DEF DecodeFrame
  <2>. QED
    BY <2>1, <2>4, <2>6, Zenon DEF Hear
<1>5. AckHeard'
  BY <1>1, <1>3, <1>4, Zenon DEF AckHeard
<1>. QED
  BY <1>2, <1>5, Zenon DEF AckInvariant

\* AckInvariant is inductive, beside the other.
LEMMA AckInvariance == Invariant /\ AckInvariant /\ [Next]_vars => AckInvariant'
<1>. SUFFICES ASSUME Invariant, AckInvariant, [Next]_vars PROVE AckInvariant'
  OBVIOUS
<1>1. ASSUME NEW call \in LinkCallsigns, NEW cmd \in {Sabm, Disc, Ack}, NEW poll \in {{}, Poll},
             Ax25SendUFrame(call, cmd, poll)
      PROVE  AckInvariant'
  BY <1>1, UFrameKeepsAck, Zenon
<1>2. ASSUME FlipBit PROVE AckInvariant'
  <2>1. flips \in 0..MaxFlips /\ flips' = flips + 1 /\ MaxFlips \in Nat
    BY <1>2, PipelineAssumption DEF FlipBit, Invariant
  <2>2. flips' # 0
    BY <2>1
  <2>. QED
    BY <2>2, Zenon DEF AckInvariant, AckOnAir, AckHeard
<1>3. ASSUME Ax25Recv PROVE AckInvariant'
  <2>1. listener' = "c" /\ wire' = <<>>
    BY <1>3, Zenon DEF Ax25Recv, Hear
  <2>2. listener' # "python"
    BY <2>1
  <2>. QED
    BY <2>1, <2>2, Zenon DEF AckInvariant, AckOnAir, AckHeard
<1>4. CASE DecodeFrame \/ DecodeLongFrame
  BY <1>4, DecodeKeepsAck
<1>5. ASSUME UNCHANGED vars PROVE AckInvariant'
  BY <1>5 DEF vars, AckInvariant, AckOnAir, AckHeard, Received, Command
<1>. QED
  BY <1>1, <1>2, <1>3, <1>4, <1>5, OtherSendsKeepAck, Zenon DEF Next

-----------------------------------------------------------------------------
(* Bursts *)

\* The first m bytes.
LEMMA FirstBytes ==
  ASSUME NEW s \in Seq(Byte), NEW m \in Nat, m <= Len(s), NEW u, u = SubSeq(s, 1, m)
  PROVE  u \in Seq(Byte) /\ Len(u) = m /\ \A i \in 1..m : u[i] = s[i]
<1>1. 1 \in Nat \ {0} /\ 1 - 1 + m <= Len(s) /\ m = 1 - 1 + m
  OBVIOUS
<1>2. /\ SubSeq(s, 1, m) \in Seq(Byte) /\ Len(SubSeq(s, 1, m)) = m
      /\ \A i \in 1..m : SubSeq(s, 1, m)[i] = s[1 - 1 + i]
  BY <1>1, Stretch
<1>3. \A i \in 1..m : 1 - 1 + i = i
  OBVIOUS
<1>. QED
  BY <1>2, <1>3, Zenon

\* the bytes are the same but for two neighbours, not the last of the body and the first
\* of the FCS
Burst(x, y) ==
  \E b \in (1..(Len(x) - 3)) \cup {Len(x) - 1} : Confined(x, y, b)

\* The FCS notices a burst.
LEMMA FcsNoticesBurst ==
  ASSUME NEW x, NEW y, FcsMatches(x), FcsMatches(y), Burst(x, y)
  PROVE  x = y
<1>. DEFINE n == Len(x)    bx == SubSeq(x, 1, n - 2)    by == SubSeq(y, 1, n - 2)
            fx == SubSeq(x, n - 1, n)    fy == SubSeq(y, n - 1, n)
<1>1. PICK b \in (1..(n - 3)) \cup {n - 1} : Confined(x, y, b)
  BY DEF Burst
<1>2. x \in Seq(Byte) /\ y \in Seq(Byte) /\ Len(y) = n /\ n \in Nat
  BY <1>1 DEF Confined
<1>3. n > 2 /\ Fcs(bx) = fx /\ Fcs(by) = fy
  <2>1. n > 2 /\ Fcs(bx) = fx
    BY Zenon DEF FcsMatches
  <2>2. Fcs(SubSeq(y, 1, Len(y) - 2)) = SubSeq(y, Len(y) - 1, Len(y))
    BY Zenon DEF FcsMatches
  <2>3. Fcs(by) = fy
    BY <1>2, <2>2, Zenon
  <2>. QED
    BY <2>1, <2>3
<1>4. /\ bx \in Seq(Byte) /\ Len(bx) = n - 2 /\ by \in Seq(Byte) /\ Len(by) = n - 2
      /\ \A i \in 1..(n - 2) : bx[i] = x[i] /\ by[i] = y[i]
  <2>. DEFINE m == n - 2
  <2>1. m \in Nat /\ m <= Len(x) /\ m <= Len(y)
    BY <1>2, <1>3
  <2>2. bx = SubSeq(x, 1, m) /\ by = SubSeq(y, 1, m)
    OBVIOUS
  <2>. HIDE DEF n, m, bx, by
  <2>3. bx \in Seq(Byte) /\ Len(bx) = m /\ \A i \in 1..m : bx[i] = x[i]
    BY <1>2, <2>1, <2>2, FirstBytes
  <2>4. by \in Seq(Byte) /\ Len(by) = m /\ \A i \in 1..m : by[i] = y[i]
    BY <1>2, <2>1, <2>2, FirstBytes
  <2>. QED
    BY <2>3, <2>4, Zenon DEF m
<1>5. /\ fx[1] = x[n - 1] /\ fx[2] = x[n] /\ fy[1] = y[n - 1] /\ fy[2] = y[n]
  BY <1>2, <1>3
<1>6. \A k \in 1..n : k \notin {b, b + 1} => y[k] = x[k]
  BY <1>1, Zenon DEF Confined
<1>. HIDE DEF bx, by, fx, fy
<1>7. bx = by
  <2>1. CASE b \in 1..(n - 3)
    <3>1. y[n - 1] = x[n - 1] /\ y[n] = x[n]
      BY <1>2, <1>3, <1>6, <2>1
    <3>2. Fcs(bx) = Fcs(by)
      <4>1. Len(fx) = 2 /\ Len(fy) = 2 /\ fx \in Seq(Byte) /\ fy \in Seq(Byte)
        BY <1>3, FcsType, Zenon
      <4>2. \A i \in 1..Len(fx) : fx[i] = fy[i]
        <5>1. fx[1] = fy[1] /\ fx[2] = fy[2]
          BY <1>5, <3>1, Zenon
        <5>2. \A i \in 1..2 : i = 1 \/ i = 2
          OBVIOUS
        <5>. QED
          BY <4>1, <5>1, <5>2, Zenon
      <4>. QED
        BY <1>3, <4>1, <4>2, SeqEqual, Zenon
    <3>3. Len(bx) > 0 /\ Len(by) > 0
      BY <1>3, <1>4, <1>2
    <3>4. Crc16(bx) = Crc16(by)
      BY <1>4, <3>2, <3>3, FcsTellsCrc
    <3>5. b \in 1..(Len(bx) - 1)
      BY <1>2, <1>4, <2>1
    <3>6. Confined(bx, by, b)
      <4>1. ASSUME NEW k \in 1..(n - 2), k \notin {b, b + 1} PROVE by[k] = bx[k]
        <5>1. k \in 1..n
          BY <1>2
        <5>. QED
          BY <1>4, <1>6, <4>1, <5>1, Zenon
      <4>. QED
        BY <1>4, <4>1, Zenon DEF Confined
    <3>. QED
      BY <3>4, <3>5, <3>6, CrcNoticesBursts
  <2>2. CASE b = n - 1
    <3>1. ASSUME NEW k \in 1..(n - 2) PROVE bx[k] = by[k]
      <4>1. k \in 1..n /\ k \notin {b, b + 1}
        BY <1>2, <2>2
      <4>. QED
        BY <1>4, <1>6, <4>1, Zenon
    <3>. QED
      BY <1>4, <3>1, SeqEqual, Zenon
  <2>. QED
    BY <1>1, <2>1, <2>2, Zenon
<1>8. x[n - 1] = y[n - 1] /\ x[n] = y[n]
  BY <1>3, <1>5, <1>7, Zenon
<1>9. ASSUME NEW k \in 1..n PROVE x[k] = y[k]
  <2>1. k \in 1..(n - 2) \/ k = n - 1 \/ k = n
    BY <1>2
  <2>. QED
    BY <1>4, <1>7, <1>8, <2>1, Zenon
<1>. QED
  BY <1>2, <1>9, SeqEqual, Zenon

\* the library takes a frame off the air of whose bytes no others than two neighbours
\* have changed, and as many as were sent
Bursts ==
  LET n == Len(sent) \div 8
  IN  /\ listener' = "c" /\ wire # <<>> /\ wire' = <<>>
      /\ CDelivered(Unstuffed(wire)) = n
      /\ LET damaged == Damaged
         IN  \E b \in (1..(n - 3)) \cup {n - 1} : damaged \subseteq {b, b + 1}

\* No other action takes the frame off the air.
LEMMA BurstsByLibrary ==
  ASSUME Invariant, [Next]_vars, Bursts
  PROVE  Ax25Recv
<1>1. wire # <<>> /\ wire' = <<>> /\ listener' = "c"
  BY Zenon DEF Bursts
<1>2. sent # <<>>
  <2>1. PICK bytes : SentOf(bytes)
    BY <1>1, Zenon DEF Invariant
  <2>. QED
    BY <2>1, FrameNotEmpty, Zenon DEF SentOf
<1>3. ASSUME \E by, frame : Sends(by, frame) PROVE FALSE
  BY <1>2, <1>3, Zenon DEF Sends, Transmit
<1>4. ASSUME FlipBit PROVE FALSE
  <2>1. PICK p \in DOMAIN wire : wire' = [wire EXCEPT ![p] = 1 - @]
    BY <1>4, Zenon DEF FlipBit
  <2>2. DOMAIN wire' = DOMAIN wire
    BY <2>1
  <2>3. p \in DOMAIN <<>>
    BY <1>1, <2>2
  <2>. QED
    BY <2>3
<1>5. ASSUME DecodeFrame \/ DecodeLongFrame PROVE FALSE
  <2>1. listener' = "python"
    BY <1>5, Zenon DEF DecodeFrame, DecodeLongFrame, Hear
  <2>. QED
    BY <1>1, <2>1
<1>6. ASSUME UNCHANGED vars PROVE FALSE
  BY <1>1, <1>6 DEF vars
<1>7. Next => \/ \E by, frame : Sends(by, frame)
              \/ FlipBit \/ Ax25Recv \/ DecodeFrame \/ DecodeLongFrame
  BY SendableFrames, Zenon DEF Next
<1>. QED
  BY <1>3, <1>4, <1>5, <1>6, <1>7, Zenon

\* What ax25Recv sees of such a frame.
LEMMA BurstArrives ==
  ASSUME NEW bytes, Framed(bytes), sent = ToBits(bytes), wire \in Seq(Bit), Bursts,
         NEW packet, packet = Bytes(Unstuffed(wire), CDelivered(Unstuffed(wire)))
  PROVE  /\ Burst(bytes, ToBytes(packet)) /\ packet \in Seq(Bit)
         /\ Len(packet) = 8 * Len(bytes)
<1>. DEFINE n == Len(bytes)    kept == Unstuffed(wire)    y == ToBytes(packet)
<1>1. bytes \in Seq(Byte) /\ n \in Nat /\ Len(sent) \div 8 = n
  <2>1. bytes \in Seq(Byte) /\ Len(sent) = 8 * n
    BY FrameNotEmpty, Zenon DEF Framed
  <2>. QED
    BY <2>1
<1>2. kept \in Seq(Bit)
  BY UnstuffedShorter, Zenon DEF Bursts
<1>3. CDelivered(kept) = n
  BY <1>1, Zenon DEF Bursts
<1>4. PICK b \in (1..(n - 3)) \cup {n - 1} : Damaged \subseteq {b, b + 1}
  BY <1>1, Zenon DEF Bursts
<1>5. \A x \in 1..n : x \notin {b, b + 1} => Brings(kept, sent, x)
  <2>1. Damaged =
          {x \in 1..n : \E i \in (8 * x - 7)..(8 * x) : i > Len(kept) \/ kept[i] # sent[i]}
    BY <1>1, Zenon DEF Damaged
  <2>2. ASSUME NEW x \in 1..n, x \notin {b, b + 1}, NEW i \in (8 * x - 7)..(8 * x)
        PROVE  ~(i > Len(kept)) /\ kept[i] = sent[i]
    BY <1>4, <2>1, <2>2, Zenon
  <2>3. ASSUME NEW x \in 1..n, NEW i \in (8 * x - 7)..(8 * x), ~(i > Len(kept))
        PROVE  i <= Len(kept)
    <3>. HIDE DEF kept
    <3>. QED
      BY <1>2, <2>3
  <2>. QED
    BY <2>2, <2>3, Zenon DEF Brings
<1>. HIDE DEF kept, n, y
<1>6. packet = Bytes(kept, n)
  BY <1>3, Zenon DEF kept
<1>7. packet \in Seq(Bit) /\ Len(packet) = 8 * n
  BY <1>1, <1>2, <1>6, BytesType
<1>8. /\ y \in Seq(Byte) /\ Len(y) = n
      /\ \A x \in 1..n : Brings(kept, ToBits(bytes), x) => y[x] = bytes[x]
  <2>1. n = Len(bytes) /\ y = ToBytes(Bytes(kept, n))
    BY <1>6, Zenon DEF n, y
  <2>. QED
    BY <1>1, <1>2, <2>1, PacketBytes
<1>9. Confined(bytes, y, b)
  <2>1. \A x \in 1..n : x \notin {b, b + 1} => y[x] = bytes[x]
    BY <1>5, <1>8, Zenon
  <2>. QED
    BY <1>1, <1>8, <2>1, Zenon DEF Confined, n
<1>. QED
  BY <1>4, <1>7, <1>9, Zenon DEF Burst, n, y

\* ax25Recv refuses it, or nothing has changed.
LEMMA BurstRefused ==
  ASSUME Invariant, [Next]_vars, Bursts
  PROVE  heard' \in {<<>>, sent}
<1>. DEFINE packet == Bytes(Unstuffed(wire), CDelivered(Unstuffed(wire)))
<1>1. wire # <<>> /\ heard' = IF LibraryAccepts(ToBytes(packet)) THEN packet ELSE <<>>
  BY BurstsByLibrary, Zenon DEF Ax25Recv, Hear
<1>2. PICK bytes : SentOf(bytes)
  BY <1>1, Zenon DEF Invariant
<1>3. Framed(bytes) /\ sent = ToBits(bytes) /\ wire \in Seq(Bit)
  BY <1>2, Zenon DEF SentOf, Airborne
<1>4. /\ Burst(bytes, ToBytes(packet)) /\ packet \in Seq(Bit)
      /\ Len(packet) = 8 * Len(bytes)
  BY <1>3, BurstArrives, Zenon
<1>. HIDE DEF packet
<1>5. ASSUME LibraryAccepts(ToBytes(packet)) PROVE packet = sent
  <2>1. FcsMatches(bytes) /\ FcsMatches(ToBytes(packet))
    BY <1>3, <1>5, Zenon DEF Framed, LibraryAccepts
  <2>2. bytes = ToBytes(packet)
    BY <1>4, <2>1, FcsNoticesBurst, Zenon
  <2>3. /\ sent \in Seq(Bit) /\ Len(sent) = 8 * Len(bytes) /\ Len(bytes) \in Nat
        /\ ToBytes(sent) = ToBytes(packet)
    <3>1. bytes \in Seq(Byte) /\ ToBytes(ToBits(bytes)) = bytes
      BY <1>3, FrameNotEmpty, Zenon DEF Framed
    <3>2. Len(bytes) \in Nat
      BY <3>1
    <3>. QED
      BY <1>3, <2>2, <3>1, <3>2, ToBitsType, Zenon
  <2>. QED
    BY <1>4, <2>3, SameBits, Zenon
<1>. QED
  BY <1>1, <1>5, Zenon

-----------------------------------------------------------------------------
(* Theorems *)

\* TypeOK, for frames of every length of the information and every number of damaged
\* bits: a U frame fits the 37 bytes of packed_ax25_u_frame_t and an I frame fits
\* AX25_MAXIMUM_PKT_LEN after stuffing.
THEOREM TypeCorrect == Spec => []TypeOK
<1>1. Init => Invariant
  BY Initially
<1>2. Invariant => TypeOK
  <2>. SUFFICES ASSUME Invariant PROVE TypeOK
    OBVIOUS
  <2>1. CASE sent = <<>> /\ wire = <<>>
    <3>1. Airborne(wire, 0)
      BY <2>1, EmptyAir
    <3>2. Len(sent) = 0 /\ 0 # 8 * IFrameBytes
      BY <2>1, SizesAssumption DEF IFrameBytes
    <3>3. wire \in Seq(Bit) /\ \A p \in DOMAIN wire : wire[p] \in Bit
      BY <2>1
    <3>. QED
      BY <3>1, <3>2, <3>3, Zenon DEF TypeOK, Airborne, Invariant
  <2>2. ASSUME NEW bytes, SentOf(bytes) PROVE TypeOK
    <3>1. Framed(bytes) /\ sent = ToBits(bytes) /\ Airborne(wire, 8 * Len(bytes))
      BY <2>2, Zenon DEF SentOf
    <3>2. Len(sent) = 8 * Len(bytes) /\ Len(bytes) \in {17, IFrameBytes}
      BY <3>1, FrameNotEmpty, Zenon
    <3>3. wire \in Seq(Bit)
      BY <3>1, Zenon DEF Airborne
    <3>4. \A p \in DOMAIN wire : wire[p] \in Bit
      BY <3>3
    <3>. QED
      BY <3>1, <3>2, <3>4, Zenon DEF TypeOK, Airborne, Invariant
  <2>. QED
    BY <2>1, <2>2, Zenon DEF Invariant
<1>. QED
  BY <1>1, <1>2, Invariance, PTL DEF Spec

\* LibraryHears: ax25Recv takes every undamaged frame of either implementation for what
\* was sent, whatever its control byte and information are.
THEOREM LibraryHearsFrames == Spec => []LibraryHears
<1>1. Init => Invariant
  BY Initially
<1>2. Invariant => LibraryHears
  BY DEF Invariant
<1>. QED
  BY <1>1, <1>2, Invariance, PTL DEF Spec

\* DataCorrected: the ground station reads a long frame of the library as it was sent when
\* at most MaxErrors bytes of its data arrive damaged, whatever the damage, the sizes and
\* the code, as long as its codewords are far enough apart.
THEOREM DataIsCorrected == Spec => DataCorrected
<1>1. Init => Invariant
  BY Initially
<1>2. Invariant /\ [Next]_vars => (Reads => heard' = sent)
  BY Corrects
<1>3. Invariant /\ [Next]_vars => [Reads => heard' = sent]_vars
  BY <1>2
<1>4. [][Reads => heard' = sent]_vars => DataCorrected
  BY PTL DEF DataCorrected, Reads
<1>. QED
  BY <1>1, <1>3, <1>4, Invariance, PTL DEF Spec

\* AckHeard: the ground station, which does not unstuff a short frame, reads every
\* undamaged ACK of the library as it was sent, whatever the sizes: the CRC of each of the
\* four frames is worked out, and none of them holds five ones in a row.
THEOREM AcksAreHeard == Spec => []AckHeard
<1>1. Init => Invariant
  BY Initially
<1>2. Init => AckInvariant
  BY DEF Init, AckInvariant, AckOnAir, AckHeard, Received
<1>3. AckInvariant => AckHeard
  BY DEF AckInvariant
<1>. QED
  BY <1>1, <1>2, <1>3, Invariance, AckInvariance, PTL DEF Spec

\* BurstNoticed: whatever noise does to two neighbouring bytes of a frame, the library
\* does not take it for another frame, for all frames of both implementations and any
\* number of flipped bits.
THEOREM BurstsAreNoticed == Spec => BurstNoticed
<1>1. Init => Invariant
  BY Initially
<1>2. Invariant /\ [Next]_vars => (Bursts => heard' \in {<<>>, sent})
  BY BurstRefused
<1>3. Invariant /\ [Next]_vars => [Bursts => heard' \in {<<>>, sent}]_vars
  BY <1>2
<1>4. [][Bursts => heard' \in {<<>>, sent}]_vars => BurstNoticed
  BY PTL DEF BurstNoticed, Bursts
<1>. QED
  BY <1>1, <1>3, <1>4, Invariance, PTL DEF Spec
=============================================================================
