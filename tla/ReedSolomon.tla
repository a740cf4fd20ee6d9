----------------------------- MODULE ReedSolomon -----------------------------
(***************************************************************************)
(* The Reed-Solomon codec behind rsEncode and rsDecode: one codec, created *)
(* once per process, whose decoder keeps its buffers from call to call.    *)
(* decode is decode_with_erasures with nothing erased.  A block is indexed *)
(* by power: byte b of the array is the coefficient of BlockLength - b - 1 *)
(* (the code reverses the array on the way in and on the way out).         *)
(***************************************************************************)
EXTENDS GaloisField, Sequences, FiniteSets

CONSTANTS
  MinDistance,   \* num_roots, 32 in the code: the parity symbols of a block
  Scripts,       \* the sequences of calls a process makes; a call encodes msg
                 \* and decodes the block with noise added to it, told that the
                 \* symbols at the powers erased are not to be trusted
  Junk           \* bounds the contents of fresh heap memory: one of Junk

BlockLength == FieldMax                        \* 255 in the code
MessageLength == BlockLength - MinDistance
FirstConsecutiveRoot == 1
GeneratorRootGap == 1
Powers == 0..(BlockLength - 1)

\* erasure_length is at most min_distance, or the call is refused at once
Calls ==
  {c \in [msg : [0..(MessageLength - 1) -> Elements], noise : [Powers -> Elements],
          erased : Seq(Powers)] :
     Len(c.erased) <= MinDistance}

ASSUME CodecAssumption ==
  /\ FieldMax \in Nat /\ MinDistance \in Nat \ {0} /\ MinDistance < FieldMax
  /\ Scripts \subseteq Seq(Calls)
  /\ Junk \subseteq Elements /\ Junk # {}

VARIABLES
  rs,                  \* "null", "live", "freed": the static pointer
  script,              \* the calls still to be made
  phase,               \* "idle", "encoded", "locating", "correcting", "returned"
  \* the decoder's buffers
  receivedPolynomial, syndromes, errorLocator, lastErrorLocator,
  errorRoots, errorVals, errorLocations,
  \* the variables of one decode
  erased, syndromeCopy, numerrors, i, delayLength, lastDiscrepancy,
  code,                \* what rsDecode returned
  \* history: the block that was encoded, and what was added to it
  sent, noise

block == <<receivedPolynomial, syndromes>>
locators == <<errorLocator, lastErrorLocator>>
errors == <<errorRoots, errorVals, errorLocations>>
registers == <<numerrors, i, delayLength, lastDiscrepancy>>
call == <<erased, syndromeCopy, code, sent, noise>>
vars == <<rs, script, phase, block, locators, errors, registers, call>>

-----------------------------------------------------------------------------
(* The codec's tables *)

GeneratorRoots ==
  [k \in 0..(MinDistance - 1) |->
     Exp[(GeneratorRootGap * (k + FirstConsecutiveRoot)) % FieldMax]]

Generator == FromRoots(GeneratorRoots, MinDistance)

GeneratorRootExp ==
  [k \in 0..(MinDistance - 1) |-> BuildExpLut(GeneratorRoots[k], BlockLength - 1)]

ElementExp == [x \in Elements |-> BuildExpLut(x, MinDistance - 1)]

Encoded(msg) ==
  LET polynomial == [p \in Powers |-> IF p < MinDistance THEN 0 ELSE msg[p - MinDistance]]
      remainder == PolyMod(polynomial, BlockLength - 1, Generator, MinDistance)
  IN  [p \in Powers |-> IF p < MinDistance THEN remainder[p] ELSE polynomial[p]]

-----------------------------------------------------------------------------
Zeros(n) == [k \in 0..n |-> 0]
Poly(coeff, order) == [coeff |-> coeff, order |-> order]
One == Poly([Zeros(MinDistance) EXCEPT ![0] = 1], 0)

Init ==
  /\ rs = "null" /\ script \in Scripts /\ phase = "idle"
  /\ receivedPolynomial = Zeros(BlockLength - 1)
  /\ syndromes = Zeros(MinDistance - 1)
  /\ errorLocator = One /\ lastErrorLocator = One
  /\ errorRoots = Zeros(2 * MinDistance - 1)
  /\ \E junk \in Junk :
       /\ errorVals = [k \in 0..(MinDistance - 1) |-> junk]
       /\ errorLocations = [k \in 0..(MinDistance - 1) |-> junk]
  /\ erased = <<>> /\ syndromeCopy = syndromes
  /\ numerrors = 0 /\ i = 0 /\ delayLength = 1 /\ lastDiscrepancy = 1
  /\ code = "none" /\ sent = receivedPolynomial /\ noise = receivedPolynomial

InitRs ==
  /\ rs = "null" /\ rs' = "live"
  /\ UNCHANGED <<script, phase, block, locators, errors, registers, call>>

DestroyRs ==
  /\ rs = "live" /\ script = <<>> /\ phase = "returned"
  /\ rs' = "freed"
  /\ UNCHANGED <<script, phase, block, locators, errors, registers, call>>

RsEncode ==
  /\ rs = "live" /\ script # <<>> /\ phase \in {"idle", "returned"}
  /\ sent' = Encoded(Head(script).msg)
  /\ phase' = "encoded"
  /\ UNCHANGED <<rs, script, block, locators, errors, registers, erased,
                 syndromeCopy, code, noise>>

\* int8_t decodedLength, compared with -1
ReturnOf(length) ==
  IF ((length + 128) % 256) - 128 = -1 THEN "REED_SOL_DEC_ERR" ELSE "SUCCESS"

\* slip: the highest coefficient is left out
SyndromesShort(received) ==
  [k \in 0..(MinDistance - 1) |->
     EvalLut(received, BlockLength - 2, GeneratorRootExp[k])]

Syndromes(received) ==
  [k \in 0..(MinDistance - 1) |->
     EvalLut(received, BlockLength - 1, GeneratorRootExp[k])]

RootsFromLocations(locations) ==
  [k \in 1..Len(locations) |->
     Div(1, Pow(Exp[locations[k]], GeneratorRootGap))]

\* with n erasures: the syndromes times the erasure locator, n powers down
ModifiedSyndromes(s, locations) ==
  LET n == Len(locations)
      roots == RootsFromLocations(locations)
      erasureLocator == FromRoots([k \in 0..(n - 1) |-> roots[k + 1]], n)
      modified == PolyMul(erasureLocator, n, s, MinDistance - 1, MinDistance - 1)
  IN  IF n = 0 THEN s
      ELSE [k \in 0..(MinDistance - 1) |-> IF k + n < MinDistance THEN modified[k + n] ELSE s[k]]

\* what is not to be trusted has its locations and roots from the start
Erase(locations) ==
  /\ errorLocations' = [k \in DOMAIN errorLocations |->
                          IF k < Len(locations) THEN locations[k + 1] ELSE errorLocations[k]]
  /\ errorRoots' = [k \in DOMAIN errorRoots |->
                      IF k < Len(locations) THEN RootsFromLocations(locations)[k + 1]
                      ELSE errorRoots[k]]

\* the syndromes are all zero: the message is returned as it is
ReceiveClean ==
  /\ phase = "encoded"
  /\ noise' = Head(script).noise
  /\ receivedPolynomial' = [p \in Powers |-> Add(sent[p], noise'[p])]
  /\ syndromes' = Syndromes(receivedPolynomial')
  /\ syndromes' = Zeros(MinDistance - 1)
  /\ erased' = Head(script).erased /\ script' = Tail(script)
  /\ Erase(erased')
  /\ code' = ReturnOf(MessageLength)
  /\ phase' = "returned"
  /\ UNCHANGED <<rs, locators, errorVals, registers, syndromeCopy, sent>>

ReceiveDamaged ==
  /\ phase = "encoded"
  /\ noise' = Head(script).noise
  /\ receivedPolynomial' = [p \in Powers |-> Add(sent[p], noise'[p])]
  /\ syndromeCopy' = Syndromes(receivedPolynomial')
  /\ syndromeCopy' # Zeros(MinDistance - 1)
  /\ erased' = Head(script).erased /\ script' = Tail(script)
  /\ syndromes' = ModifiedSyndromes(syndromeCopy', erased')
  /\ Erase(erased')
  /\ errorLocator' = One /\ lastErrorLocator' = One
  /\ numerrors' = 0 /\ i' = 0 /\ delayLength' = 1 /\ lastDiscrepancy' = 1
  /\ phase' = "locating"
  /\ UNCHANGED <<rs, errorVals, code, sent>>

-----------------------------------------------------------------------------
(* reed_solomon_find_error_locator: one action per way through its loop *)

More == phase = "locating" /\ i < MinDistance - Len(erased)

Discrepancy ==
  Add(syndromes[i],
      Sum(numerrors, [j \in 0..(numerrors - 1) |->
                        Mul(errorLocator.coeff[j + 1], syndromes[i - j - 1])]))

\* slip: not scaled by what the last locator was wrong by
CorrectionUnscaled(k) ==
  IF k - delayLength \in 0..lastErrorLocator.order
  THEN Mul(lastErrorLocator.coeff[k - delayLength], Discrepancy)
  ELSE 0

\* the last locator, shifted by delayLength and scaled to the discrepancy
Correction(k) ==
  IF k - delayLength \in 0..lastErrorLocator.order
  THEN Div(Mul(lastErrorLocator.coeff[k - delayLength], Discrepancy), lastDiscrepancy)
  ELSE 0

Corrected == [k \in 0..MinDistance |-> Add(errorLocator.coeff[k], Correction(k))]

\* the highest coefficient the correction writes
Top == lastErrorLocator.order + delayLength

\* slip: the delay goes on counting after the locator was lengthened
RestartDelayNot == delayLength' = delayLength + 1

RestartDelay == delayLength' = 1

\* slip: the order of the correction, although the locator reached higher
AdjustedOrderLast == Top

AdjustedOrder == IF Top > errorLocator.order THEN Top ELSE errorLocator.order

Describes ==
  /\ More /\ Discrepancy = 0
  /\ delayLength' = delayLength + 1
  /\ i' = i + 1
  /\ UNCHANGED <<rs, script, phase, block, locators, errors, call, numerrors,
                 lastDiscrepancy>>

Lengthen ==
  /\ More /\ Discrepancy # 0 /\ 2 * numerrors <= i
  /\ errorLocator' = Poly(Corrected, Top)
  /\ lastErrorLocator' =
       Poly([k \in 0..MinDistance |->
               IF k <= Top THEN errorLocator.coeff[k] ELSE lastErrorLocator.coeff[k]],
            errorLocator.order)
  /\ numerrors' = i + 1 - numerrors
  /\ lastDiscrepancy' = Discrepancy
  /\ RestartDelay
  /\ i' = i + 1
  /\ UNCHANGED <<rs, script, phase, block, errors, call>>

Adjust ==
  /\ More /\ Discrepancy # 0 /\ 2 * numerrors > i
  /\ errorLocator' = Poly(Corrected, AdjustedOrder)
  /\ delayLength' = delayLength + 1
  /\ i' = i + 1
  /\ UNCHANGED <<rs, script, phase, block, lastErrorLocator, errors, call, numerrors,
                 lastDiscrepancy>>

-----------------------------------------------------------------------------
(* reed_solomon_factorize_error_locator and what follows it *)

Located == phase = "locating" /\ i = MinDistance - Len(erased)

LocatorLog == [k \in 0..errorLocator.order |-> Log[errorLocator.coeff[k]]]

\* element_exp holds the powers 0 to MinDistance - 1 of an element; a locator
\* of order MinDistance is evaluated with what lies behind the table, and any
\* set of elements may come out as its roots
IsRoot(x, behind) ==
  IF errorLocator.order < MinDistance
  THEN EvalLogLut(LocatorLog, errorLocator.order, ElementExp[x]) = 0
  ELSE x \in behind

Behind == IF errorLocator.order < MinDistance THEN {{}} ELSE SUBSET (1..FieldMax)

\* the roots in the order of the search
Found(behind) ==
  LET found[n \in 0..(FieldMax + 1)] ==
        IF n = 0 THEN <<>>
        ELSE IF IsRoot(n - 1, behind) THEN Append(found[n - 1], n - 1) ELSE found[n - 1]
  IN  found[FieldMax + 1]

\* the zeros of memset, then the roots, behind those of the erasures.  The search
\* stores every element that comes out 0, without a bound: with a locator of order
\* MinDistance these can be more than error_roots holds.  What is written behind it
\* is left out here.
RootsStored(found) ==
  [k \in DOMAIN errorRoots |->
     LET n == k - Len(erased)
     IN  IF n \in 0..(Len(found) - 1) THEN found[n + 1]
         ELSE IF n \in 0..(errorLocator.order - 1) THEN 0
         ELSE errorRoots[k]]

\* slip: as many roots as there happen to be
EnoughAny(found) == Len(found) > 0

Enough(found) == Len(found) = errorLocator.order

FactorizeFails ==
  /\ Located
  /\ \E behind \in Behind :
       /\ ~Enough(Found(behind))
       /\ errorRoots' = RootsStored(Found(behind))
  /\ code' = ReturnOf(-1)
  /\ phase' = "returned"
  /\ UNCHANGED <<rs, script, block, locators, errorVals, errorLocations, registers,
                 erased, syndromeCopy, sent, noise>>

Factorize ==
  /\ Located
  /\ \E behind \in Behind :
       /\ Enough(Found(behind))
       /\ errorRoots' = RootsStored(Found(behind))
  /\ phase' = "correcting"
  /\ UNCHANGED <<rs, script, block, locators, errorVals, errorLocations, registers, call>>

\* slip: the search starts behind the element 0
LocationFromOne(root) ==
  Log[CHOOSE x \in 1..FieldMax : Pow(x, GeneratorRootGap) = Div(1, root)]

\* log of the first x in 0..FieldMax whose power is 1 / root; 0 is one for 1,
\* and has the logarithm 0 where 1 has FieldMax, which is no power
Location(root) ==
  Log[CHOOSE x \in Elements :
        /\ Pow(x, GeneratorRootGap) = Div(1, root)
        /\ \A y \in 0..(x - 1) : Pow(y, GeneratorRootGap) # Div(1, root)]

\* the locator of erasures and errors together
FullOrder == Len(erased) + errorLocator.order
FullLocator ==
  LET n == Len(erased)
  IN  IF n = 0 THEN errorLocator.coeff
      ELSE PolyMul(FromRoots([k \in 0..(n - 1) |-> RootsFromLocations(erased)[k + 1]], n), n,
                   errorLocator.coeff, errorLocator.order, FullOrder)

ErrorEvaluator ==
  PolyMul(FullLocator, FullOrder, syndromeCopy, MinDistance - 1, MinDistance - 1)

\* reed_solomon_find_error_values, Forney's formula
ErrorValue(root) ==
  Mul(Pow(root, FirstConsecutiveRoot - 1),
      Div(EvalLut(ErrorEvaluator, MinDistance - 1, ElementExp[root]),
          EvalLut(Derivative(FullLocator, FullOrder), FullOrder - 1, ElementExp[root])))

Correct ==
  LET fresh(k) == k < FullOrder /\ errorRoots[k] # 0
  IN
  /\ phase = "correcting"
  /\ errorLocations' = [k \in DOMAIN errorLocations |->
                          IF fresh(k) THEN Location(errorRoots[k]) ELSE errorLocations[k]]
  /\ errorVals' = [k \in DOMAIN errorVals |->
                     IF fresh(k) THEN ErrorValue(errorRoots[k]) ELSE errorVals[k]]
  /\ receivedPolynomial' =
       [p \in Powers |->
          Add(receivedPolynomial[p],
              Sum(FullOrder, [k \in DOMAIN errorVals |->
                                IF errorLocations'[k] = p THEN errorVals'[k] ELSE 0]))]
  /\ syndromes' = syndromeCopy
  /\ code' = ReturnOf(MessageLength)
  /\ phase' = "returned"
  /\ UNCHANGED <<rs, script, locators, errorRoots, registers, erased, syndromeCopy, sent, noise>>

RsDecode ==
  \/ ReceiveClean \/ ReceiveDamaged
  \/ Describes \/ Lengthen \/ Adjust
  \/ FactorizeFails \/ Factorize \/ Correct

Next == InitRs \/ DestroyRs \/ RsEncode \/ RsDecode

Spec == Init /\ [][Next]_vars

-----------------------------------------------------------------------------
(* Properties *)

\* The decoder's numbers keep their ranges, and the logarithm taken for the
\* location of an error is an index of the block, for the error at power 0 too.
TypeOK ==
  /\ rs \in {"null", "live", "freed"}
  /\ phase \in {"idle", "encoded", "locating", "correcting", "returned"}
  /\ code \in {"none", "SUCCESS", "REED_SOL_DEC_ERR"}
  /\ i \in 0..MinDistance /\ numerrors \in 0..MinDistance
  /\ delayLength \in 1..(MinDistance + 1)
  /\ receivedPolynomial \in [Powers -> Elements]
  /\ \A k \in DOMAIN errorLocations : errorLocations[k] \in Powers \cup Junk

\* "the bounds here will be ok since we have a headroom of numerrors": no
\* iteration of the locator search writes behind coeff[MinDistance], and at the
\* end there are no more roots to look for than error_vals has room for.  What the
\* search for them stores is RootsStored.
InsideBuffers ==
  /\ More => Top <= MinDistance
  /\ phase \in {"locating", "correcting"} => FullOrder <= MinDistance

\* find_error_locator returns the order of its polynomial where its comment
\* promises the number of errors; the two never part, and neither the swap of
\* the locators nor the branch without it loses a coefficient by its order.
LengthExact ==
  phase = "locating" => errorLocator.order = numerrors /\ (More => Top = i + 1 - numerrors)

\* the first n syndromes follow the recurrence a of length l
Follows(a, l, n) ==
  \A k \in l..(n - 1) :
    Add(syndromes[k], Sum(l, [j \in 0..(l - 1) |-> Mul(a[j + 1], syndromes[k - j - 1])])) = 0

\* What makes it the locator of the errors: after every iteration the syndromes read so
\* far follow the recurrence that its coefficients are, although only one of them
\* is looked at, and the correction is made of a locator that was put aside
\* any number of iterations before.
LocatorFollows == phase = "locating" => Follows(errorLocator.coeff, numerrors, i)

\* And no shorter recurrence does, so that no fewer errors explain the syndromes:
\* the locator never grows more than it must, whichever order the three ways come in.
LocatorShortest ==
  phase = "locating" =>
    \A l \in 0..(numerrors - 1) : \A a \in [1..l -> Elements] : ~Follows(a, l, i)

Erasures == {erased[k] : k \in 1..Len(erased)}
Damaged == {p \in Powers : noise[p] # 0}

\* The locator is evaluated inside its table of powers as long as fewer than
\* MinDistance symbols are damaged.
PowersSuffice ==
  Located /\ Cardinality(Damaged) < MinDistance => errorLocator.order < MinDistance

\* twice the errors and the erasures are at most MinDistance, no symbol erased twice
Correctable ==
  /\ 2 * Cardinality(Damaged \ Erasures) + Len(erased) <= MinDistance
  /\ Cardinality(Erasures) = Len(erased)

\* Whatever the decoder's buffers hold from earlier calls, a block that can be
\* corrected comes out as it was sent.
DecodeRestores ==
  phase = "returned" /\ Correctable => code = "SUCCESS" /\ receivedPolynomial = sent

\* However many symbols are damaged, rsDecode fails or returns what some message
\* was encoded to, never a block that is no codeword.  (Without erasures, and
\* unless the table of powers was left, see PowersSuffice.)
OnlyCodewords ==
  /\ phase = "returned" /\ code = "SUCCESS" /\ erased = <<>>
  /\ errorLocator.order < MinDistance
  => receivedPolynomial =
       Encoded([k \in 0..(MessageLength - 1) |-> receivedPolynomial[k + MinDistance]])
=============================================================================
