---------------------------- MODULE ReedSolomonMC ----------------------------
(***************************************************************************)
(* Scripts over a field of eight elements: every message is encoded and    *)
(* read back; every noise of up to three symbols is decoded by a codec     *)
(* that is new, or has decoded one of a few blocks before.                 *)
(***************************************************************************)
EXTENDS ReedSolomon

Quiet == Zeros(BlockLength - 1)
Noises(n) ==
  UNION {{[p \in Powers |-> IF p \in S THEN e[p] ELSE 0] : e \in [S -> 1..FieldMax]} :
         S \in {T \in SUBSET Powers : Cardinality(T) <= n}}

\* noise of any weight, and one whose syndromes are zero but for the last
Wild == {[p \in Powers |-> (a * p + b) % (FieldMax + 1)] : a, b \in Elements}
        \cup {LET g == FromRoots(GeneratorRoots, MinDistance - 1)
              IN  [p \in Powers |-> IF p < MinDistance THEN g[p] ELSE 0]}

AMessage == [k \in 0..(MessageLength - 1) |-> k + 1]
Call(msg, e, locations) == [msg |-> msg, noise |-> e, erased |-> locations]

At(p, x) == [Quiet EXCEPT ![p] = x]
Before == {Call(AMessage, At(0, 5), <<>>),
           Call(AMessage, [At(6, 1) EXCEPT ![2] = 7], <<>>),
           Call(AMessage, [At(3, 4) EXCEPT ![0] = 1, ![5] = 6], <<>>)}

ErasedOnce == {<<>>, <<0>>, <<6, 3>>, <<5, 2, 4>>, <<1, 0, 6, 4>>}

MCScripts ==
  {<<Call(m, Quiet, <<>>)>> : m \in [0..(MessageLength - 1) -> Elements]}
  \cup {<<Call(AMessage, e, <<>>)>> : e \in Noises(3) \cup Wild}
  \cup {<<b, Call(AMessage, e, <<>>)>> : b \in Before, e \in Noises(2)}
  \cup {<<Call(AMessage, e, s)>> : e \in Noises(2), s \in ErasedOnce}
  \cup {<<Call(AMessage, Quiet, s), Call(AMessage, e, <<>>)>> : e \in Noises(1), s \in ErasedOnce}
=============================================================================
