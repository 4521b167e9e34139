---------------------- MODULE HybridCovarianceSamples ----------------------
(***************************************************************************)
(* Proof that doRandomize of ErrorCovariance.h draws samples with the      *)
(* covariance doMultiply applies (RandomizeIsSquareRoot), for every value  *)
(* of the constants whose central blocks do not include ID.  With ID the   *)
(* property fails (run hybrid_id): ID::randomize leaves doRandomize's zero *)
(* field set as it is, so an ID component contributes no sample.           *)
(*                                                                         *)
(* The results of both handlers are the closed forms of the refinement     *)
(* proof.  The randomize half is a FlattenSeq, and its value is pinned     *)
(* down by an explicit solution of its recursion together with the         *)
(* uniqueness fact that doRandomize's loop leaves behind.  The covariance  *)
(* of a sample is its word, transposed, around the central block, and the  *)
(* lemmas on AdjWord turn it into the matching term of doMultiply.         *)
(***************************************************************************)
EXTENDS HybridCovarianceRefinement

\* Dropping the first symbol of a word that starts with o.
LEMMA TailCons ==
  ASSUME NEW o \in Ops, NEW w \in Seq(Ops)
  PROVE  Tail(<<o>> \o w) = w
<1>1. <<o>> \o w \in Seq(Ops) /\ Len(<<o>> \o w) = Len(w) + 1
  OBVIOUS
<1>2. \A k \in 1..Len(w) : (<<o>> \o w)[k + 1] = w[k]
  OBVIOUS
<1>. QED
  BY <1>1, <1>2

\* An operator symbol transposed is again an operator symbol.
LEMMA AdjType ==
  ASSUME NEW o \in Ops
  PROVE  Adj(o) \in Ops
BY DEF Adj, Ops, OpKinds

\* The transpose of a word is a word of the same length.
LEMMA AdjWordType ==
  ASSUME NEW w \in Seq(Ops)
  PROVE  /\ AdjWord(w) \in Seq(Ops)
         /\ Len(AdjWord(w)) = Len(w)
         /\ \A i \in 1..Len(w) : AdjWord(w)[i] = Adj(w[Len(w) - i + 1])
<1>. DEFINE v == [i \in DOMAIN w |-> Adj(w[i])]
            n == Len(w)
<1>1. v \in Seq(Ops) /\ Len(v) = n /\ n \in Nat
  BY AdjType
<1>2. AdjWord(w) = [i \in 1..n |-> v[n - i + 1]]
  BY <1>1 DEF AdjWord, Reverse
<1>3. \A i \in 1..n : n - i + 1 \in 1..n /\ v[n - i + 1] \in Ops
  BY <1>1
<1>. HIDE DEF v, n
<1>4. AdjWord(w) \in Seq(Ops) /\ Len(AdjWord(w)) = n
  BY <1>1, <1>2, <1>3
<1>. QED
  BY <1>2, <1>3, <1>4 DEF v, n

\* The transpose of a product is the product of the transposes, reversed.
LEMMA AdjWordConcat ==
  ASSUME NEW a \in Seq(Ops), NEW b \in Seq(Ops)
  PROVE  AdjWord(a \o b) = AdjWord(b) \o AdjWord(a)
<1>. DEFINE A == Len(a)
            B == Len(b)
<1>1. /\ AdjWord(a \o b) \in Seq(Ops) /\ Len(AdjWord(a \o b)) = A + B
      /\ \A i \in 1..(A + B) : AdjWord(a \o b)[i] = Adj((a \o b)[A + B - i + 1])
  <2>1. a \o b \in Seq(Ops) /\ Len(a \o b) = A + B
    OBVIOUS
  <2>2. /\ AdjWord(a \o b) \in Seq(Ops)
        /\ Len(AdjWord(a \o b)) = Len(a \o b)
        /\ \A i \in 1..Len(a \o b) :
             AdjWord(a \o b)[i] = Adj((a \o b)[Len(a \o b) - i + 1])
    BY <2>1, AdjWordType, Zenon
  <2>. QED
    BY <2>1, <2>2
<1>2. /\ AdjWord(a) \in Seq(Ops) /\ Len(AdjWord(a)) = A
      /\ \A i \in 1..A : AdjWord(a)[i] = Adj(a[A - i + 1])
      /\ AdjWord(b) \in Seq(Ops) /\ Len(AdjWord(b)) = B
      /\ \A i \in 1..B : AdjWord(b)[i] = Adj(b[B - i + 1])
  BY AdjWordType
<1>3. \A i \in 1..(A + B) :
        AdjWord(a \o b)[i] = (AdjWord(b) \o AdjWord(a))[i]
  <2>. TAKE i \in 1..(A + B)
  <2>0. i <= B \/ i > B
    BY DEF B
  <2>1. CASE i <= B
    <3>1. (a \o b)[A + B - i + 1] = b[B - i + 1]
      BY <2>1
    <3>2. (AdjWord(b) \o AdjWord(a))[i] = AdjWord(b)[i]
      BY <1>2, <2>1
    <3>. QED
      BY <1>1, <1>2, <2>1, <3>1, <3>2
  <2>2. CASE i > B
    <3>1. (a \o b)[A + B - i + 1] = a[A - (i - B) + 1]
      BY <2>2
    <3>2. (AdjWord(b) \o AdjWord(a))[i] = AdjWord(a)[i - B]
      BY <1>2, <2>2
    <3>3. i - B \in 1..A /\ A + B - i + 1 = A - (i - B) + 1
      BY <2>2
    <3>4. AdjWord(a)[i - B] = Adj(a[A - (i - B) + 1])
      BY <1>2, <3>3
    <3>. QED
      BY <1>1, <3>1, <3>2, <3>4
  <2>. QED
    BY <2>0, <2>1, <2>2, Zenon
<1>4. /\ AdjWord(b) \o AdjWord(a) \in Seq(Ops)
      /\ Len(AdjWord(b) \o AdjWord(a)) = A + B
  <2>1. /\ AdjWord(a) \in Seq(Ops) /\ Len(AdjWord(a)) = A
        /\ AdjWord(b) \in Seq(Ops) /\ Len(AdjWord(b)) = B
    BY AdjWordType
  <2>. QED
    BY <2>1
<1>. QED
  BY <1>1, <1>3, <1>4

\* Transposing an outer block applies its adjoint.
LEMMA AdjOuter ==
  ASSUME NEW c, NEW p
  PROVE  Adj(OuterOp(c, p, FALSE)) = OuterOp(c, p, TRUE)
<1>1. Adj(OuterOp(c, p, FALSE)) = [OuterOp(c, p, FALSE) EXCEPT !.ad = TRUE]
  BY DEF Adj, OuterOp
<1>. QED
  BY <1>1 DEF OuterOp

\* The transpose of a chain's outer blocks is applyOuterBlocksAD's word.
LEMMA AdjFwd ==
  ASSUME NEW c \in 0..MaxComps, NEW n \in 0..MaxOuter
  PROVE  AdjWord(FwdWord(c, n)) = ADWord(c, n)
<1>1. FwdWord(c, n) \in Seq(Ops) /\ Len(FwdWord(c, n)) = n
  <2>1. FwdWord(c, n) \in Seq(Ops)
    BY ChainWordType
  <2>2. n \in Nat /\ DOMAIN FwdWord(c, n) = 1..n
    BY MaxOuterAssumption DEF FwdWord
  <2>. QED
    BY <2>1, <2>2
<1>2. /\ AdjWord(FwdWord(c, n)) \in Seq(Ops)
      /\ Len(AdjWord(FwdWord(c, n))) = n
      /\ \A i \in 1..n : AdjWord(FwdWord(c, n))[i] = Adj(FwdWord(c, n)[n - i + 1])
  BY <1>1, AdjWordType, Zenon
<1>3. \A i \in 1..n : Adj(FwdWord(c, n)[n - i + 1]) = ADWord(c, n)[i]
  <2>. TAKE i \in 1..n
  <2>1. n - i + 1 \in 1..n /\ n + 1 - i = n - i + 1
    BY MaxOuterAssumption
  <2>2. FwdWord(c, n)[n - i + 1] = OuterOp(c, n - i + 1, FALSE)
    BY <2>1 DEF FwdWord
  <2>3. ADWord(c, n)[i] = OuterOp(c, n - i + 1, TRUE)
    BY <2>1 DEF ADWord
  <2>. QED
    BY <2>2, <2>3, AdjOuter
<1>4. ADWord(c, n) \in Seq(Ops) /\ Len(ADWord(c, n)) = n
  <2>1. ADWord(c, n) \in Seq(Ops)
    BY ChainWordType
  <2>2. n \in Nat /\ DOMAIN ADWord(c, n) = 1..n
    BY MaxOuterAssumption DEF ADWord
  <2>. QED
    BY <2>1, <2>2
<1>. QED
  BY <1>2, <1>3, <1>4

\* A field weight is self-adjoint, and so is the empty word.
LEMMA AdjFieldWeight ==
  ASSUME NEW j
  PROVE  /\ AdjWord(<<FieldWeightOp(j)>>) = <<FieldWeightOp(j)>>
         /\ AdjWord(<< >>) = << >>
<1>1. Adj(FieldWeightOp(j)) = FieldWeightOp(j)
  BY DEF Adj, FieldWeightOp
<1>. QED
  BY <1>1 DEF AdjWord, Reverse

-----------------------------------------------------------------------------
\* What doRandomize's loop leaves behind once it has returned: every
\* solution of FlattenSeq's recursion over the component samples ends in
\* the sample returned.
SampleUnique ==
  "randomize" \in returned =>
    \A g : FlatRec(g, Smp, Len(hybridBlockChain)) =>
      Len(hybridBlockChain) = 0 \/ g[Len(hybridBlockChain)] = randOut

QInv == RInv /\ SampleUnique

LEMMA InitQInv == Init => QInv
BY InitRInv DEF Init, QInv, SampleUnique

LEMMA NextQInv == QInv /\ [Next]_vars => QInv'
<1>. SUFFICES ASSUME QInv, [Next]_vars PROVE QInv'
  OBVIOUS
<1>0. RInv' /\ MInv
  BY NextRInv DEF QInv, RInv
<1>1. CASE ConstructHybrid \/ ConstructSingle
  <2>1. pc = "unbuilt" /\ UNCHANGED returned
    BY <1>1 DEF ConstructHybrid, ConstructSingle
  <2>2. returned' = {}
    BY <1>0, <2>1 DEF MInv
  <2>. QED
    BY <1>0, <2>2 DEF QInv, SampleUnique
<1>2. CASE RandomizeFinish
  <2>1. /\ pc = "randomize" /\ jj > Len(hybridBlockChain)
        /\ randOut' = ApplyOuterBlocks(0, outerBlockChain, dxo)
        /\ UNCHANGED config
    BY <1>2 DEF RandomizeFinish
  <2>2. jj - 1 = Len(hybridBlockChain)
    BY <1>0, <2>1 DEF MInv, IInv, TypeOK
  <2>3. UNCHANGED hybridBlockChain
    BY <2>1 DEF config
  <2>4. SampleAcc
    BY <2>1 DEF QInv, RInv
  <2>. QED
    BY <1>0, <2>1, <2>2, <2>3, <2>4, SmpUnchanged DEF QInv, SampleUnique, SampleAcc
<1>3. CASE \/ MultiplyStart \/ MultiplyComponent \/ MultiplyFinish
           \/ RandomizeStart \/ RandomizeComponent \/ UNCHANGED vars
  <2>1. /\ UNCHANGED <<config, randOut>>
        /\ ("randomize" \in returned') = ("randomize" \in returned)
    BY <1>3 DEF MultiplyStart, MultiplyComponent, MultiplyFinish,
                RandomizeStart, RandomizeComponent, vars
  <2>2. UNCHANGED hybridBlockChain
    BY <2>1 DEF config
  <2>. QED
    BY <1>0, <2>1, <2>2, SmpUnchanged DEF QInv, SampleUnique
<1>. QED
  BY <1>1, <1>2, <1>3 DEF Next

-----------------------------------------------------------------------------
\* The one term a non-ID component's sample holds, and the first i of them.
SampleRec(j) == SampleOf(config, j)[1]
FlatSamples(i) == [m \in 1..i |-> SampleRec(m)]

\* Without ID, every component's sample is one term.
LEMMA SampleSingleton ==
  ASSUME TypeOK, "ID" \notin CentralBlocks,
         NEW j \in 1..Len(hybridBlockChain)
  PROVE  Smp[j] = <<SampleRec(j)>>
<1>1. hybridBlockChain[j] \in Chains
  BY DEF TypeOK
<1>2. hybridBlockChain[j].central # "ID"
  BY <1>1 DEF Chains
<1>3. SampleOf(config, j) = <<SampleOf(config, j)[1]>>
  BY <1>2 DEF SampleOf, config
<1>. QED
  BY <1>3 DEF Smp, SampleRec, TypeOK

\* Without ID, the prefixes of the sample terms solve FlattenSeq's
\* recursion over the component samples.
LEMMA ExplicitFlat ==
  ASSUME TypeOK, "ID" \notin CentralBlocks
  PROVE  FlatRec([i \in 1..Len(hybridBlockChain) |-> FlatSamples(i)], Smp,
                 Len(hybridBlockChain))
<1>. DEFINE L == Len(hybridBlockChain)
            S == {SampleRec(m) : m \in 1..L}
<1>0. L \in Nat
  BY DEF TypeOK
<1>1. \A i \in 1..L : FlatSamples(i) =
        IF i = 1 THEN Smp[i] ELSE FlatSamples(i - 1) \o Smp[i]
  <2>. TAKE i \in 1..L
  <2>1. Smp[i] = <<SampleRec(i)>>
    BY SampleSingleton
  <2>2. CASE i = 1
    <3>1. FlatSamples(1) = <<SampleRec(1)>>
      BY DEF FlatSamples
    <3>. QED
      BY <2>1, <2>2, <3>1
  <2>3. CASE i # 1
    <3>1. /\ FlatSamples(i - 1) \in Seq(S) /\ Len(FlatSamples(i - 1)) = i - 1
          /\ \A m \in 1..(i - 1) : FlatSamples(i - 1)[m] = SampleRec(m)
      BY <1>0, <2>3 DEF FlatSamples
    <3>2. /\ FlatSamples(i) \in Seq(S) /\ Len(FlatSamples(i)) = i
          /\ \A m \in 1..i : FlatSamples(i)[m] = SampleRec(m)
      BY <1>0 DEF FlatSamples
    <3>3. <<SampleRec(i)>> \in Seq(S)
      OBVIOUS
    <3>. HIDE DEF FlatSamples, SampleRec
    <3>4. FlatSamples(i) = FlatSamples(i - 1) \o <<SampleRec(i)>>
      <4>. DEFINE r == FlatSamples(i - 1) \o <<SampleRec(i)>>
      <4>0. i - 1 \in Nat /\ i \in Nat \ {0}
        BY <2>3
      <4>1. r \in Seq(S) /\ Len(r) = i
        BY <3>1, <3>3, <4>0
      <4>2. \A m \in 1..(i - 1) : r[m] = SampleRec(m)
        BY <3>1, <3>3, <4>0
      <4>3. r[i] = SampleRec(i)
        BY <3>1, <3>3, <4>0
      <4>. HIDE DEF r
      <4>4. \A m \in 1..i : r[m] = FlatSamples(i)[m]
        <5>. TAKE m \in 1..i
        <5>1. m \in 1..(i - 1) \/ m = i
          BY <4>0
        <5>. QED
          BY <3>2, <4>2, <4>3, <5>1
      <4>5. r = FlatSamples(i)
        BY <3>2, <4>1, <4>4
      <4>. QED
        BY <4>5 DEF r
    <3>. QED
      BY <2>1, <2>3, <3>4
  <2>. QED
    BY <2>2, <2>3
<1>. DEFINE G == [i \in 1..L |-> FlatSamples(i)]
<1>2. \A i \in 1..L : G[i] = IF i = 1 THEN Smp[i] ELSE G[i - 1] \o Smp[i]
  <2>. TAKE i \in 1..L
  <2>1. i # 1 => i - 1 \in 1..L
    BY <1>0
  <2>. HIDE DEF FlatSamples
  <2>. QED
    BY <1>1, <2>1
<1>. HIDE DEF G
<1>. QED
  BY <1>2 DEF FlatRec, G

\* The covariance of a non-ID component's sample is that component's term
\* of doMultiply: the sample's word after L_j, transposed, around C_j.
LEMMA CovarianceTerm ==
  ASSUME TypeOK, NEW i \in 1..Len(hybridBlockChain),
         hybridBlockChain[i].central # "ID"
  PROVE  HybridTermOf(config, i) = CovarianceOf(SampleRec(i))
<1>. DEFINE n == hybridBlockChain[i].nOuter
            c1 == outerBlockChain
            fw == IF hybridFieldWeightSqrt[i] THEN <<FieldWeightOp(i)>> ELSE << >>
            F1 == FwdWord(i, n)
            F0 == FwdWord(0, c1)
            A1 == ADWord(i, n)
            A0 == ADWord(0, c1)
            so == SqrtOp(i)
            co == CentralOp(i)
            sc1 == [ZeroSc EXCEPT ![i] = IF hybridScalarWeightSqrt[i] # "1.0"
                                         THEN 1 ELSE 0]
            sc2 == [ZeroSc EXCEPT ![i] = IF hybridScalarWeightSqrt[i] # "1.0"
                                         THEN 2 ELSE 0]
<1>1. hybridBlockChain[i] \in Chains
  BY DEF TypeOK
<1>2. n \in 0..MaxOuter /\ c1 \in 0..MaxOuter
  BY <1>1 DEF TypeOK, Chains
<1>3. i \in Comps /\ i \in 0..MaxComps /\ 0 \in 0..MaxComps
  BY MaxCompsAssumption DEF TypeOK, Comps
<1>4. F1 \in Seq(Ops) /\ F0 \in Seq(Ops) /\ A1 \in Seq(Ops) /\ A0 \in Seq(Ops)
  BY <1>2, <1>3, ChainWordType
<1>5. fw \in Seq(Ops) /\ SqrtOp(i) \in Ops /\ CentralOp(i) \in Ops
  <2>1. FieldWeightOp(i) \in Ops
    BY <1>3, MaxOuterAssumption DEF FieldWeightOp, Ops, OpKinds
  <2>2. SqrtOp(i) \in Ops /\ CentralOp(i) \in Ops
    BY <1>3, MaxOuterAssumption DEF SqrtOp, CentralOp, Ops, OpKinds
  <2>. QED
    BY <2>1, <2>2
<1>6. AdjWord(fw) = fw
  BY AdjFieldWeight
<1>7. AdjWord(F0) = A0 /\ AdjWord(F1) = A1
  BY <1>2, <1>3, AdjFwd
<1>8. SampleRec(i) = [src |-> i, sc |-> sc1,
                      word |-> <<SqrtOp(i)>> \o F1 \o fw \o F0]
  BY DEF SampleRec, SampleOf, config
<1>9. HybridTermOf(config, i) =
        [src |-> 0, sc |-> sc2,
         word |-> A0 \o fw \o A1 \o <<co>> \o F1 \o fw \o F0]
  BY DEF HybridTermOf, config
<1>10. [c \in Comps |-> 2 * sc1[c]] = sc2
  <2>. DEFINE v1 == IF hybridScalarWeightSqrt[i] # "1.0" THEN 1 ELSE 0
              v2 == IF hybridScalarWeightSqrt[i] # "1.0" THEN 2 ELSE 0
  <2>1. sc1 = [c \in Comps |-> IF c = i THEN v1 ELSE 0]
    BY <1>3 DEF ZeroSc
  <2>2. sc2 = [c \in Comps |-> IF c = i THEN v2 ELSE 0]
    BY <1>3 DEF ZeroSc
  <2>3. 2 * v1 = v2
    OBVIOUS
  <2>. HIDE DEF sc1, sc2, v1, v2
  <2>. QED
    BY <2>1, <2>2, <2>3
<1>. HIDE DEF n, c1, fw, F1, F0, A1, A0, so, co, sc1, sc2
<1>11. CovarianceOf(SampleRec(i)) =
         [src |-> 0, sc |-> [c \in Comps |-> 2 * sc1[c]],
          word |-> A0 \o fw \o A1 \o <<co>> \o F1 \o fw \o F0]
  <2>0. so \in Ops /\ co \in Ops
    BY <1>5 DEF so, co
  <2>1. F1 \o fw \in Seq(Ops) /\ F1 \o fw \o F0 \in Seq(Ops)
    BY <1>4, <1>5
  <2>2. <<so>> \o F1 \o fw \o F0 = <<so>> \o (F1 \o fw \o F0)
    BY <1>4, <1>5, <2>0, SMTT(60)
  <2>3. Tail(<<so>> \o F1 \o fw \o F0) = F1 \o fw \o F0
    BY <2>0, <2>1, <2>2, TailCons
  <2>4. AdjWord(F1 \o fw \o F0) = A0 \o fw \o A1
    <3>1. AdjWord(F1 \o fw \o F0) = AdjWord(F0) \o AdjWord(F1 \o fw)
      BY <1>4, <2>1, AdjWordConcat
    <3>2. AdjWord(F1 \o fw) = AdjWord(fw) \o AdjWord(F1)
      BY <1>4, <1>5, AdjWordConcat
    <3>3. A0 \o (fw \o A1) = A0 \o fw \o A1
      BY <1>4, <1>5, SMTT(60)
    <3>. QED
      BY <1>6, <1>7, <3>1, <3>2, <3>3
  <2>5. (A0 \o fw \o A1 \o <<co>>) \o (F1 \o fw \o F0)
          = A0 \o fw \o A1 \o <<co>> \o F1 \o fw \o F0
    BY <1>4, <1>5, <2>0, SMTT(60)
  <2>6. /\ SampleRec(i).word = <<so>> \o F1 \o fw \o F0
        /\ SampleRec(i).src = i /\ SampleRec(i).sc = sc1
    BY <1>8 DEF so
  <2>7. CentralOp(SampleRec(i).src) = co
    BY <2>6 DEF co
  <2>8. AdjWord(Tail(SampleRec(i).word)) \o <<CentralOp(SampleRec(i).src)>>
          \o Tail(SampleRec(i).word)
        = A0 \o fw \o A1 \o <<co>> \o F1 \o fw \o F0
    BY <2>3, <2>4, <2>5, <2>6, <2>7
  <2>. QED
    BY <2>6, <2>8 DEF CovarianceOf
<1>. QED
  BY <1>9, <1>10, <1>11

\* A non-ID component's sample term comes from that component and starts
\* with its square root L_j (doRandomize's first call on the component).
LEMMA SampleShape ==
  ASSUME TypeOK, NEW i \in 1..Len(hybridBlockChain),
         hybridBlockChain[i].central # "ID"
  PROVE  /\ SampleRec(i).src = i
         /\ SampleRec(i).word # << >>
         /\ Head(SampleRec(i).word) = SqrtOp(i)
<1>. DEFINE n == hybridBlockChain[i].nOuter
            fw == IF hybridFieldWeightSqrt[i] THEN <<FieldWeightOp(i)>> ELSE << >>
            F1 == FwdWord(i, n)
            F0 == FwdWord(0, outerBlockChain)
            so == SqrtOp(i)
<1>0. hybridBlockChain[i] \in Chains
  BY DEF TypeOK
<1>1. n \in 0..MaxOuter /\ outerBlockChain \in 0..MaxOuter
  BY <1>0 DEF TypeOK, Chains
<1>2. i \in 0..MaxComps /\ 0 \in 0..MaxComps
  BY MaxCompsAssumption DEF TypeOK
<1>3. F1 \in Seq(Ops) /\ F0 \in Seq(Ops)
  BY <1>1, <1>2, ChainWordType
<1>4. fw \in Seq(Ops) /\ so \in Ops
  <2>1. FieldWeightOp(i) \in Ops
    BY <1>2, MaxOuterAssumption DEF FieldWeightOp, Ops, OpKinds
  <2>2. SqrtOp(i) \in Ops
    BY <1>2, MaxOuterAssumption DEF SqrtOp, Ops, OpKinds
  <2>. QED
    BY <2>1, <2>2
<1>5. SampleRec(i).src = i /\ SampleRec(i).word = <<so>> \o F1 \o fw \o F0
  BY DEF SampleRec, SampleOf, config
<1>. HIDE DEF n, fw, F1, F0, so
<1>6. <<so>> \o F1 \o fw \o F0 # << >> /\ Head(<<so>> \o F1 \o fw \o F0) = so
  BY <1>3, <1>4, SMTT(60)
<1>. QED
  BY <1>5, <1>6 DEF so

\* Once both operations have returned, the samples are the sample terms of
\* the components in order.
LEMMA RandOutTerms ==
  ASSUME QInv, "ID" \notin CentralBlocks, "randomize" \in returned
  PROVE  randOut = FlatSamples(Len(hybridBlockChain))
<1>. DEFINE L == Len(hybridBlockChain)
<1>1. TypeOK /\ L \in Nat
  BY DEF QInv, RInv, MInv, IInv, TypeOK
<1>2. CASE L = 0
  <2>1. randOut = HybridSample(config)
    BY DEF QInv, RInv
  <2>2. HybridSample(config) = FlattenSeq(Smp)
    BY DEF HybridSample, Smp, config
  <2>3. Len(Smp) = 0 /\ Smp = << >>
    BY <1>1, <1>2 DEF Smp, TypeOK
  <2>4. FlattenSeq(Smp) = << >> /\ FlatSamples(L) = << >>
    BY <1>2, <2>3 DEF FlattenSeq, FlatSamples
  <2>. QED
    BY <2>1, <2>2, <2>4
<1>3. CASE L # 0
  <2>1. FlatRec([i \in 1..L |-> FlatSamples(i)], Smp, L)
    BY <1>1, ExplicitFlat
  <2>2. [i \in 1..L |-> FlatSamples(i)][L] = randOut
    BY <1>3, <2>1 DEF QInv, SampleUnique
  <2>3. L \in 1..L
    BY <1>1, <1>3
  <2>. QED
    BY <2>2, <2>3
<1>. QED
  BY <1>2, <1>3

\* The inductive invariant, with no ID component, implies that
\* doRandomize's samples have doMultiply's covariance.
LEMMA SquareRootState ==
  ASSUME QInv, "ID" \notin CentralBlocks
  PROVE  RandomizeIsSquareRoot
<1>. SUFFICES ASSUME returned = {"multiply", "randomize"}
              PROVE  /\ Len(randOut) = Len(multOut)
                     /\ \A i \in DOMAIN randOut :
                          /\ randOut[i].src = i
                          /\ randOut[i].word # <<>>
                          /\ Head(randOut[i].word) = SqrtOp(i)
                          /\ multOut[i] = CovarianceOf(randOut[i])
  BY DEF RandomizeIsSquareRoot
<1>. DEFINE L == Len(hybridBlockChain)
<1>1. TypeOK /\ L \in Nat /\ DOMAIN hybridBlockChain = 1..L
  BY DEF QInv, RInv, MInv, IInv, TypeOK
<1>2. randOut = [m \in 1..L |-> SampleRec(m)]
  BY RandOutTerms DEF FlatSamples
<1>3. multOut = [j \in 1..L |-> HybridTermOf(config, j)]
  <2>1. multOut = HybridSum(config)
    BY DEF QInv, RInv, MInv, MultiplyIsHybridSum
  <2>. QED
    BY <1>1, <2>1 DEF HybridSum, config
<1>4. Len(randOut) = L /\ Len(multOut) = L /\ DOMAIN randOut = 1..L
  BY <1>1, <1>2, <1>3
<1>5. ASSUME NEW i \in 1..L
      PROVE  /\ randOut[i].src = i
             /\ randOut[i].word # <<>>
             /\ Head(randOut[i].word) = SqrtOp(i)
             /\ multOut[i] = CovarianceOf(randOut[i])
  <2>0. hybridBlockChain[i] \in Chains
    BY <1>1 DEF TypeOK
  <2>1. hybridBlockChain[i].central # "ID"
    BY <2>0 DEF Chains
  <2>2. randOut[i] = SampleRec(i) /\ multOut[i] = HybridTermOf(config, i)
    BY <1>2, <1>3
  <2>. QED
    BY <1>1, <2>1, <2>2, SampleShape, CovarianceTerm
<1>. QED
  BY <1>4, <1>5

\* Theorem: in every behaviour of a hybrid covariance with no ID component,
\* once doMultiply and doRandomize have both returned on the same
\* configuration, the samples doRandomize returned have the covariance
\* doMultiply applies: one term per component, each starting with that
\* component's L_j, with K C_j K^t as its covariance.  (With ID the
\* property fails: the hybrid_id run shows doRandomize skipping ID's term.)
THEOREM RandomizeSquareRootProof ==
  ASSUME "ID" \notin CentralBlocks
  PROVE  Spec => []RandomizeIsSquareRoot
<1>1. Init => QInv
  BY InitQInv
<1>2. QInv /\ [Next]_vars => QInv'
  BY NextQInv
<1>3. QInv => RandomizeIsSquareRoot
  BY SquareRootState
<1>. QED
  BY <1>1, <1>2, <1>3, PTL DEF Spec
=============================================================================
