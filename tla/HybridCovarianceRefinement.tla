--------------------- MODULE HybridCovarianceRefinement ---------------------
(***************************************************************************)
(* Proof that the hybrid combiner of ErrorCovariance.h implements its      *)
(* contract HybridCovarianceContract under the refinement mapping of       *)
(* HybridCovariance, for every value of the constants.  doMultiply's half  *)
(* rests on MInv of HybridCovarianceProofs.  doRandomize's half needs what *)
(* its loop has accumulated: the closed form is a FlattenSeq, whose local  *)
(* recursive function the provers cannot unfold by induction, so the loop  *)
(* invariant carries that induction itself.  It says that the recursion    *)
(* of FlattenSeq has a solution up to the components visited, and that     *)
(* every solution ends in what dxo holds.                                  *)
(***************************************************************************)
EXTENDS HybridCovarianceProofs

\* g solves the recursion of FlattenSeq's local function over 1..k of s.
FlatRec(g, s, k) == g = [i \in 1..k |-> IF i = 1 THEN s[i] ELSE g[i - 1] \o s[i]]

\* A unique last value of the recursion over the whole of s is FlattenSeq(s).
LEMMA FlattenByRec ==
  ASSUME NEW s, NEW v, Len(s) \in Nat \ {0},
         \E g : FlatRec(g, s, Len(s)),
         \A g : FlatRec(g, s, Len(s)) => g[Len(s)] = v
  PROVE  FlattenSeq(s) = v
<1>1. Len(s) # 0
  OBVIOUS
<1>. QED
  BY <1>1 DEF FlattenSeq, FlatRec

\* Appending a word distributes over the sum of two fields.
LEMMA ApplyWordConcat ==
  ASSUME NEW w \in Seq(Ops), NEW f \in Fields, NEW h \in Fields
  PROVE  ApplyWord(w, f \o h) = ApplyWord(w, f) \o ApplyWord(w, h)
<1>1. f \in Seq(Terms) /\ h \in Seq(Terms) /\ f \o h \in Seq(Terms)
  BY DEF Fields
<1>2. ApplyWord(w, f) \in Fields /\ ApplyWord(w, h) \in Fields
      /\ ApplyWord(w, f \o h) \in Fields
  BY <1>1, ApplyWordType DEF Fields
<1>3. /\ Len(ApplyWord(w, f)) = Len(f) /\ Len(ApplyWord(w, h)) = Len(h)
      /\ Len(ApplyWord(w, f \o h)) = Len(f) + Len(h)
  BY <1>1, <1>2 DEF ApplyWord, Fields
<1>4. ASSUME NEW i \in 1..(Len(f) + Len(h))
      PROVE  ApplyWord(w, f \o h)[i] = (ApplyWord(w, f) \o ApplyWord(w, h))[i]
  <2>a. i \in DOMAIN (f \o h) /\ Len(f) \in Nat /\ i \in Nat
    BY <1>1
  <2>0. ApplyWord(w, f \o h)[i] = [(f \o h)[i] EXCEPT !.word = @ \o w]
    BY <2>a, Zenon DEF ApplyWord
  <2>1. CASE i <= Len(f)
    <3>1. (f \o h)[i] = f[i] /\ i \in DOMAIN f
      BY <1>1, <2>1
    <3>2. (ApplyWord(w, f) \o ApplyWord(w, h))[i] = ApplyWord(w, f)[i]
      BY <1>2, <1>3, <2>1 DEF Fields
    <3>. QED
      BY <2>0, <3>1, <3>2 DEF ApplyWord
  <2>2. CASE i > Len(f)
    <3>1. (f \o h)[i] = h[i - Len(f)] /\ i - Len(f) \in DOMAIN h
      BY <1>1, <2>2
    <3>2. (ApplyWord(w, f) \o ApplyWord(w, h))[i] = ApplyWord(w, h)[i - Len(f)]
      BY <1>2, <1>3, <2>2 DEF Fields
    <3>. QED
      BY <2>0, <3>1, <3>2 DEF ApplyWord
  <2>b. i <= Len(f) \/ i > Len(f)
    BY <2>a
  <2>. QED
    BY <2>b, <2>1, <2>2, Zenon
<1>. QED
  BY <1>1, <1>2, <1>3, <1>4 DEF Fields

\* The empty field is left empty by every term operator.
LEMMA EmptyField ==
  ASSUME NEW w, NEW j
  PROVE  /\ ApplyWord(w, << >>) = << >>
         /\ ScaleBy(j, << >>) = << >>
BY DEF ApplyWord, ScaleBy

\* One iteration of the doRandomize loop adds the field that, through the
\* common outer blocks, is component j's sample of spec 4.3.
LEMMA SampleTerm ==
  ASSUME TypeOK, NEW j \in 1..Len(hybridBlockChain)
  PROVE  LET fset == ApplyWeight(j, ChainRandomize(hybridBlockChain[j], j, << >>))
         IN  /\ fset \in Fields
             /\ ApplyOuterBlocks(0, outerBlockChain, fset) = SampleOf(config, j)
<1>. DEFINE ch == hybridBlockChain[j]
            n == ch.nOuter
            fset == ApplyWeight(j, ChainRandomize(ch, j, << >>))
<1>1. /\ j \in Comps /\ ch \in Chains /\ j \in 0..MaxComps /\ n \in 0..MaxOuter
      /\ outerBlockChain \in 0..MaxOuter
  <2>1. j \in Comps /\ j \in 0..MaxComps /\ outerBlockChain \in 0..MaxOuter
    BY MaxCompsAssumption DEF TypeOK, Comps
  <2>2. ch \in Chains
    BY DEF TypeOK
  <2>3. n \in 0..MaxOuter
    BY <2>2 DEF Chains
  <2>. QED
    BY <2>1, <2>2, <2>3
<1>2. /\ FwdWord(j, n) \in Seq(Ops) /\ FwdWord(0, outerBlockChain) \in Seq(Ops)
  BY <1>1, MaxCompsAssumption, ChainWordType
<1>3. << >> \in Fields
  BY DEF Fields
<1>4. fset \in Fields
  BY <1>1, <1>3, ChainType, ApplyWeightType
<1>5. /\ config[1] = outerBlockChain /\ config[2] = hybridBlockChain
      /\ config[3] = hybridScalarWeightSqrt /\ config[4] = hybridFieldWeightSqrt
  BY DEF config
<1>6. CASE ch.central = "ID"
  <2>1. ChainRandomize(ch, j, << >>) = << >>
    BY <1>6, EmptyField DEF ChainRandomize, CentralRandomize, ApplyOuterBlocks
  <2>2. fset = << >>
    BY <2>1, EmptyField DEF ApplyWeight
  <2>3. SampleOf(config, j) = << >>
    BY <1>5, <1>6 DEF SampleOf
  <2>. QED
    BY <1>4, <2>2, <2>3, EmptyField DEF ApplyOuterBlocks
<1>7. CASE ch.central # "ID"
  <2>. DEFINE s0 == [src |-> j, sc |-> ZeroSc, word |-> <<SqrtOp(j)>>]
              s1 == [src |-> s0.src, sc |-> s0.sc, word |-> s0.word \o FwdWord(j, n)]
              s2 == [src |-> s1.src, sc |-> WS(j, s1.sc), word |-> s1.word \o FW(j)]
              s3 == [src |-> s2.src, sc |-> s2.sc,
                     word |-> s2.word \o FwdWord(0, outerBlockChain)]
  <2>1. Sample(j) = <<s0>> /\ s0 \in Terms
    BY <1>1, InputSampleType DEF Sample, Fields
  <2>2. ChainRandomize(ch, j, << >>) = <<s1>> /\ s1 \in Terms
    BY <1>2, <1>7, <2>1, ApplyWordSingleton, TermAppend
       DEF ChainRandomize, CentralRandomize, ApplyOuterBlocks
  <2>3. fset = <<s2>> /\ s2 \in Terms
    <3>1. ApplyWeight(j, <<s1>>) = <<s2>> /\ s2 \in Terms
      BY <2>2, WeightSingleton
    <3>2. fset = ApplyWeight(j, <<s1>>)
      BY <2>2
    <3>. QED
      BY <3>1, <3>2
  <2>4. ApplyOuterBlocks(0, outerBlockChain, fset) = <<s3>>
    <3>1. ApplyWord(FwdWord(0, outerBlockChain), <<s2>>) = <<s3>>
      BY <1>2, <2>3, ApplyWordSingleton
    <3>. QED
      BY <2>3, <3>1 DEF ApplyOuterBlocks
  <2>5. WS(j, ZeroSc) = [ZeroSc EXCEPT ![j] = IF hybridScalarWeightSqrt[j] # "1.0"
                                             THEN 1 ELSE 0]
    <3>1. ZeroSc[j] = 0 /\ ZeroSc \in [Comps -> Nat]
      BY <1>1 DEF ZeroSc
    <3>2. CASE hybridScalarWeightSqrt[j] # "1.0"
      BY <3>1, <3>2 DEF WS
    <3>3. CASE hybridScalarWeightSqrt[j] = "1.0"
      BY <1>1, <3>1, <3>3 DEF WS
    <3>. QED
      BY <3>2, <3>3
  <2>6. SampleOf(config, j) = <<s3>>
    BY <1>5, <1>7, <2>5 DEF SampleOf, FW
  <2>. QED
    BY <1>4, <2>4, <2>6
<1>. QED
  BY <1>6, <1>7

\* One more element: the recursion still has a solution, and every solution
\* ends in the old last value followed by the new element.
LEMMA FlatRecStep ==
  ASSUME NEW s, NEW k \in Nat, NEW v, NEW u,
         \E g : FlatRec(g, s, k),
         \A g : FlatRec(g, s, k) => k = 0 \/ g[k] = v,
         k = 0 => u = s[1],
         k # 0 => u = v \o s[k + 1]
  PROVE  /\ \E g : FlatRec(g, s, k + 1)
         /\ \A g : FlatRec(g, s, k + 1) => g[k + 1] = u
<1>1. PICK g : FlatRec(g, s, k)
  OBVIOUS
<1>2. k # 0 => g[k] = v
  BY <1>1
<1>3. \A i \in 1..k : g[i] = IF i = 1 THEN s[i] ELSE g[i - 1] \o s[i]
  BY <1>1 DEF FlatRec
<1>4. \E g2 : FlatRec(g2, s, k + 1)
  <2>. DEFINE g2 == [i \in 1..(k + 1) |-> IF i <= k THEN g[i] ELSE u]
  <2>1. ASSUME NEW i \in 1..(k + 1)
        PROVE  g2[i] = IF i = 1 THEN s[i] ELSE g2[i - 1] \o s[i]
    <3>1. CASE i <= k
      <4>1. g2[i] = g[i] /\ i \in 1..k
        BY <2>1, <3>1
      <4>2. i # 1 => g2[i - 1] = g[i - 1]
        BY <2>1, <3>1
      <4>. QED
        BY <1>3, <4>1, <4>2
    <3>2. CASE i = k + 1
      <4>1. g2[i] = u
        BY <3>2
      <4>2. CASE k = 0
        BY <3>2, <4>1, <4>2
      <4>3. CASE k # 0
        <5>1. g2[i - 1] = g[k] /\ i # 1
          BY <3>2, <4>3
        <5>. QED
          BY <1>2, <3>2, <4>1, <4>3, <5>1
      <4>. QED
        BY <4>2, <4>3
    <3>. QED
      BY <2>1, <3>1, <3>2
  <2>2. FlatRec(g2, s, k + 1)
    BY <2>1 DEF FlatRec
  <2>. QED
    BY <2>2
<1>5. ASSUME NEW h, FlatRec(h, s, k + 1)
      PROVE  h[k + 1] = u
  <2>1. \A i \in 1..(k + 1) : h[i] = IF i = 1 THEN s[i] ELSE h[i - 1] \o s[i]
    BY <1>5 DEF FlatRec
  <2>. DEFINE h2 == [i \in 1..k |-> h[i]]
  <2>2. FlatRec(h2, s, k)
    <3>1. ASSUME NEW i \in 1..k
          PROVE  h2[i] = IF i = 1 THEN s[i] ELSE h2[i - 1] \o s[i]
      BY <2>1
    <3>. QED
      BY <3>1 DEF FlatRec
  <2>3. k # 0 => h[k] = v
    <3>1. k # 0 => h2[k] = v
      BY <2>2
    <3>. QED
      BY <3>1
  <2>4. h[k + 1] = IF k + 1 = 1 THEN s[k + 1] ELSE h[k] \o s[k + 1]
    BY <2>1
  <2>5. CASE k = 0
    BY <2>4, <2>5
  <2>6. CASE k # 0
    <3>0. k + 1 # 1
      BY <2>6
    <3>1. h[k + 1] = h[k] \o s[k + 1]
      BY <2>4, <3>0, Zenon
    <3>2. h[k] = v /\ u = v \o s[k + 1]
      BY <2>3, <2>6
    <3>. QED
      BY <3>1, <3>2, Zenon
  <2>. QED
    BY <2>5, <2>6, Zenon
<1>. QED
  BY <1>4, <1>5

-----------------------------------------------------------------------------
\* The samples of the components, each through the common outer blocks.
Smp == [j \in DOMAIN hybridBlockChain |-> SampleOf(config, j)]

\* What doRandomize's loop has accumulated after jj - 1 components: the
\* recursion of FlattenSeq over the samples visited has a solution, and
\* every solution ends in dxo through the common outer blocks.
SampleAcc ==
  /\ \E g : FlatRec(g, Smp, jj - 1)
  /\ \A g : FlatRec(g, Smp, jj - 1) =>
        jj - 1 = 0 \/ g[jj - 1] = ApplyOuterBlocks(0, outerBlockChain, dxo)
  /\ jj = 1 => dxo = << >>

\* The inductive invariant of the refinement: MInv for doMultiply, the
\* accumulated samples inside doRandomize, and the closed form of the
\* sample doRandomize last returned.
RInv ==
  /\ MInv
  /\ pc = "randomize" => SampleAcc
  /\ "randomize" \in returned => randOut = HybridSample(config)

LEMMA InitRInv == Init => RInv
BY InitMInv DEF Init, RInv

\* The samples do not change while the configuration does not.
LEMMA SmpUnchanged ==
  ASSUME config' = config
  PROVE  Smp' = Smp /\ HybridSample(config') = HybridSample(config)
<1>1. UNCHANGED <<outerBlockChain, hybridBlockChain, hybridScalarWeightSqrt,
                  hybridFieldWeightSqrt>>
  BY DEF config
<1>. QED
  BY <1>1 DEF Smp, config

LEMMA NextRInv == RInv /\ [Next]_vars => RInv'
<1>. SUFFICES ASSUME RInv, [Next]_vars PROVE RInv'
  OBVIOUS
<1>0. /\ MInv' /\ MInv /\ TypeOK /\ Len(hybridBlockChain) \in Nat
      /\ jj \in 1..(Len(hybridBlockChain) + 1)
  BY NextMInv DEF RInv, MInv, IInv, TypeOK
<1>. DEFINE AOB(x) == ApplyOuterBlocks(0, outerBlockChain, x)
<1>1. CASE ConstructHybrid \/ ConstructSingle
  <2>1. pc = "unbuilt" /\ pc' = "idle" /\ UNCHANGED returned
    BY <1>1 DEF ConstructHybrid, ConstructSingle
  <2>2. returned = {}
    BY <1>0, <2>1 DEF MInv
  <2>. QED
    BY <1>0, <2>1, <2>2 DEF RInv
<1>2. CASE MultiplyStart \/ MultiplyComponent \/ MultiplyFinish
  <2>1. /\ pc \in {"idle", "multiply"} /\ pc' \in {"idle", "multiply"}
        /\ UNCHANGED <<config, randOut>>
        /\ ("randomize" \in returned') = ("randomize" \in returned)
    BY <1>2 DEF MultiplyStart, MultiplyComponent, MultiplyFinish
  <2>. QED
    BY <1>0, <2>1, SmpUnchanged DEF RInv
<1>3. CASE RandomizeStart
  <2>1. /\ pc' = "randomize" /\ jj' = 1 /\ dxo' = << >>
        /\ UNCHANGED <<config, randOut, returned>>
    BY <1>3 DEF RandomizeStart
  <2>2. FlatRec(<< >>, Smp, 0)
    BY DEF FlatRec
  <2>3. SampleAcc'
    BY <2>1, <2>2, SmpUnchanged DEF SampleAcc
  <2>. QED
    BY <1>0, <2>1, <2>3, SmpUnchanged DEF RInv
<1>4. CASE RandomizeComponent
  <2>. DEFINE fset == ApplyWeight(jj, ChainRandomize(hybridBlockChain[jj], jj, << >>))
              k == jj - 1
  <2>1. /\ pc = "randomize" /\ jj <= Len(hybridBlockChain) /\ jj' = jj + 1
        /\ dxo' = dxo \o fset
        /\ UNCHANGED <<pc, config, randOut, returned, outerBlockChain>>
    BY <1>4 DEF RandomizeComponent, config
  <2>2. SampleAcc
    BY <2>1 DEF RInv
  <2>3. /\ jj \in 1..Len(hybridBlockChain) /\ k \in Nat /\ k + 1 = jj
        /\ dxo \in Fields
    BY <1>0, <2>1 DEF TypeOK
  <2>4. fset \in Fields /\ AOB(fset) = Smp[jj]
    BY <1>0, <2>3, SampleTerm DEF Smp
  <2>5. FwdWord(0, outerBlockChain) \in Seq(Ops)
    BY <1>0, ChainWordType, MaxCompsAssumption DEF TypeOK
  <2>6. k = 0 => AOB(dxo \o fset) = Smp[1]
    <3>1. k = 0 => dxo \o fset = fset
      BY <2>2, <2>3, <2>4 DEF SampleAcc, Fields
    <3>2. k = 0 => jj = 1
      BY <2>3
    <3>. QED
      BY <2>4, <3>1, <3>2, Zenon
  <2>7. k # 0 => AOB(dxo \o fset) = AOB(dxo) \o Smp[k + 1]
    BY <2>3, <2>4, <2>5, ApplyWordConcat DEF ApplyOuterBlocks
  <2>8. /\ \E g : FlatRec(g, Smp, k + 1)
        /\ \A g : FlatRec(g, Smp, k + 1) => g[k + 1] = AOB(dxo \o fset)
    <3>1. /\ \E g : FlatRec(g, Smp, k)
          /\ \A g : FlatRec(g, Smp, k) => k = 0 \/ g[k] = AOB(dxo)
      BY <2>2 DEF SampleAcc
    <3>. DEFINE v == AOB(dxo)
                u == AOB(dxo \o fset)
    <3>2. /\ \E g : FlatRec(g, Smp, k)
          /\ \A g : FlatRec(g, Smp, k) => k = 0 \/ g[k] = v
          /\ k = 0 => u = Smp[1]
          /\ k # 0 => u = v \o Smp[k + 1]
      BY <2>6, <2>7, <3>1
    <3>3. k \in Nat
      BY <2>3
    <3>. HIDE DEF v, u, k
    <3>4. /\ \E g : FlatRec(g, Smp, k + 1)
          /\ \A g : FlatRec(g, Smp, k + 1) => g[k + 1] = u
      BY <3>2, <3>3, FlatRecStep
    <3>. QED
      BY <3>4 DEF u
  <2>9. SampleAcc'
    BY <2>1, <2>3, <2>8, SmpUnchanged DEF SampleAcc
  <2>. QED
    BY <1>0, <2>1, <2>9, SmpUnchanged DEF RInv
<1>5. CASE RandomizeFinish
  <2>1. /\ pc = "randomize" /\ jj > Len(hybridBlockChain) /\ pc' = "idle"
        /\ randOut' = AOB(dxo)
        /\ UNCHANGED config
    BY <1>5 DEF RandomizeFinish
  <2>2. SampleAcc
    BY <2>1 DEF RInv
  <2>. DEFINE L == Len(hybridBlockChain)
  <2>3. jj - 1 = L /\ L \in Nat
    BY <1>0, <2>1
  <2>4. HybridSample(config) = FlattenSeq(Smp)
    BY DEF HybridSample, Smp, config
  <2>6. Len(Smp) = L /\ (L = 0 => Smp = << >>)
    <3>1. DOMAIN hybridBlockChain = 1..L
      BY <1>0 DEF TypeOK
    <3>. QED
      BY <3>1, <2>3 DEF Smp
  <2>7. L = 0 => AOB(dxo) = HybridSample(config)
    <3>. HAVE L = 0
    <3>1. dxo = << >>
      BY <2>2, <2>3 DEF SampleAcc
    <3>2. FlattenSeq(Smp) = << >>
      BY <2>6 DEF FlattenSeq
    <3>3. FwdWord(0, outerBlockChain) \in Seq(Ops)
      BY <1>0, ChainWordType, MaxCompsAssumption DEF TypeOK
    <3>. QED
      BY <3>1, <3>2, <3>3, <2>4, EmptyField DEF ApplyOuterBlocks
  <2>8. L # 0 => AOB(dxo) = HybridSample(config)
    <3>. HAVE L # 0
    <3>1. /\ \E g : FlatRec(g, Smp, Len(Smp))
          /\ \A g : FlatRec(g, Smp, Len(Smp)) => g[Len(Smp)] = AOB(dxo)
      BY <2>2, <2>3, <2>6 DEF SampleAcc
    <3>2. Len(Smp) \in Nat \ {0}
      BY <2>3, <2>6
    <3>. QED
      BY <2>4, <3>1, <3>2, FlattenByRec
  <2>9. randOut' = HybridSample(config')
    BY <2>1, <2>3, <2>7, <2>8, SmpUnchanged
  <2>. QED
    BY <1>0, <2>1, <2>9 DEF RInv
<1>6. CASE UNCHANGED vars
  <2>1. UNCHANGED <<pc, jj, dxo, randOut, returned, config, outerBlockChain>>
    BY <1>6 DEF vars, config
  <2>. QED
    BY <1>0, <2>1, SmpUnchanged DEF RInv, SampleAcc
<1>. QED
  BY <1>1, <1>2, <1>3, <1>4, <1>5, <1>6 DEF Next

-----------------------------------------------------------------------------
\* Both constructors build a configuration the contract allows.
LEMMA ConstructBuilt ==
  ConstructHybrid \/ ConstructSingle => config' \in BuiltConfigs
<1>1. CASE ConstructHybrid
  <2>1. PICK n \in 0..MaxOuter, nc \in 0..MaxComps :
          \E cmps \in [1..nc -> Components] :
            /\ outerBlockChain' = n
            /\ hybridBlockChain' = [c \in 1..nc |-> cmps[c].cov]
            /\ hybridScalarWeightSqrt' = [c \in 1..nc |-> SqrtWeight(cmps[c].weight)]
            /\ hybridFieldWeightSqrt' = [c \in 1..nc |-> cmps[c].file]
    BY <1>1 DEF ConstructHybrid
  <2>2. PICK cmps \in [1..nc -> Components] :
            /\ outerBlockChain' = n
            /\ hybridBlockChain' = [c \in 1..nc |-> cmps[c].cov]
            /\ hybridScalarWeightSqrt' = [c \in 1..nc |-> SqrtWeight(cmps[c].weight)]
            /\ hybridFieldWeightSqrt' = [c \in 1..nc |-> cmps[c].file]
    BY <2>1
  <2>3. /\ hybridBlockChain' \in [1..nc -> Chains]
        /\ hybridScalarWeightSqrt' \in [1..nc -> {"1.0", "sqrt(0.3)"}]
        /\ hybridFieldWeightSqrt' \in [1..nc -> BOOLEAN]
    BY <2>2 DEF Components, SqrtWeight
  <2>4. config' = <<n, hybridBlockChain', hybridScalarWeightSqrt',
                   hybridFieldWeightSqrt'>>
    BY <2>2 DEF config
  <2>5. \E n0 \in 0..MaxOuter, chs \in [1..nc -> Chains],
            sw \in [1..nc -> {"1.0", "sqrt(0.3)"}], fw \in [1..nc -> BOOLEAN] :
         config' = <<n0, chs, sw, fw>>
    BY <2>1, <2>3, <2>4
  <2>6. \E k \in 0..MaxComps :
         \E n0 \in 0..MaxOuter, chs \in [1..k -> Chains],
            sw \in [1..k -> {"1.0", "sqrt(0.3)"}], fw \in [1..k -> BOOLEAN] :
           config' = <<n0, chs, sw, fw>>
    BY <2>1, <2>5
  <2>. QED
    BY <2>6 DEF BuiltConfigs
<1>2. CASE ConstructSingle
  <2>1. PICK ch \in Chains :
          /\ hybridBlockChain' = <<ch>>
          /\ hybridScalarWeightSqrt' = <<"1.0">>
          /\ hybridFieldWeightSqrt' = <<FALSE>>
    BY <1>2 DEF ConstructSingle
  <2>2. /\ outerBlockChain' = 0 /\ 0 \in 0..MaxOuter /\ 1 \in 0..MaxComps
    BY <1>2, MaxCompsAssumption, MaxOuterAssumption DEF ConstructSingle
  <2>3. /\ <<ch>> \in [1..1 -> Chains]
        /\ <<"1.0">> \in [1..1 -> {"1.0", "sqrt(0.3)"}]
        /\ <<FALSE>> \in [1..1 -> BOOLEAN]
    BY SingletonType
  <2>4. config' = <<0, <<ch>>, <<"1.0">>, <<FALSE>>>>
    BY <2>1, <2>2 DEF config
  <2>5. \E n0 \in 0..MaxOuter, chs \in [1..1 -> Chains],
            sw \in [1..1 -> {"1.0", "sqrt(0.3)"}], fw \in [1..1 -> BOOLEAN] :
         config' = <<n0, chs, sw, fw>>
    BY <2>2, <2>3, <2>4
  <2>6. \E k \in 0..MaxComps :
         \E n0 \in 0..MaxOuter, chs \in [1..k -> Chains],
            sw \in [1..k -> {"1.0", "sqrt(0.3)"}], fw \in [1..k -> BOOLEAN] :
           config' = <<n0, chs, sw, fw>>
    BY <2>2, <2>5
  <2>. QED
    BY <2>6 DEF BuiltConfigs
<1>. QED
  BY <1>1, <1>2

\* Every step of ErrorCovariance, seen through the refinement mapping, is
\* a step of the contract or leaves what the caller sees unchanged.
LEMMA RefineStep ==
  RInv /\ RInv' /\ [Next]_vars => [Contract!Next]_Contract!vars
<1>. SUFFICES ASSUME RInv, RInv', [Next]_vars
              PROVE  [Contract!Next]_Contract!vars
  OBVIOUS
<1>1. CASE ConstructHybrid \/ ConstructSingle
  <2>1. /\ pc = "unbuilt" /\ pc' = "idle"
        /\ UNCHANGED <<multOut, randOut, returned>>
    BY <1>1 DEF ConstructHybrid, ConstructSingle
  <2>. QED
    BY <1>1, <2>1, ConstructBuilt DEF Contract!Next, Contract!Construct
<1>2. CASE MultiplyStart \/ MultiplyComponent \/ RandomizeStart \/ RandomizeComponent
  <2>1. /\ pc # "unbuilt" /\ pc' # "unbuilt"
        /\ UNCHANGED <<config, multOut, randOut, returned>>
    BY <1>2 DEF MultiplyStart, MultiplyComponent, RandomizeStart,
                RandomizeComponent
  <2>. QED
    BY <2>1 DEF Contract!vars
<1>3. CASE MultiplyFinish
  <2>1. /\ pc = "multiply" /\ pc' = "idle"
        /\ returned' = returned \cup {"multiply"}
        /\ UNCHANGED <<config, randOut>>
    BY <1>3 DEF MultiplyFinish
  <2>2. multOut' = HybridSum(config)
    BY <2>1 DEF RInv, MInv, MultiplyIsHybridSum
  <2>. QED
    BY <2>1, <2>2 DEF Contract!Next, Contract!Multiply
<1>4. CASE RandomizeFinish
  <2>1. /\ pc = "randomize" /\ pc' = "idle"
        /\ returned' = returned \cup {"randomize"}
        /\ UNCHANGED <<config, multOut>>
    BY <1>4 DEF RandomizeFinish
  <2>2. randOut' = HybridSample(config)
    BY <2>1 DEF RInv
  <2>. QED
    BY <2>1, <2>2 DEF Contract!Next, Contract!Randomize
<1>5. CASE UNCHANGED vars
  BY <1>5 DEF vars, Contract!vars
<1>. QED
  BY <1>1, <1>2, <1>3, <1>4, <1>5 DEF Next

\* ErrorCovariance implements its contract (spec 4.3): whatever calls came
\* before, every doMultiply returns the closed-form hybrid sum and every
\* doRandomize the closed-form sum of the weighted component samples of
\* the configuration the constructor built; the loops of both handlers and
\* their working field sets dxi and dxo are invisible to the caller.
THEOREM ImplementsContractProof == Spec => ImplementsContract
<1>1. Init => Contract!Init
  BY DEF Init, Contract!Init, config
<1>2. Spec => []RInv
  BY InitRInv, NextRInv, PTL DEF Spec
<1>. QED
  BY <1>1, <1>2, RefineStep, PTL
     DEF Spec, ImplementsContract, Contract!Spec
=============================================================================
