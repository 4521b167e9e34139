------------------------ MODULE HybridCovarianceProofs ------------------------
(***************************************************************************)
(* Proofs about the hybrid combiner of ErrorCovariance.h, for every value  *)
(* of the constants: the symbolic field operations keep their types, so   *)
(* every reachable state satisfies TypeOK, and doMultiply returns the      *)
(* hybrid sum of spec 4.3.                                                 *)
(***************************************************************************)
EXTENDS HybridCovariance, TLAPS

\* An outer block symbol of a chain within the bounds is an operator symbol.
LEMMA OuterOpType ==
  ASSUME NEW c \in 0..MaxComps, NEW i \in 0..MaxOuter, NEW ad \in BOOLEAN
  PROVE  OuterOp(c, i, ad) \in Ops
BY DEF OuterOp, Ops, OpKinds

\* The forward and adjoint words of a chain of n outer blocks are words.
LEMMA ChainWordType ==
  ASSUME NEW c \in 0..MaxComps, NEW n \in 0..MaxOuter
  PROVE  /\ FwdWord(c, n) \in Seq(Ops)
         /\ ADWord(c, n) \in Seq(Ops)
<1>1. \A i \in 1..n : OuterOp(c, i, FALSE) \in Ops /\ OuterOp(c, n + 1 - i, TRUE) \in Ops
  BY MaxOuterAssumption DEF OuterOp, Ops, OpKinds
<1>2. FwdWord(c, n) \in [1..n -> Ops] /\ ADWord(c, n) \in [1..n -> Ops]
  BY <1>1 DEF FwdWord, ADWord
<1>3. n \in Nat
  BY MaxOuterAssumption
<1>. QED
  BY <1>2, <1>3, SMT

\* Appending a word to every term of a field gives a field.
LEMMA ApplyWordType ==
  ASSUME NEW w \in Seq(Ops), NEW f \in Fields
  PROVE  ApplyWord(w, f) \in Fields
<1>1. ASSUME NEW i \in DOMAIN f
      PROVE  [f[i] EXCEPT !.word = @ \o w] \in Terms
  <2>1. f[i] \in Terms
    BY DEF Fields
  <2>2. f[i].word \o w \in Seq(Ops)
    BY <2>1 DEF Terms
  <2>. QED
    BY <2>1, <2>2 DEF Terms
<1>2. DOMAIN f = 1..Len(f) /\ Len(f) \in Nat
  BY DEF Fields
<1>3. ApplyWord(w, f) \in [1..Len(f) -> Terms]
  BY <1>1, <1>2 DEF ApplyWord
<1>. QED
  BY <1>2, <1>3 DEF Fields

\* Raising the weight exponent of a component keeps a field a field.
LEMMA ScaleByType ==
  ASSUME NEW j \in Comps, NEW f \in Fields
  PROVE  ScaleBy(j, f) \in Fields
<1>1. ASSUME NEW i \in DOMAIN f
      PROVE  [f[i] EXCEPT !.sc[j] = @ + 1] \in Terms
  <2>1. f[i] \in Terms
    BY DEF Fields
  <2>2. [f[i].sc EXCEPT ![j] = @ + 1] \in [Comps -> Nat]
    BY <2>1 DEF Terms
  <2>. QED
    BY <2>1, <2>2 DEF Terms
<1>2. DOMAIN f = 1..Len(f)
  BY DEF Fields
<1>. QED
  BY <1>1, <1>2 DEF ScaleBy, Fields
\* The input x and the sample L_j xi_j of a component are fields.
LEMMA InputSampleType ==
  ASSUME NEW j \in Comps
  PROVE  /\ Input \in Fields
         /\ Sample(j) \in Fields
<1>1. ZeroSc \in [Comps -> Nat]
  BY DEF ZeroSc
<1>2. SqrtOp(j) \in Ops
  BY MaxCompsAssumption, MaxOuterAssumption DEF SqrtOp, Ops, OpKinds, Comps
<1>3. 0 \in Sources /\ j \in Sources
  BY MaxCompsAssumption DEF Sources, Comps
<1>4. [src |-> 0, sc |-> ZeroSc, word |-> << >>] \in Terms
  BY <1>1, <1>3 DEF Terms
<1>5. [src |-> j, sc |-> ZeroSc, word |-> <<SqrtOp(j)>>] \in Terms
  BY <1>1, <1>2, <1>3 DEF Terms
<1>. QED
  BY <1>4, <1>5 DEF Input, Sample, Fields

\* A component chain's multiply and randomize map fields to fields.
LEMMA ChainType ==
  ASSUME NEW ch \in Chains, NEW j \in Comps, NEW f \in Fields
  PROVE  /\ ChainMultiply(ch, j, f) \in Fields
         /\ ChainRandomize(ch, j, f) \in Fields
<1>1. j \in 0..MaxComps /\ ch.nOuter \in 0..MaxOuter
  BY MaxCompsAssumption DEF Comps, Chains
<1>2. <<CentralOp(j)>> \in Seq(Ops)
  <2>1. CentralOp(j) \in Ops
    BY <1>1, MaxOuterAssumption DEF CentralOp, Ops, OpKinds
  <2>. QED
    BY <2>1
<1>3. ApplyOuterBlocksAD(j, ch.nOuter, f) \in Fields
  BY <1>1, ChainWordType, ApplyWordType DEF ApplyOuterBlocksAD
<1>4. CentralMultiply(ch, j, ApplyOuterBlocksAD(j, ch.nOuter, f)) \in Fields
  BY <1>2, <1>3, ApplyWordType DEF CentralMultiply
<1>5. CentralRandomize(ch, j, f) \in Fields
  BY InputSampleType DEF CentralRandomize
<1>6. \A g \in Fields : ApplyOuterBlocks(j, ch.nOuter, g) \in Fields
  BY <1>1, ChainWordType, ApplyWordType DEF ApplyOuterBlocks
<1>. QED
  BY <1>4, <1>5, <1>6 DEF ChainMultiply, ChainRandomize
\* The square-rooted weights of a component, applied to a field, give a
\* field, in every state where the weights have their types.
LEMMA ApplyWeightType ==
  ASSUME TypeOK, NEW j \in 1..Len(hybridBlockChain), NEW f \in Fields
  PROVE  ApplyWeight(j, f) \in Fields
<1>1. j \in Comps /\ j \in 0..MaxComps
  BY MaxCompsAssumption DEF TypeOK, Comps
<1>2. <<FieldWeightOp(j)>> \in Seq(Ops)
  <2>1. FieldWeightOp(j) \in Ops
    BY <1>1, MaxOuterAssumption DEF FieldWeightOp, Ops, OpKinds
  <2>. QED
    BY <2>1
<1>3. ScaleBy(j, f) \in Fields
  BY <1>1, ScaleByType
<1>. QED
  BY <1>2, <1>3, ApplyWordType DEF ApplyWeight

\* The inductive invariant: TypeOK, and the loop index is 1 before the
\* constructor has run (jj is not touched by the constructor).
IInv == TypeOK /\ (pc = "unbuilt" => jj = 1)

\* The initial state has the types TypeOK states.
LEMMA InitIInv == Init => IInv
<1>. SUFFICES ASSUME Init PROVE IInv
  OBVIOUS
<1>1. << >> \in Fields /\ << >> \in Seq(Chains)
  BY DEF Fields
<1>. QED
  BY <1>1, MaxOuterAssumption, MaxCompsAssumption DEF Init, IInv, TypeOK
\* A one-element tuple, as the non-hybrid constructor builds, is a function
\* on 1..1 into any set holding its element.
LEMMA SingletonType ==
  \A S, x : x \in S => <<x>> \in [1..1 -> S]
  OBVIOUS

\* Every step of the combiner keeps the inductive invariant.
LEMMA NextIInv == IInv /\ [Next]_vars => IInv'
<1>. SUFFICES ASSUME IInv, [Next]_vars PROVE IInv'
  OBVIOUS
<1>. USE DEF IInv
<1>0. Len(hybridBlockChain) \in Nat /\ MaxComps \in Nat /\ MaxOuter \in Nat
  BY MaxCompsAssumption, MaxOuterAssumption DEF TypeOK
<1>1. CASE ConstructHybrid
  <2>0. PICK n \in 0..MaxOuter, nc \in 0..MaxComps :
          \E cmps \in [1..nc -> Components] :
            /\ outerBlockChain' = n
            /\ hybridBlockChain' = [c \in 1..nc |-> cmps[c].cov]
            /\ hybridScalarWeightSqrt' = [c \in 1..nc |-> SqrtWeight(cmps[c].weight)]
            /\ hybridFieldWeightSqrt' = [c \in 1..nc |-> cmps[c].file]
    BY <1>1 DEF ConstructHybrid
  <2>1. PICK cmps \in [1..nc -> Components] :
          /\ outerBlockChain' = n
          /\ hybridBlockChain' = [c \in 1..nc |-> cmps[c].cov]
          /\ hybridScalarWeightSqrt' = [c \in 1..nc |-> SqrtWeight(cmps[c].weight)]
          /\ hybridFieldWeightSqrt' = [c \in 1..nc |-> cmps[c].file]
    BY <2>0
  <2>2. hybridBlockChain' \in Seq(Chains) /\ Len(hybridBlockChain') = nc
    BY <2>1, <1>0 DEF Components
  <2>3. \A c \in 1..nc : SqrtWeight(cmps[c].weight) \in {"1.0", "sqrt(0.3)"}
    BY DEF SqrtWeight
  <2>4. jj = 1
    BY <1>1 DEF ConstructHybrid
  <2>. QED
    BY <1>1, <2>0, <2>1, <2>2, <2>3, <2>4, <1>0 DEF ConstructHybrid, TypeOK, Components
<1>2. CASE ConstructSingle
  <2>1. PICK ch \in Chains : hybridBlockChain' = <<ch>>
    BY <1>2 DEF ConstructSingle
  <2>2. jj = 1
    BY <1>2 DEF ConstructSingle
  <2>3. <<ch>> \in Seq(Chains) /\ Len(<<ch>>) = 1
    OBVIOUS
  <2>4. /\ <<"1.0">> \in [1..1 -> {"1.0", "sqrt(0.3)"}]
        /\ <<FALSE>> \in [1..1 -> BOOLEAN]
    BY SingletonType
  <2>5. 1 <= MaxComps /\ jj' \in 1..2
    BY <1>2, <2>2, MaxCompsAssumption DEF ConstructSingle
  <2>6. /\ hybridScalarWeightSqrt' \in [1..Len(hybridBlockChain') -> {"1.0", "sqrt(0.3)"}]
        /\ hybridFieldWeightSqrt' \in [1..Len(hybridBlockChain') -> BOOLEAN]
    BY <1>2, <2>1, <2>3, <2>4 DEF ConstructSingle
  <2>7. /\ pc' = "idle" /\ outerBlockChain' = 0
        /\ UNCHANGED <<dxi, dxo, multOut, randOut, returned>>
    BY <1>2 DEF ConstructSingle
  <2>8. jj' \in 1..(Len(hybridBlockChain') + 1)
    BY <2>1, <2>3, <2>5
  <2>. QED
    BY <2>1, <2>3, <2>5, <2>6, <2>7, <2>8, MaxOuterAssumption DEF TypeOK
<1>3. CASE MultiplyStart
  <2>1. ADWord(0, outerBlockChain) \in Seq(Ops)
    BY <1>0, ChainWordType DEF TypeOK
  <2>2. dxi' \in Fields
    BY <1>3, <2>1, InputSampleType, ApplyWordType, MaxCompsAssumption
       DEF MultiplyStart, ApplyOuterBlocksAD, Comps
  <2>3. << >> \in Fields
    BY DEF Fields
  <2>. QED
    BY <1>3, <2>2, <2>3, <1>0 DEF MultiplyStart, TypeOK, vars, config
<1>4. CASE MultiplyComponent
  <2>1. jj \in 1..Len(hybridBlockChain)
    BY <1>4, <1>0 DEF MultiplyComponent, TypeOK
  <2>2. hybridBlockChain[jj] \in Chains /\ jj \in Comps
    BY <2>1, <1>0 DEF TypeOK, Comps
  <2>3. ApplyWeight(jj, dxi) \in Fields
    BY <2>1, ApplyWeightType DEF TypeOK
  <2>4. ChainMultiply(hybridBlockChain[jj], jj, ApplyWeight(jj, dxi)) \in Fields
    BY <2>2, <2>3, ChainType
  <2>5. ApplyWeight(jj, ChainMultiply(hybridBlockChain[jj], jj,
                                     ApplyWeight(jj, dxi))) \in Fields
    BY <2>1, <2>4, ApplyWeightType
  <2>6. dxo' \in Fields
    BY <1>4, <2>5 DEF MultiplyComponent, TypeOK, Fields
  <2>. QED
    BY <1>4, <2>1, <2>6, <1>0 DEF MultiplyComponent, TypeOK, vars, config
<1>5. CASE MultiplyFinish
  <2>1. FwdWord(0, outerBlockChain) \in Seq(Ops)
    BY <1>0, ChainWordType DEF TypeOK
  <2>2. multOut' \in Fields
    BY <1>5, <2>1, ApplyWordType DEF MultiplyFinish, ApplyOuterBlocks, TypeOK
  <2>. QED
    BY <1>5, <2>2 DEF MultiplyFinish, TypeOK, vars, config
<1>6. CASE RandomizeStart
  <2>1. << >> \in Fields
    BY DEF Fields
  <2>. QED
    BY <1>6, <2>1, <1>0 DEF RandomizeStart, TypeOK, vars, config
<1>7. CASE RandomizeComponent
  <2>1. jj \in 1..Len(hybridBlockChain)
    BY <1>7, <1>0 DEF RandomizeComponent, TypeOK
  <2>2. hybridBlockChain[jj] \in Chains /\ jj \in Comps
    BY <2>1, <1>0 DEF TypeOK, Comps
  <2>3. << >> \in Fields
    BY DEF Fields
  <2>4. ChainRandomize(hybridBlockChain[jj], jj, << >>) \in Fields
    BY <2>2, <2>3, ChainType
  <2>5. ApplyWeight(jj, ChainRandomize(hybridBlockChain[jj], jj, << >>)) \in Fields
    BY <2>1, <2>4, ApplyWeightType
  <2>6. dxo' \in Fields
    BY <1>7, <2>5 DEF RandomizeComponent, TypeOK, Fields
  <2>. QED
    BY <1>7, <2>1, <2>6, <1>0 DEF RandomizeComponent, TypeOK, vars, config
<1>8. CASE RandomizeFinish
  <2>1. FwdWord(0, outerBlockChain) \in Seq(Ops)
    BY <1>0, ChainWordType DEF TypeOK
  <2>2. randOut' \in Fields
    BY <1>8, <2>1, ApplyWordType DEF RandomizeFinish, ApplyOuterBlocks, TypeOK
  <2>. QED
    BY <1>8, <2>2 DEF RandomizeFinish, TypeOK, vars, config
<1>9. CASE UNCHANGED vars
  BY <1>9 DEF vars, config, TypeOK
<1>. QED
  BY <1>1, <1>2, <1>3, <1>4, <1>5, <1>6, <1>7, <1>8, <1>9 DEF Next

\* Every reachable state of the hybrid combiner has the types TypeOK
\* states: the constructor's component lists, the loop index jj of
\* doMultiply and doRandomize, and the fields they accumulate.
THEOREM TypeCorrect == Spec => []TypeOK
<1>1. Init => IInv
  BY InitIInv
<1>2. IInv /\ [Next]_vars => IInv'
  BY NextIInv
<1>3. IInv => TypeOK
  BY DEF IInv
<1>. QED
  BY <1>1, <1>2, <1>3, PTL DEF Spec

-----------------------------------------------------------------------------
(***************************************************************************)
(* doMultiply returns the hybrid sum.  Each field in the loop holds one    *)
(* term, so the operators reduce to appending words; the invariant MInv  *)
(* states what dxi and dxo hold while the loop runs.                       *)
(***************************************************************************)

\* A term is the record of its three fields.
LEMMA TermEta ==
  ASSUME NEW x \in Terms
  PROVE  x = [src |-> x.src, sc |-> x.sc, word |-> x.word]
BY DEF Terms

\* Appending a word to the one term of a field.
LEMMA ApplyWordSingleton ==
  ASSUME NEW t \in Terms, NEW w \in Seq(Ops)
  PROVE  ApplyWord(w, <<t>>) = <<[src |-> t.src, sc |-> t.sc, word |-> t.word \o w]>>
<1>. DEFINE r == [t EXCEPT !.word = @ \o w]
<1>1. r \in Terms
  <2>1. t.word \o w \in Seq(Ops)
    BY DEF Terms
  <2>. QED
    BY <2>1 DEF Terms
<1>2. r = [src |-> r.src, sc |-> r.sc, word |-> r.word]
  BY <1>1, TermEta
<1>3. r.src = t.src /\ r.sc = t.sc /\ r.word = t.word \o w
  BY DEF Terms
<1>4. ApplyWord(w, <<t>>) = [i \in {1} |-> r]
  BY SMTT(60) DEF ApplyWord
<1>5. [i \in {1} |-> r] = <<r>>
  OBVIOUS
<1>. QED
  BY <1>2, <1>3, <1>4, <1>5

\* Raising the weight exponent of component j in the one term of a field.
LEMMA ScaleBySingleton ==
  ASSUME NEW t \in Terms, NEW j \in Comps
  PROVE  ScaleBy(j, <<t>>) =
           <<[src |-> t.src, sc |-> [t.sc EXCEPT ![j] = @ + 1], word |-> t.word]>>
<1>. DEFINE q == [t EXCEPT !.sc[j] = @ + 1]
<1>1. q \in Terms
  <2>1. [t.sc EXCEPT ![j] = @ + 1] \in [Comps -> Nat]
    BY DEF Terms
  <2>. QED
    BY <2>1 DEF Terms
<1>2. q = [src |-> q.src, sc |-> q.sc, word |-> q.word]
  BY <1>1, TermEta
<1>3. q.src = t.src /\ q.sc = [t.sc EXCEPT ![j] = @ + 1] /\ q.word = t.word
  BY DEF Terms
<1>4. ScaleBy(j, <<t>>) = [i \in {1} |-> q]
  BY DEF ScaleBy
<1>5. [i \in {1} |-> q] = <<q>>
  OBVIOUS
<1>. QED
  BY <1>2, <1>3, <1>4, <1>5

LEMMA ConcatEmpty ==
  ASSUME NEW S, NEW s \in Seq(S)
  PROVE  /\ s \o << >> = s
         /\ << >> \o s = s
OBVIOUS

\* The words a component's weights and central block contribute.
FW(j) == IF hybridFieldWeightSqrt[j] THEN <<FieldWeightOp(j)>> ELSE << >>
WS(j, sc) == IF hybridScalarWeightSqrt[j] # "1.0" THEN [sc EXCEPT ![j] = @ + 1] ELSE sc
CW(ch, j) == IF ch.central = "ID" THEN << >> ELSE <<CentralOp(j)>>

\* A term with a word appended is a term.
LEMMA TermAppend ==
  ASSUME NEW t \in Terms, NEW w \in Seq(Ops)
  PROVE  [src |-> t.src, sc |-> t.sc, word |-> t.word \o w] \in Terms
BY DEF Terms

\* The weights of component j applied to a one-term field.
LEMMA WeightSingleton ==
  ASSUME TypeOK, NEW j \in 1..Len(hybridBlockChain), NEW t \in Terms
  PROVE  /\ ApplyWeight(j, <<t>>) =
              <<[src |-> t.src, sc |-> WS(j, t.sc), word |-> t.word \o FW(j)]>>
         /\ [src |-> t.src, sc |-> WS(j, t.sc), word |-> t.word \o FW(j)] \in Terms
<1>1. j \in Comps /\ FieldWeightOp(j) \in Ops
  BY MaxCompsAssumption, MaxOuterAssumption DEF TypeOK, Comps, FieldWeightOp, Ops, OpKinds
<1>2. FW(j) \in Seq(Ops) /\ t.word \in Seq(Ops)
  BY <1>1 DEF FW, Terms
<1>. DEFINE t1 == [src |-> t.src, sc |-> WS(j, t.sc), word |-> t.word]
<1>3. t1 \in Terms
  BY <1>1 DEF Terms, WS
<1>4. (IF hybridScalarWeightSqrt[j] # "1.0" THEN ScaleBy(j, <<t>>) ELSE <<t>>) = <<t1>>
  <2>1. CASE hybridScalarWeightSqrt[j] # "1.0"
    BY <2>1, <1>1, ScaleBySingleton DEF WS
  <2>2. CASE ~(hybridScalarWeightSqrt[j] # "1.0")
    <3>1. t = [src |-> t.src, sc |-> t.sc, word |-> t.word]
      BY DEF Terms
    <3>. QED
      BY <2>2, <3>1 DEF WS
  <2>. QED
    BY <2>1, <2>2
<1>5. CASE hybridFieldWeightSqrt[j]
  <2>1. ApplyWeight(j, <<t>>) = ApplyWord(<<FieldWeightOp(j)>>, <<t1>>)
    BY <1>4, <1>5 DEF ApplyWeight
  <2>2. ApplyWord(<<FieldWeightOp(j)>>, <<t1>>) =
          <<[src |-> t1.src, sc |-> t1.sc, word |-> t1.word \o <<FieldWeightOp(j)>>]>>
    <3>1. <<FieldWeightOp(j)>> \in Seq(Ops)
      BY <1>1
    <3>. QED
      BY <1>3, <3>1, ApplyWordSingleton
  <2>3. FW(j) = <<FieldWeightOp(j)>>
    BY <1>5 DEF FW
  <2>4. t1.src = t.src /\ t1.sc = WS(j, t.sc) /\ t1.word = t.word
    OBVIOUS
  <2>5. [src |-> t1.src, sc |-> t1.sc, word |-> t1.word \o FW(j)] \in Terms
    BY <1>2, <1>3, TermAppend
  <2>. QED
    BY <2>1, <2>2, <2>3, <2>4, <2>5
<1>6. CASE ~hybridFieldWeightSqrt[j]
  <2>1. ApplyWeight(j, <<t>>) = <<t1>>
    BY <1>4, <1>6 DEF ApplyWeight
  <2>2. t.word \o FW(j) = t.word
    BY <1>2, <1>6 DEF FW
  <2>3. t1 = [src |-> t.src, sc |-> WS(j, t.sc), word |-> t.word \o FW(j)]
    BY <2>2
  <2>. QED
    BY <2>1, <2>3, <1>3
<1>. QED
  BY <1>5, <1>6

\* A component chain's multiply on a one-term field: outer adjoints,
\* central block, outer blocks appended to the term's word.
LEMMA ChainSingleton ==
  ASSUME NEW ch \in Chains, NEW j \in Comps, NEW t \in Terms
  PROVE  LET u == [src |-> t.src, sc |-> t.sc,
                   word |-> t.word \o ADWord(j, ch.nOuter) \o CW(ch, j)
                                  \o FwdWord(j, ch.nOuter)]
         IN  ChainMultiply(ch, j, <<t>>) = <<u>> /\ u \in Terms
<1>1. j \in 0..MaxComps /\ ch.nOuter \in 0..MaxOuter
  BY MaxCompsAssumption DEF Comps, Chains
<1>2. /\ ADWord(j, ch.nOuter) \in Seq(Ops) /\ FwdWord(j, ch.nOuter) \in Seq(Ops)
      /\ CW(ch, j) \in Seq(Ops)
  <2>1. CentralOp(j) \in Ops
    BY <1>1, MaxOuterAssumption DEF CentralOp, Ops, OpKinds
  <2>. QED
    BY <1>1, <2>1, ChainWordType DEF CW
<1>. DEFINE t2 == [src |-> t.src, sc |-> t.sc, word |-> t.word \o ADWord(j, ch.nOuter)]
            t3 == [src |-> t.src, sc |-> t.sc, word |-> t2.word \o CW(ch, j)]
            t4 == [src |-> t.src, sc |-> t.sc, word |-> t3.word \o FwdWord(j, ch.nOuter)]
<1>3. t2 \in Terms /\ t3 \in Terms /\ t4 \in Terms
  BY <1>2, TermAppend
<1>4. ApplyOuterBlocksAD(j, ch.nOuter, <<t>>) = <<t2>>
  BY <1>2, ApplyWordSingleton DEF ApplyOuterBlocksAD
<1>5. CentralMultiply(ch, j, <<t2>>) = <<t3>>
  <2>1. CASE ch.central = "ID"
    <3>1. t2.word \o CW(ch, j) = t2.word
      BY <2>1, <1>3 DEF CW, Terms
    <3>2. t3 = t2
      BY <3>1
    <3>. QED
      BY <2>1, <3>2 DEF CentralMultiply
  <2>2. CASE ch.central # "ID"
    <3>1. <<CentralOp(j)>> = CW(ch, j)
      BY <2>2 DEF CW
    <3>2. <<CentralOp(j)>> \in Seq(Ops)
      BY <1>2, <3>1
    <3>3. CentralMultiply(ch, j, <<t2>>) = ApplyWord(<<CentralOp(j)>>, <<t2>>)
      BY <2>2 DEF CentralMultiply
    <3>4. ApplyWord(<<CentralOp(j)>>, <<t2>>)
            = <<[src |-> t2.src, sc |-> t2.sc, word |-> t2.word \o <<CentralOp(j)>>]>>
      BY <1>3, <3>2, ApplyWordSingleton
    <3>5. [src |-> t2.src, sc |-> t2.sc, word |-> t2.word \o <<CentralOp(j)>>] = t3
      BY <3>1
    <3>. QED
      BY <3>3, <3>4, <3>5
  <2>. QED
    BY <2>1, <2>2
<1>6. ApplyOuterBlocks(j, ch.nOuter, <<t3>>) = <<t4>>
  BY <1>2, <1>3, ApplyWordSingleton DEF ApplyOuterBlocks
<1>. QED
  BY <1>3, <1>4, <1>5, <1>6 DEF ChainMultiply

\* The term component j adds to dxo in the doMultiply loop.
PTerm(j) ==
  LET n == hybridBlockChain[j].nOuter
  IN  [src  |-> 0,
       sc   |-> WS(j, WS(j, ZeroSc)),
       word |-> ADWord(0, outerBlockChain) \o FW(j) \o ADWord(j, n)
                \o CW(hybridBlockChain[j], j) \o FwdWord(j, n) \o FW(j)]

\* One iteration of the doMultiply loop adds exactly component j's term.
LEMMA ComponentTerm ==
  ASSUME TypeOK, NEW j \in 1..Len(hybridBlockChain)
  PROVE  /\ ApplyWeight(j, ChainMultiply(hybridBlockChain[j], j,
              ApplyWeight(j, ApplyOuterBlocksAD(0, outerBlockChain, Input)))) = <<PTerm(j)>>
         /\ PTerm(j) \in Terms
<1>1. /\ j \in Comps /\ hybridBlockChain[j] \in Chains
      /\ ADWord(0, outerBlockChain) \in Seq(Ops)
  BY MaxCompsAssumption, ChainWordType DEF TypeOK, Comps
<1>. DEFINE t0 == [src |-> 0, sc |-> ZeroSc, word |-> ADWord(0, outerBlockChain)]
            t1 == [src |-> t0.src, sc |-> WS(j, t0.sc), word |-> t0.word \o FW(j)]
            ch == hybridBlockChain[j]
            t2 == [src |-> t1.src, sc |-> t1.sc,
                   word |-> t1.word \o ADWord(j, ch.nOuter) \o CW(ch, j)
                                   \o FwdWord(j, ch.nOuter)]
            t3 == [src |-> t2.src, sc |-> WS(j, t2.sc), word |-> t2.word \o FW(j)]
<1>2. Input = <<[src |-> 0, sc |-> ZeroSc, word |-> << >>]>>
      /\ [src |-> 0, sc |-> ZeroSc, word |-> << >>] \in Terms
  BY InputSampleType, <1>1 DEF Input, Fields
<1>3. ApplyOuterBlocksAD(0, outerBlockChain, Input) = <<t0>> /\ t0 \in Terms
  <2>1. << >> \o ADWord(0, outerBlockChain) = ADWord(0, outerBlockChain)
    BY <1>1
  <2>. QED
    BY <1>1, <1>2, <2>1, ApplyWordSingleton, TermAppend DEF ApplyOuterBlocksAD
<1>4. ApplyWeight(j, <<t0>>) = <<t1>> /\ t1 \in Terms
  BY <1>3, WeightSingleton
<1>5. ChainMultiply(ch, j, <<t1>>) = <<t2>> /\ t2 \in Terms
  BY <1>1, <1>4, ChainSingleton
<1>6. ApplyWeight(j, <<t2>>) = <<t3>> /\ t3 \in Terms
  BY <1>5, WeightSingleton
<1>7. t3 = PTerm(j)
  BY DEF PTerm
<1>. QED
  BY <1>3, <1>4, <1>5, <1>6, <1>7

\* Appending a word to a term, written as a record.
LEMMA ExceptWord ==
  ASSUME NEW x \in Terms, NEW w \in Seq(Ops)
  PROVE  [x EXCEPT !.word = @ \o w] = [src |-> x.src, sc |-> x.sc, word |-> x.word \o w]
<1>. DEFINE r == [x EXCEPT !.word = @ \o w]
<1>1. r \in Terms
  <2>1. x.word \o w \in Seq(Ops)
    BY DEF Terms
  <2>. QED
    BY <2>1 DEF Terms
<1>2. r.src = x.src /\ r.sc = x.sc /\ r.word = x.word \o w
  BY DEF Terms
<1>. QED
  BY <1>1, <1>2, TermEta

\* Component j's term of HybridSum is its loop term through the common
\* outer blocks.
LEMMA HybridTermForm ==
  ASSUME TypeOK, NEW j \in 1..Len(hybridBlockChain)
  PROVE  HybridTermOf(config, j) =
           [src |-> PTerm(j).src, sc |-> PTerm(j).sc,
            word |-> PTerm(j).word \o FwdWord(0, outerBlockChain)]
<1>1. j \in Comps
  BY MaxCompsAssumption DEF TypeOK, Comps
<1>2. WS(j, WS(j, ZeroSc)) =
        [ZeroSc EXCEPT ![j] = IF hybridScalarWeightSqrt[j] # "1.0" THEN 2 ELSE 0]
  BY <1>1 DEF WS, ZeroSc
<1>3. /\ config[1] = outerBlockChain /\ config[2] = hybridBlockChain
      /\ config[3] = hybridScalarWeightSqrt /\ config[4] = hybridFieldWeightSqrt
  BY DEF config
<1>. QED
  BY <1>2, <1>3 DEF HybridTermOf, PTerm, FW, CW

\* The inductive invariant of MultiplyIsHybridSum: within doMultiply, dxi
\* is the input through the common outer adjoints, and dxo holds the terms
\* of the components the loop has visited, in order.
MInv ==
  /\ IInv
  /\ pc = "unbuilt" => returned = {}
  /\ pc = "multiply" =>
       /\ dxi = ApplyOuterBlocksAD(0, outerBlockChain, Input)
       /\ dxo = [i \in 1..(jj - 1) |-> PTerm(i)]
  /\ MultiplyIsHybridSum

LEMMA InitMInv == Init => MInv
BY InitIInv DEF Init, MInv, MultiplyIsHybridSum

LEMMA NextMInv == MInv /\ [Next]_vars => MInv'
<1>. SUFFICES ASSUME MInv, [Next]_vars PROVE MInv'
  OBVIOUS
<1>0. /\ IInv' /\ TypeOK /\ Len(hybridBlockChain) \in Nat
      /\ jj \in 1..(Len(hybridBlockChain) + 1)
  BY NextIInv DEF MInv, IInv, TypeOK
<1>1. CASE ConstructHybrid \/ ConstructSingle
  <2>1. pc = "unbuilt" /\ pc' = "idle" /\ UNCHANGED returned
    BY <1>1 DEF ConstructHybrid, ConstructSingle
  <2>. QED
    BY <1>0, <2>1 DEF MInv, MultiplyIsHybridSum
<1>2. CASE MultiplyStart
  <2>1. /\ pc' = "multiply" /\ jj' = 1 /\ dxo' = << >>
        /\ dxi' = ApplyOuterBlocksAD(0, outerBlockChain, Input)
        /\ UNCHANGED <<config, multOut, returned>>
    BY <1>2 DEF MultiplyStart
  <2>2. UNCHANGED <<outerBlockChain, hybridBlockChain, hybridScalarWeightSqrt,
                    hybridFieldWeightSqrt>>
    BY <2>1 DEF config
  <2>3. [i \in 1..(1 - 1) |-> PTerm(i)]' = << >>
    OBVIOUS
  <2>. QED
    BY <1>0, <2>1, <2>2, <2>3 DEF MInv, MultiplyIsHybridSum
<1>3. CASE MultiplyComponent
  <2>1. /\ pc = "multiply" /\ jj <= Len(hybridBlockChain) /\ jj' = jj + 1
        /\ dxo' = dxo \o ApplyWeight(jj, ChainMultiply(hybridBlockChain[jj], jj,
                                         ApplyWeight(jj, dxi)))
        /\ UNCHANGED <<pc, config, dxi, multOut, returned>>
    BY <1>3 DEF MultiplyComponent
  <2>2. UNCHANGED <<outerBlockChain, hybridBlockChain, hybridScalarWeightSqrt,
                    hybridFieldWeightSqrt>>
    BY <2>1 DEF config
  <2>3. jj \in 1..Len(hybridBlockChain)
    BY <1>0, <2>1
  <2>4. dxi = ApplyOuterBlocksAD(0, outerBlockChain, Input)
        /\ dxo = [i \in 1..(jj - 1) |-> PTerm(i)]
    BY <2>1 DEF MInv
  <2>5. dxo' = [i \in 1..(jj - 1) |-> PTerm(i)] \o <<PTerm(jj)>>
    BY <1>0, <2>1, <2>3, <2>4, ComponentTerm
  <2>6. [i \in 1..(jj - 1) |-> PTerm(i)] \o <<PTerm(jj)>> = [i \in 1..jj |-> PTerm(i)]
    BY <2>3
  <2>7. \A i : PTerm(i)' = PTerm(i)
    BY <2>2 DEF PTerm, FW, WS, CW
  <2>8. jj' - 1 = jj
    BY <2>1, <2>3
  <2>9. dxo' = [i \in 1..(jj' - 1) |-> PTerm(i)']
    BY <2>5, <2>6, <2>7, <2>8
  <2>10. ApplyOuterBlocksAD(0, outerBlockChain, Input)' =
           ApplyOuterBlocksAD(0, outerBlockChain, Input)
    BY <2>2
  <2>11. (pc = "multiply" =>
          /\ dxi = ApplyOuterBlocksAD(0, outerBlockChain, Input)
          /\ dxo = [i \in 1..(jj - 1) |-> PTerm(i)])'
    BY <2>1, <2>4, <2>9, <2>10
  <2>. QED
    BY <1>0, <2>1, <2>11 DEF MInv, MultiplyIsHybridSum
<1>4. CASE MultiplyFinish
  <2>1. /\ pc = "multiply" /\ jj > Len(hybridBlockChain) /\ pc' = "idle"
        /\ multOut' = ApplyOuterBlocks(0, outerBlockChain, dxo)
        /\ returned' = returned \cup {"multiply"}
        /\ UNCHANGED config
    BY <1>4 DEF MultiplyFinish
  <2>2. UNCHANGED <<outerBlockChain, hybridBlockChain, hybridScalarWeightSqrt,
                    hybridFieldWeightSqrt>>
    BY <2>1 DEF config
  <2>. DEFINE L == Len(hybridBlockChain)
  <2>3. dxo = [i \in 1..L |-> PTerm(i)]
    BY <1>0, <2>1 DEF MInv
  <2>4. FwdWord(0, outerBlockChain) \in Seq(Ops)
    BY <1>0, ChainWordType, MaxCompsAssumption DEF TypeOK
  <2>5. ASSUME NEW i \in 1..L
        PROVE  [PTerm(i) EXCEPT !.word = @ \o FwdWord(0, outerBlockChain)]
                 = HybridTermOf(config, i)
    BY <1>0, <2>4, ComponentTerm, ExceptWord, HybridTermForm
  <2>6. multOut' = [i \in 1..L |-> HybridTermOf(config, i)]
    BY <2>1, <2>3, <2>5 DEF ApplyOuterBlocks, ApplyWord
  <2>7. HybridSum(config) = [i \in 1..L |-> HybridTermOf(config, i)]
    BY <1>0 DEF HybridSum, config, TypeOK
  <2>8. MultiplyIsHybridSum'
    BY <2>2, <2>6, <2>7 DEF MultiplyIsHybridSum, HybridSum, config, HybridTermOf
  <2>. QED
    BY <1>0, <2>1, <2>8 DEF MInv
<1>5. CASE RandomizeStart \/ RandomizeComponent \/ RandomizeFinish
  <2>1. /\ pc \in {"idle", "randomize"} /\ pc' \in {"idle", "randomize"}
        /\ UNCHANGED <<config, multOut>>
        /\ ("multiply" \in returned') = ("multiply" \in returned)
    BY <1>5 DEF RandomizeStart, RandomizeComponent, RandomizeFinish
  <2>2. UNCHANGED <<outerBlockChain, hybridBlockChain, hybridScalarWeightSqrt,
                    hybridFieldWeightSqrt>>
    BY <2>1 DEF config
  <2>3. MultiplyIsHybridSum'
    <3>1. MultiplyIsHybridSum
      BY DEF MInv
    <3>. QED
      BY <2>1, <3>1 DEF MultiplyIsHybridSum
  <2>. QED
    BY <1>0, <2>1, <2>3 DEF MInv
<1>6. CASE UNCHANGED vars
  BY <1>0, <1>6 DEF vars, config, MInv, MultiplyIsHybridSum, HybridSum, HybridTermOf,
                    PTerm, FW, WS, CW
<1>. QED
  BY <1>1, <1>2, <1>3, <1>4, <1>5, <1>6 DEF Next

\* Every doMultiply that has returned returned the hybrid sum of spec 4.3
\* for the configuration built, for every number of components and every
\* length of the outer chains.
THEOREM MultiplyAsDocumented == Spec => []MultiplyIsHybridSum
<1>1. MInv => MultiplyIsHybridSum
  BY DEF MInv
<1>. QED
  BY <1>1, InitMInv, NextMInv, PTL DEF Spec
=============================================================================
