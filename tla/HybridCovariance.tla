-------------------------- MODULE HybridCovariance --------------------------
(***************************************************************************)
(* saber::ErrorCovariance (src/saber/oops/ErrorCovariance.h): the          *)
(* constructor that assembles the hybrid components, and the doMultiply    *)
(* and doRandomize handlers that combine them.                             *)
(*                                                                         *)
(* Field data are abstracted to their linear-algebra meaning.  A field is  *)
(* a sum of terms, kept as a sequence; a term is a word of operator        *)
(* symbols applied, first to last, to a source vector (the input "x" of    *)
(* doMultiply, or the random vector xi_j drawn by component j), times a    *)
(* product of square-rooted scalar weights, kept as an exponent per        *)
(* component.  Copying a field is copying the value; zero is the empty     *)
(* sum; "+=" is concatenation; "*=" appends a symbol or raises an          *)
(* exponent.  Two fields are the same operator applied to the same        *)
(* sources exactly when their terms are equal, so the ordering, copying    *)
(* and weighting decisions of the code are kept exactly.                   *)
(*                                                                         *)
(* The block chains (SaberParametricBlockChain, SaberEnsembleBlockChain,   *)
(* SaberOuterBlockChain) are not under src/; their multiply, randomize and *)
(* applyOuterBlocks(AD) are modelled from spec sections 4.2 and 4.3.       *)
(***************************************************************************)
EXTENDS Integers, Sequences, SequencesExt

CONSTANTS
  MaxComps,       \* most hybrid components one configuration lists
  MaxOuter,       \* most outer blocks in one chain
  CentralBlocks,  \* central block names a configuration may use
  WeightValues    \* values the "weight.value" key may take ("default" = absent)

ASSUME MaxCompsAssumption == MaxComps \in Nat \ {0}
ASSUME MaxOuterAssumption == MaxOuter \in Nat
ASSUME CentralBlocksAssumption ==
  CentralBlocks \subseteq {"Ensemble", "ID", "BUMP_NICAS"}
ASSUME WeightValuesAssumption ==
  WeightValues \subseteq {"default", "1.0", "0.3"}

Comps == 1..MaxComps

(***************************************************************************)
(* Operator symbols.  c is the chain owning the symbol (0 for the common   *)
(* outer chain outerBlockChain_, j for component j), pos the position of   *)
(* an outer block in its chain, ad whether the adjoint is applied.         *)
(***************************************************************************)
OpKinds == {"outer", "central", "sqrt", "fieldweight"}
Ops == [k : OpKinds, c : 0..MaxComps, pos : 0..MaxOuter, ad : BOOLEAN]

OuterOp(c, i, ad) == [k |-> "outer", c |-> c, pos |-> i, ad |-> ad]
CentralOp(j) == [k |-> "central", c |-> j, pos |-> 0, ad |-> FALSE]
SqrtOp(j) == [k |-> "sqrt", c |-> j, pos |-> 0, ad |-> FALSE]
FieldWeightOp(j) == [k |-> "fieldweight", c |-> j, pos |-> 0, ad |-> FALSE]

\* Central blocks and diagonal field weights are self-adjoint by contract;
\* the adjoint of an outer block or of a square root is its transpose.
Adj(o) == IF o.k \in {"outer", "sqrt"} THEN [o EXCEPT !.ad = ~@] ELSE o

\* The word of the adjoint operator: reversed, each symbol transposed.
AdjWord(w) == Reverse([i \in DOMAIN w |-> Adj(w[i])])

\* Source 0 is the input x of doMultiply, source j the vector xi_j.
Sources == 0..MaxComps
ZeroSc == [c \in Comps |-> 0]
Terms == [src : Sources, sc : [Comps -> Nat], word : Seq(Ops)]
Fields == Seq(Terms)

ApplyWord(w, f) == [i \in DOMAIN f |-> [f[i] EXCEPT !.word = @ \o w]]
ScaleBy(j, f) == [i \in DOMAIN f |-> [f[i] EXCEPT !.sc[j] = @ + 1]]

\* The increment doMultiply is called with, and the sample of central block j.
Input == <<[src |-> 0, sc |-> ZeroSc, word |-> <<>>]>>
Sample(j) == <<[src |-> j, sc |-> ZeroSc, word |-> <<SqrtOp(j)>>]>>

(***************************************************************************)
(* Block chains (spec 4.2).  applyOuterBlocks applies the blocks of a      *)
(* chain in declared order, applyOuterBlocksAD their adjoints in reverse.  *)
(***************************************************************************)
FwdWord(c, n) == [i \in 1..n |-> OuterOp(c, i, FALSE)]
ADWord(c, n) == [i \in 1..n |-> OuterOp(c, n + 1 - i, TRUE)]
ApplyOuterBlocks(c, n, f) == ApplyWord(FwdWord(c, n), f)
ApplyOuterBlocksAD(c, n, f) == ApplyWord(ADWord(c, n), f)

Chains == [central : CentralBlocks, nOuter : 0..MaxOuter]

\* ID::multiply and ID::randomize leave the field set as it is
\* (src/unnamed/part_004); other central blocks multiply by C_j and
\* randomize by overwriting the field with L_j xi_j, C_j = L_j L_j^t.
CentralMultiply(ch, j, f) ==
  IF ch.central = "ID" THEN f ELSE ApplyWord(<<CentralOp(j)>>, f)
CentralRandomize(ch, j, f) ==
  IF ch.central = "ID" THEN f ELSE Sample(j)

\* Chain multiply: outer adjoints, central block, outer blocks (spec 4.3).
ChainMultiply(ch, j, f) ==
  ApplyOuterBlocks(j, ch.nOuter,
    CentralMultiply(ch, j, ApplyOuterBlocksAD(j, ch.nOuter, f)))
\* Chain randomize: central randomize propagated through its outer blocks.
ChainRandomize(ch, j, f) ==
  ApplyOuterBlocks(j, ch.nOuter, CentralRandomize(ch, j, f))

\* Mutant: the weight stored without its square root.
SqrtWeightRaw(v) == v

\* std::sqrt(weightConf.getDouble("value", 1.0))
SqrtWeight(v) == IF v = "0.3" THEN "sqrt(0.3)" ELSE "1.0"

Components == [weight : WeightValues, file : BOOLEAN, cov : Chains]

VARIABLES
  pc,                       \* "unbuilt", "idle", or the handler running
  outerBlockChain,          \* length of outerBlockChain_, 0 when null
  hybridBlockChain,         \* hybridBlockChain_
  hybridScalarWeightSqrt,   \* hybridScalarWeightSqrt_
  hybridFieldWeightSqrt,    \* hybridFieldWeightSqrt_: TRUE when not empty
  jj,                       \* component loop index
  dxi,                      \* doMultiply's copy of the adjoint-transformed input
  dxo,                      \* the sum being accumulated (dxo, or dx in doRandomize)
  multOut,                  \* dxo_inc returned by the last doMultiply
  randOut,                  \* dx_inc returned by the last doRandomize
  returned                  \* the handlers that have returned at least once

config == <<outerBlockChain, hybridBlockChain, hybridScalarWeightSqrt,
            hybridFieldWeightSqrt>>
vars == <<pc, config, jj, dxi, dxo, multOut, randOut, returned>>

\* Both "*=" of a loop iteration: scalar weight unless it is 1.0, then
\* the field weight unless the field set is empty.
ApplyWeight(j, f) ==
  LET f1 == IF hybridScalarWeightSqrt[j] # "1.0" THEN ScaleBy(j, f) ELSE f
  IN  IF hybridFieldWeightSqrt[j] THEN ApplyWord(<<FieldWeightOp(j)>>, f1)
                                  ELSE f1

Init ==
  /\ pc = "unbuilt"
  /\ outerBlockChain = 0
  /\ hybridBlockChain = <<>>
  /\ hybridScalarWeightSqrt = <<>>
  /\ hybridFieldWeightSqrt = <<>>
  /\ jj = 1
  /\ dxi = <<>>
  /\ dxo = <<>>
  /\ multOut = <<>>
  /\ randOut = <<>>
  /\ returned = {}

\* Constructor, hybrid case: common outer blocks (n = 0 when the
\* "saber outer blocks" section is absent), then one chain, one scalar
\* weight and one field weight pushed per entry of "components".
ConstructHybrid ==
  /\ pc = "unbuilt"
  /\ \E n \in 0..MaxOuter, nc \in 0..MaxComps :
       \E cmps \in [1..nc -> Components] :
         /\ outerBlockChain' = n
         /\ hybridBlockChain' = [c \in 1..nc |-> cmps[c].cov]
         /\ hybridScalarWeightSqrt' = [c \in 1..nc |-> SqrtWeight(cmps[c].weight)]
         /\ hybridFieldWeightSqrt' = [c \in 1..nc |-> cmps[c].file]
  /\ pc' = "idle"
  /\ UNCHANGED <<jj, dxi, dxo, multOut, randOut, returned>>

\* Constructor, non-hybrid case: a single chain built from the whole
\* configuration (its outer blocks inside it), weight 1.0, empty field
\* weight, no common outer chain.
ConstructSingle ==
  /\ pc = "unbuilt"
  /\ \E ch \in Chains :
       /\ hybridBlockChain' = <<ch>>
       /\ hybridScalarWeightSqrt' = <<"1.0">>
       /\ hybridFieldWeightSqrt' = <<FALSE>>
  /\ outerBlockChain' = 0
  /\ pc' = "idle"
  /\ UNCHANGED <<jj, dxi, dxo, multOut, randOut, returned>>

\* Mutant: dxo.zero() missing, the sum starts from the input.
MultiplyStartNoZero ==
  /\ pc = "idle"
  /\ dxi' = ApplyOuterBlocksAD(0, outerBlockChain, Input)
  /\ dxo' = dxi'
  /\ jj' = 1
  /\ pc' = "multiply"
  /\ UNCHANGED <<config, multOut, randOut, returned>>

\* doMultiply up to the loop: copy input, common outer adjoint, copy to
\* dxi, zero dxo.
MultiplyStart ==
  /\ pc = "idle"
  /\ dxi' = ApplyOuterBlocksAD(0, outerBlockChain, Input)
  /\ dxo' = <<>>
  /\ jj' = 1
  /\ pc' = "multiply"
  /\ UNCHANGED <<config, multOut, randOut, returned>>

\* One iteration of the doMultiply loop over B components.
MultiplyComponent ==
  /\ pc = "multiply"
  /\ jj <= Len(hybridBlockChain)
  /\ LET fset == ApplyWeight(jj,
                   ChainMultiply(hybridBlockChain[jj], jj, ApplyWeight(jj, dxi)))
     IN  dxo' = dxo \o fset
  /\ jj' = jj + 1
  /\ UNCHANGED <<pc, config, dxi, multOut, randOut, returned>>

\* doMultiply after the loop: common outer blocks forward, copy out.
MultiplyFinish ==
  /\ pc = "multiply"
  /\ jj > Len(hybridBlockChain)
  /\ multOut' = ApplyOuterBlocks(0, outerBlockChain, dxo)
  /\ returned' = returned \cup {"multiply"}
  /\ pc' = "idle"
  /\ UNCHANGED <<config, jj, dxi, dxo, randOut>>

\* Mutant: dx_inc.zero() missing, the sum starts from the increment passed.
RandomizeStartNoZero ==
  /\ pc = "idle"
  /\ dxo' = randOut
  /\ jj' = 1
  /\ pc' = "randomize"
  /\ UNCHANGED <<config, dxi, multOut, randOut, returned>>

\* doRandomize up to the loop: the sum starts at zero.
RandomizeStart ==
  /\ pc = "idle"
  /\ dxo' = <<>>
  /\ jj' = 1
  /\ pc' = "randomize"
  /\ UNCHANGED <<config, dxi, multOut, randOut, returned>>

\* Mutant: the sample weighted twice, as in doMultiply.
RandomizeComponentWeightTwice ==
  /\ pc = "randomize"
  /\ jj <= Len(hybridBlockChain)
  /\ dxo' = dxo \o ApplyWeight(jj, ApplyWeight(jj,
                     ChainRandomize(hybridBlockChain[jj], jj, <<>>)))
  /\ jj' = jj + 1
  /\ UNCHANGED <<pc, config, dxi, multOut, randOut, returned>>

\* One iteration of the doRandomize loop: randomize a copy of the zero
\* field set through the component chain, weight once, add.
RandomizeComponent ==
  /\ pc = "randomize"
  /\ jj <= Len(hybridBlockChain)
  /\ LET fset == ApplyWeight(jj, ChainRandomize(hybridBlockChain[jj], jj, <<>>))
     IN  dxo' = dxo \o fset
  /\ jj' = jj + 1
  /\ UNCHANGED <<pc, config, dxi, multOut, randOut, returned>>

\* doRandomize after the loop: common outer blocks forward, copy out.
RandomizeFinish ==
  /\ pc = "randomize"
  /\ jj > Len(hybridBlockChain)
  /\ randOut' = ApplyOuterBlocks(0, outerBlockChain, dxo)
  /\ returned' = returned \cup {"randomize"}
  /\ pc' = "idle"
  /\ UNCHANGED <<config, jj, dxi, dxo, multOut>>

Next ==
  \/ ConstructHybrid
  \/ ConstructSingle
  \/ MultiplyStart
  \/ MultiplyComponent
  \/ MultiplyFinish
  \/ RandomizeStart
  \/ RandomizeComponent
  \/ RandomizeFinish

Spec == Init /\ [][Next]_vars

-----------------------------------------------------------------------------
TypeOK ==
  /\ pc \in {"unbuilt", "idle", "multiply", "randomize"}
  /\ outerBlockChain \in 0..MaxOuter
  /\ hybridBlockChain \in Seq(Chains)
  /\ Len(hybridBlockChain) <= MaxComps
  /\ hybridScalarWeightSqrt \in [1..Len(hybridBlockChain) -> {"1.0", "sqrt(0.3)"}]
  /\ hybridFieldWeightSqrt \in [1..Len(hybridBlockChain) -> BOOLEAN]
  /\ jj \in 1..(Len(hybridBlockChain) + 1)
  /\ dxi \in Fields
  /\ dxo \in Fields
  /\ multOut \in Fields
  /\ randOut \in Fields
  /\ returned \subseteq {"multiply", "randomize"}

(***************************************************************************)
(* The operator doMultiply realises is B = sum_j w_j U K_j C_j K_j^t U^t   *)
(* with field weights W_j on both sides (spec 4.3): the term of component  *)
(* j in the closed form, under a configuration c = config.                 *)
(***************************************************************************)
HybridTermOf(c, j) ==
  LET ch == c[2][j]
      fw == IF c[4][j] THEN <<FieldWeightOp(j)>> ELSE <<>>
      cw == IF ch.central = "ID" THEN <<>> ELSE <<CentralOp(j)>>
  IN  [src  |-> 0,
       sc   |-> [ZeroSc EXCEPT ![j] = IF c[3][j] # "1.0" THEN 2 ELSE 0],
       word |-> ADWord(0, c[1]) \o fw \o ADWord(j, ch.nOuter)
                \o cw \o FwdWord(j, ch.nOuter) \o fw \o FwdWord(0, c[1])]

HybridSum(c) == [j \in DOMAIN c[2] |-> HybridTermOf(c, j)]

\* The sample of component j (spec 4.3): L_j xi_j through the component's
\* outer blocks, weighted once, through the common outer blocks.  ID's
\* randomize leaves the zero field set, so it contributes no term.
SampleOf(c, j) ==
  LET ch == c[2][j]
      fw == IF c[4][j] THEN <<FieldWeightOp(j)>> ELSE <<>>
  IN  IF ch.central = "ID" THEN <<>>
      ELSE <<[src  |-> j,
              sc   |-> [ZeroSc EXCEPT ![j] = IF c[3][j] # "1.0" THEN 1 ELSE 0],
              word |-> <<SqrtOp(j)>> \o FwdWord(j, ch.nOuter) \o fw
                       \o FwdWord(0, c[1])]>>

HybridSample(c) == FlattenSeq([j \in DOMAIN c[2] |-> SampleOf(c, j)])

\* doMultiply returns the hybrid sum: each component once, weighted by
\* sqrt(w)*sqrt(w) and W_j on both sides, between the common outer adjoint
\* and forward blocks; nothing of the input or of another component leaks
\* into a component's term.
MultiplyIsHybridSum ==
  "multiply" \in returned => multOut = HybridSum(config)

\* The covariance of a randomize term r = K xi_j, with K = rest of r after
\* L_j: K L_j L_j^t K^t = K C_j K^t, weights squared.
CovarianceOf(r) ==
  [src  |-> 0,
   sc   |-> [c \in Comps |-> 2 * r.sc[c]],
   word |-> AdjWord(Tail(r.word)) \o <<CentralOp(r.src)>> \o Tail(r.word)]

\* doRandomize draws samples with the covariance doMultiply applies: one
\* term per component, from independent random vectors, each starting
\* with the component's square root, whose covariance is exactly the
\* matching term of doMultiply.
RandomizeIsSquareRoot ==
  returned = {"multiply", "randomize"} =>
    /\ Len(randOut) = Len(multOut)
    /\ \A i \in DOMAIN randOut :
         /\ randOut[i].src = i
         /\ randOut[i].word # <<>>
         /\ Head(randOut[i].word) = SqrtOp(i)
         /\ multOut[i] = CovarianceOf(randOut[i])

\* The configurations a constructor may build.
BuiltConfigs ==
  UNION {{<<n, chs, sw, fw>> :
            n \in 0..MaxOuter, chs \in [1..k -> Chains],
            sw \in [1..k -> {"1.0", "sqrt(0.3)"}], fw \in [1..k -> BOOLEAN]} :
         k \in 0..MaxComps}

Contract == INSTANCE HybridCovarianceContract WITH
  phase <- IF pc = "unbuilt" THEN "unbuilt" ELSE "idle",
  config <- config, multOut <- multOut, randOut <- randOut,
  returned <- returned,
  Configs <- BuiltConfigs,
  MultiplyResult <- HybridSum, RandomizeResult <- HybridSample

\* ErrorCovariance implements its contract (spec 4.3): the loops of
\* doMultiply and doRandomize, with their working field sets dxi and dxo,
\* are invisible to the caller; every call, whatever calls came before it,
\* returns the closed-form hybrid sum or sample of the configuration the
\* constructor built, and nothing else changes what the caller sees.
ImplementsContract == Contract!Spec
=============================================================================
