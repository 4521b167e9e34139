------------------------- MODULE SpectralCorrelation -------------------------
(***************************************************************************)
(* saber::spectralb::SpectralCorrelation (src/unnamed/part_001, lines      *)
(* 1-280), the central block that convolves each spectral column with a    *)
(* level x level correlation matrix of its total wavenumber, together with *)
(* the adjoint test every central block inherits from                      *)
(* SaberCentralBlockBase (src/saber/blocks/SaberCentralBlockBase.cc).      *)
(*                                                                         *)
(* Spectral fields are kept exactly: one row per (zonal wavenumber m,      *)
(* total wavenumber n >= m, real/imaginary part) of this rank, one column  *)
(* per level.  multiply divides by (2n+1) * nSpectralBins; to keep         *)
(* integers, every field multiply returns is scaled by Den, the product    *)
(* of all those norms, so a value v of the code is v * Den here.  The      *)
(* correlation file read() converts is abstracted to the correlation       *)
(* tensor it yields (createSpectralCorrelations is not under src/).        *)
(***************************************************************************)
EXTENDS Integers, Sequences, SequencesExt, FiniteSets

CONSTANTS
  N,            \* spectral truncation of the function space
  NLevels,      \* levels of every variable
  Zonal,        \* zonal_wavenumbers() of this rank, in order
  Vars,         \* variables of the field sets
  ActiveVars,   \* activeVars_
  Ranks,        \* MPI tasks of the communicator
  Root,         \* rank 0
  CorrVals,     \* off-diagonal correlation values a file may hold
  TestFields,   \* field sets multiply and createRandomFieldSet may produce
  TolNum, TolDen  \* adjoint tolerance TolNum / TolDen

ASSUME NAssumption == N \in Nat
ASSUME LevelsAssumption == NLevels \in Nat \ {0}
ASSUME ZonalAssumption == Zonal \in Seq(0..N)
ASSUME VarsAssumption == ActiveVars \subseteq Vars
ASSUME RanksAssumption == Root \in Ranks
ASSUME TolAssumption == TolNum \in Nat /\ TolDen \in Nat \ {0}

Levels == 1..NLevels

\* Mutant: the img loop dropped, one row per (m, n1).
RowWavenumberNoImag ==
  FlattenSeq([jm \in DOMAIN Zonal |->
    [k \in 1..(N + 1 - Zonal[jm]) |-> Zonal[jm] + k - 1]])

\* The total wavenumber n1 of each row, in the order the loops of multiply
\* visit them: for jm, for n1 in m1..N, for img in {0, 1}, ++i.
RowWavenumber ==
  FlattenSeq([jm \in DOMAIN Zonal |->
    FlattenSeq([k \in 1..(N + 1 - Zonal[jm]) |->
      <<Zonal[jm] + k - 1, Zonal[jm] + k - 1>>])])
Rows == 1..Len(RowWavenumber)

\* norm = (2 * n1 + 1) * vertCovView.shape(0), shape(0) = nSpectralBins.
Norm(n) == (2 * n + 1) * (N + 1)
Den == ProductSet({Norm(n) : n \in 0..N})

Matrices == [Levels -> [Levels -> Int]]
\* What createSpectralCorrelations yields: symmetric, unit diagonal.
CorrMatrices ==
  {m \in [Levels -> [Levels -> CorrVals \cup {1}]] :
     \A r, c \in Levels : /\ m[r][c] = m[c][r]
                          /\ (r = c) => m[r][c] = 1}
Tensors == [ActiveVars -> [0..N -> Matrices]]
FileTensors == [ActiveVars -> [0..N -> CorrMatrices]]
FieldSets == [Vars -> [Rows -> [Levels -> Int]]]

\* col2[r] = sum_c vertCovView(n1, r, c) * col[c] / norm, times Den.
Convolve(m, col, n) ==
  [r \in Levels |->
     SumFunction([c \in Levels |-> m[r][c] * col[c]]) * (Den \div Norm(n))]

\* Mutant: a result field set built from the active variables only.
MultiplyActiveOnly(cr, fs) ==
  [v \in ActiveVars |->
     [i \in Rows |-> Convolve(cr[v][RowWavenumber[i]], fs[v][i],
                              RowWavenumber[i])]]

\* multiply: active variables convolved row by row, the others untouched.
Multiply(cr, fs) ==
  [v \in Vars |->
     IF v \in ActiveVars
     THEN [i \in Rows |-> Convolve(cr[v][RowWavenumber[i]], fs[v][i],
                                   RowWavenumber[i])]
     ELSE [i \in Rows |-> [l \in Levels |-> fs[v][i][l] * Den]]]

\* util::dotProductFieldSets over all variables, summed over the ranks.
Dot(f, g) ==
  SumFunction([p \in Vars \X Rows \X Levels |->
                 f[p[1]][p[2]][p[3]] * g[p[1]][p[2]][p[3]]])

Abs(x) == IF x < 0 THEN -x ELSE x

\* |dp1 - dp2| / |0.5 (dp1 + dp2)| < tolerance, cross-multiplied: when
\* dp1 + dp2 = 0 the quotient is inf or NaN and the comparison is false.
AdjointPasses(dp1, dp2) ==
  2 * Abs(dp1 - dp2) * TolDen < TolNum * Abs(dp1 + dp2)

\* The sum of all ranks' copies that gatherSumSpectralFieldSet leaves on
\* the root.
GatherSum(corrs) ==
  [v \in ActiveVars |-> [n \in 0..N |-> [r \in Levels |-> [c \in Levels |->
     SumFunction([rk \in Ranks |-> corrs[rk][v][n][r][c]])]]]]

VARIABLES
  phase,      \* "constructed", "ready" (operator read), "aborted" (exception)
  calib,      \* the "calibration" parameters are present
  corr,       \* spectralVerticalCorrelations_ of each rank
  written,    \* what the root wrote to the file, <<>> before any write
  lastIn,     \* the field set of the last multiply
  lastOut,    \* what that multiply left in it
  tested      \* an adjoint test has passed

vars == <<phase, calib, corr, written, lastIn, lastOut, tested>>

Init ==
  /\ phase = "constructed"
  /\ calib \in BOOLEAN
  /\ corr = [rk \in Ranks |-> <<>>]
  /\ written = <<>>
  /\ lastIn = <<>>
  /\ lastOut = <<>>
  /\ tested = FALSE

\* read(): the parameters come from "calibration"."calibration read" when
\* calibration parameters exist, else from "read"; with calibration but no
\* calibration read section sparams stays default-constructed, and with
\* neither the optional is dereferenced: the file cannot be read.  Every
\* rank reads the whole file and converts it to correlations.
Read ==
  /\ phase # "aborted"
  /\ \E calibRead \in BOOLEAN, readParams \in BOOLEAN :
       IF (calib /\ calibRead) \/ (~calib /\ readParams)
       THEN \E t \in FileTensors :
              /\ corr' = [rk \in Ranks |-> t]
              /\ phase' = "ready"
       ELSE /\ phase' = "aborted"
            /\ UNCHANGED corr
  /\ UNCHANGED <<calib, written, lastIn, lastOut, tested>>

\* multiply(fieldSet); before read() the correlation field set is empty
\* and spectralVerticalCorrelations_[var] throws.
MultiplyBlock ==
  /\ phase # "aborted"
  /\ \E fs \in TestFields :
       IF phase = "ready"
       THEN /\ lastIn' = fs
            /\ lastOut' = Multiply(corr[Root], fs)
            /\ UNCHANGED phase
       ELSE /\ phase' = "aborted"
            /\ UNCHANGED <<lastIn, lastOut>>
  /\ UNCHANGED <<calib, corr, written, tested>>

\* randomize and directCalibration throw FunctionalityNotSupported.
RandomizeBlock ==
  /\ phase # "aborted"
  /\ phase' = "aborted"
  /\ UNCHANGED <<calib, corr, written, lastIn, lastOut, tested>>

DirectCalibration ==
  /\ phase # "aborted"
  /\ phase' = "aborted"
  /\ UNCHANGED <<calib, corr, written, lastIn, lastOut, tested>>

\* write(): copy, gather and sum on rank 0, the root writes the header and
\* one variable per active field.  The write parameters are read from the
\* calibration parameters, which must exist.
Write ==
  /\ phase = "ready"
  /\ IF calib
     THEN /\ written' = GatherSum(corr)
          /\ UNCHANGED phase
     ELSE /\ phase' = "aborted"
          /\ UNCHANGED written
  /\ UNCHANGED <<calib, corr, lastIn, lastOut, tested>>

\* SaberCentralBlockBase::adjointTest: two random field sets, multiply
\* each, compare y^t(Ax) with x^t(Ay); failure throws.
AdjointTest ==
  /\ phase = "ready"
  /\ \E x1, x2 \in TestFields :
       LET dp1 == Dot(Multiply(corr[Root], x1), x2)
           dp2 == Dot(Multiply(corr[Root], x2), x1)
       IN  IF AdjointPasses(dp1, dp2)
           THEN /\ tested' = TRUE
                /\ UNCHANGED phase
           ELSE /\ phase' = "aborted"
                /\ UNCHANGED tested
  /\ UNCHANGED <<calib, corr, written, lastIn, lastOut>>

Next ==
  \/ Read
  \/ MultiplyBlock
  \/ RandomizeBlock
  \/ DirectCalibration
  \/ Write
  \/ AdjointTest

Spec == Init /\ [][Next]_vars

-----------------------------------------------------------------------------
TypeOK ==
  /\ phase \in {"constructed", "ready", "aborted"}
  /\ calib \in BOOLEAN
  /\ \A rk \in Ranks : corr[rk] \in Tensors \cup {<<>>}
  /\ written \in Tensors \cup {<<>>}
  /\ lastIn \in TestFields \cup {<<>>}
  /\ lastOut \in FieldSets \cup {<<>>}
  /\ tested \in BOOLEAN

(***************************************************************************)
(* The spectral layout: for the jm-th zonal wavenumber m, total wavenumber *)
(* n and part img, the row is 2 * (number of (m', n') pairs of the zonal   *)
(* wavenumbers before jm) + 2 * (n - m) + img + 1.                         *)
(***************************************************************************)
RowsBefore(jm) ==
  2 * SumFunction([k \in 1..(jm - 1) |-> N + 1 - Zonal[k]])
LayoutRow(jm, n, img) == RowsBefore(jm) + 2 * (n - Zonal[jm]) + img + 1

\* The normalisation spec 4.1 states, 1 / ((2n+1) * nSpectralBins), with
\* nSpectralBins = N + 1, stated apart from the Norm that multiply uses;
\* RefDen clears the denominators of the reference.
RefNorm(n) == (2 * n + 1) * (N + 1)
RefDen == ProductSet({RefNorm(n) : n \in 0..N})

\* Reference operator from spec 4.1: each (m, n, part) column of an active
\* variable times C_n / ((2n+1) * nSpectralBins), the rest untouched.
RefMultiply(c, fs) ==
  [v \in Vars |-> [i \in Rows |->
     IF v \in ActiveVars
     THEN LET n == CHOOSE n \in 0..N :
                     \E jm \in DOMAIN Zonal, img \in 0..1 :
                       n >= Zonal[jm] /\ LayoutRow(jm, n, img) = i
          IN  [r \in Levels |-> SumFunction([l \in Levels |->
                 c[v][n][r][l] * fs[v][i][l]]) * (RefDen \div RefNorm(n))]
     ELSE [l \in Levels |-> fs[v][i][l] * RefDen]]]

\* Every multiply step returns the reference operator applied to its
\* input: the row walk of multiply (jm, n1 from m1 to N, img, ++i) visits
\* exactly the rows of the spectral layout, each with its own C_n and norm.
MultiplyStep == MultiplyBlock /\ phase' = "ready"
MultiplyMatchesLayout ==
  [][MultiplyStep => /\ Len(RowWavenumber) = RowsBefore(Len(Zonal) + 1)
                     /\ lastOut' = RefMultiply(corr[Root], lastIn')]_vars

\* write() persists the operator multiply applies: the file the root
\* writes holds the correlations the block has in memory.
WrittenIsOperator ==
  [][(Write /\ written' # written) => written' = corr[Root]]_vars
=============================================================================
