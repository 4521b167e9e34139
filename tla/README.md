# TLA+ models of SABER's covariance blocks

This directory has TLA+ specifications of the parts of SABER (the System
Agnostic Background Error Representation) whose code is in `src/`. It also
has the TLC configurations that model-check them and the TLAPS proofs about
them. Every definition is translated from the source file and lines that
`PROJECT.json` ("map") names. The block chains that are not under `src/`
are the exception: they are modelled from `spec.md` and marked
`spec_modelled`.

## The system and how its parts interact

- **ErrorCovariance** (`src/saber/oops/ErrorCovariance.h`) is the B matrix
  that OOPS uses.
  - Its constructor builds either a single block chain or a *hybrid*
    covariance. A hybrid covariance is a list of components, each a block
    chain with a scalar weight and an optional field weight, all behind an
    optional common chain of outer blocks.
  - `doMultiply` applies sum_j w_j U K_j C_j K_j^t U^t.
  - `doRandomize` draws a sample with that covariance.
  - `doInverseMultiply` runs GMRESR.
- **Central blocks** are the C_j at the heart of each chain. They are
  registered by name in the factory of
  `src/saber/blocks/SaberCentralBlockBase.cc`. That file also has the
  adjoint test that every central block can run. The central blocks
  with code in `src/` are:
  - **ID** (`src/unnamed/part_004`): multiply and randomize do nothing.
  - **SpectralCorrelation** (`src/unnamed/part_001`, first file): reads
    vertical correlations per total wavenumber, multiplies a spectral
    field set by them, and can write them back gathered over the MPI ranks.
  - **GSI Covariance** (`src/unnamed/part_003`, Fortran; its C++ header is
    `part_002`): hands the JEDI fields of every time slot to the GSI error
    operator. It first checks which fields are present and repairs some
    missing ones (`cvfix_`/`svfix_`).
  - **SPNOINTERP_COV** (`part_001`, second file): forwards to a class that
    is not in `src/`.
- **HydroBal** (`src/saber/vader/HydroBalSaberBlock.cc`) is an outer
  block. Its constructor collects the background fields it linearises
  about and evaluates the derived ones. Its multiply, inverse and adjoint
  hand a field set to the `mo::` hydrostatic-balance operators with that
  trajectory.
- **The training application** (`ErrorCovarianceTraining.h`) builds the
  ensembles, hands them to BUMP, runs BUMP's drivers and writes what they
  computed.
- **Outside the model:** the MoistIncrOp and GSI interpolation headers.

## Modules

| Module | Models | State | Actions |
|---|---|---|---|
| `HybridCovariance` | ErrorCovariance constructor, doMultiply, doRandomize; ID central block | the four member vectors, the loop index `jj`, the working field sets `dxi`, `dxo`, the returned results | `ConstructHybrid`, `ConstructSingle`, `MultiplyStart`, `MultiplyComponent` (one loop iteration), `MultiplyFinish`, `RandomizeStart`, `RandomizeComponent`, `RandomizeFinish` |
| `SpectralCorrelation` | SpectralCorrelation read/multiply/randomize/directCalibration/write, and SaberCentralBlockBase::adjointTest | the phase, whether calibration parameters exist, the correlations held by every rank, what the root wrote, the last multiply's input and output | `Read`, `MultiplyBlock`, `RandomizeBlock`, `DirectCalibration`, `Write`, `AdjointTest` |
| `GSICovariance` | gsi_covariance_mod create/multiply/randomize with get_rank2_, cvfix_, svfix_ | the phase, `noGSI`, `cv`, the (slot, variable) pairs GSI received unset from create and from the last multiply, the call count, the last random sample | `Create`, `Multiply`, `Randomize`, `Done` |
| `CentralBlockFactory` | SaberCentralBlockFactory: maker registration during static initialisation, create, createParameters | the linked makers, those not yet initialised, getMakers(), the phase, the blocks made | `Register(r)`, `StartMain`, `Create`, `CreateParameters` |
| `HybridCovarianceContract` | what ErrorCovariance promises (spec 4.3): the abstract specification `HybridCovariance` implements | the phase, the configuration built, the last results | `Construct`, `Multiply`, `Randomize`, each one step |
| `ErrorCovarianceTraining` | ErrorCovarianceTraining::execute | the phase, the configuration, the two ensembles (sizes), the randomized members, `geom2`, `ens1_ne`/`ens2_ne`, BUMP's sizes and member lists, the addMember and update* calls, the files written | `SetupEnsemble1`, `SetupEnsemble2`, `BumpConstruct`, `SkipBump`, `AddMembers`, `IterativeLoad`, `RunDrivers`, `ApplyOperators`, `ApplyDone`, `WriteOutputs`, `Finish` |
| `HydroBal` | HydroBalSaberBlock constructor, multiply, inverseMultiply, the adjoints, randomize | the phase, the caller's background before and after, the fields `augmentedStateFieldSet_` shares, the operator calls with the trajectory each read | `Construct`, `Apply`, `Randomize` |
| `HybridCovarianceProofs`, `HybridCovarianceRefinement`, `HybridCovarianceSamples`, `GSICovarianceProofs`, `CentralBlockFactoryProofs`, `ErrorCovarianceTrainingProofs`, `HydroBalProofs` | TLAPS proofs | | |

Each `MC*` module instantiates one of them for TLC.

### HybridCovariance: abstraction

A field set is modelled by what it *means*, not by its numbers. A field
is a sum of terms, kept as a sequence. A term has three parts:

- a source: 0 for the multiply input x, or j for the random vector xi_j
  of component j;
- a word of operator symbols applied to that source, first to last;
- the exponent of each component's square-rooted scalar weight.

The code's operations map onto this as follows:

- copying a field copies the value;
- `zero()` is the empty sum and `+=` is concatenation;
- `*=` by a scalar weight raises its exponent;
- `*=` by a field weight, a central block or an outer block appends its
  symbol.

Two field sets are the same linear expression exactly when they are
equal. So every ordering, copying and weighting decision in the code is
kept, while no number is computed. The block chains are not in `src/`.
Their multiply (outer adjoints, central, outer forward) and randomize
(central randomize, outer forward) come from spec sections 4.2-4.3. For
ID the central multiply and randomize are identities, from
`part_004`.

### HybridCovariance implements its contract

`HybridCovarianceContract` is the combiner seen from its caller. It is
built once, and then each doMultiply and doRandomize returns its result
in one step. The results are operator parameters. `HybridCovariance`
instantiates them with the closed forms of spec 4.3:

- `HybridSum` gives, for each component j, the term
  U^t W_j K_j^t C_j K_j W_j U with the weight w_j;
- `HybridSample` gives, for each component j, L_j xi_j through K_j, W_j
  and U, weighted by sqrt(w_j); an ID component contributes nothing.

The refinement mapping maps every phase except "unbuilt" to "idle", and
hides `jj`, `dxi` and `dxo`. So the start and loop steps of a handler are
stutters, and only its finish step is a step of the contract. The
property `ImplementsContract` (`Contract!Spec`) says that every call,
whatever calls came before it, returns the closed form of the
configuration the constructor built.

### ErrorCovarianceTraining: abstraction

`execute` is sequential, so each phase is one action, with its loops
computed whole.

- An ensemble is its size, or `NoEnsemble` for a null pointer.
- The members drawn from the B matrix are integers, each multiplied by
  the ensemble size, so that removing the mean (lines 231-248) stays
  exact.
- The sum of lines 235-241 is `SeqSum`. It counts units: one pair
  `<<i, k>>` for each unit of a positive member, less one for each unit
  of a negative member. Its value is the sum, but it is not defined by
  recursion, so TLAPS can show that it is an integer.
- BUMP is not in `src/`. The sizes it is built with are kept, and so are
  its member lists `memberConfig1/2` (those of its own section, or
  none).
- Sections read once are chosen where they are read. Those read at
  several places (the geometry, `bump`, the drivers, the operator
  applications, the outputs) are fixed in `cfg` at the start.

### HydroBal: abstraction

An atlas field set holds field handles, so `add(xb[s])` at line 99 shares
the data of the caller's field. A field is modelled by the provenance of
its data: "file", as the caller passed it, or the `mo::` evaluation that
wrote it last. The `mo::` functions are not in `src/`. What each writes
is what the comments of lines 76-82 say it populates. The norm loops only
print, and are left out. The optional "active variables" is a sequence
of length zero or one.

### SpectralCorrelation: abstraction

Data are integers, kept exact. The code divides by
norm(n) = (2n+1)(N+1), at `part_001:109`. The model multiplies every
output by Den, the product of all norms, so that each quotient stays an
integer. The reference `RefMultiply` that `MultiplyMatchesLayout`
compares against states its own normalisation (`RefNorm`, `RefDen`),
taken from spec 4.1. So a slip in `Norm` is caught as well as a slip in
the layout: with `Norm(n) = 2n+1`, TLC reports the property violated.

The row order comes from the loops of `multiply`: for each zonal
wavenumber m, for n from m to N, one row for the real part and one for
the imaginary part. `RowWavenumber` gives that order as a flattened
sequence.

Every rank holds the whole correlation tensor after `read`. `write`
gather-sums the ranks' copies onto the root. The file readers and
`createSpectralCorrelations` are not in `src/`: `read` yields any
symmetric, unit-diagonal tensor over `CorrVals`.

### GSICovariance: abstraction

A JEDI field set is the set of fields that `get_rank2_` finds in it.
`ts` and `sst` both map to the skin temperature.

The status loop of `create` and `multiply` resets `itbd` for every time
slot, so only the statuses of the last slot survive (`SlotStatus`). The
repairs `cvfix_` and `svfix_` work as follows:

- both rebuild `tv` from `t`, without testing whether `get_rank2_` found
  `t`;
- `cvfix_`'s SST block is entered on a missing `ts` but marks `sst`;
- `svfix_` marks `prse` for GSI to compute.

Each handler is one action, because the Fortran runs to completion or to
`abor1_ftn` the same way on every rank. The GSI operator itself is not in
`src/`. The model records which (slot, variable) pairs reach it without a
value.

`randomize` has undefined behaviour: its pointers `psi` and `u` have no
initializer, so `associated()` reads an undefined status when neither
field pair is present. That outcome is a nondeterministic choice between
skipping the draws and a wild write ("crashed").

## Runs

| Run | Expect | Checks | What it shows |
|---|---|---|---|
| `hybrid` | pass | `TypeOK`, `MultiplyIsHybridSum`, `RandomizeIsSquareRoot`, `ImplementsContract` | doMultiply returns exactly the hybrid sum, each component weighted sqrt(w)·sqrt(w) and field-weighted on both sides, between the common outer adjoint and forward blocks. doRandomize returns one sample per component whose covariance is that component's term. The loops of both handlers implement the one-step contract under the refinement mapping. |
| `hybrid_id` | violation | `RandomizeIsSquareRoot` | With an ID component the sample is zero while multiply is the identity (finding). |
| `spectral` | pass | `TypeOK`, `MultiplyMatchesLayout` | Every multiply convolves row i with the correlation of the total wavenumber of row i, against a reference definition built from the layout rule of spec 4.1, through any order of read, multiply, write and adjoint test. |
| `spectral_write` | violation | `WrittenIsOperator` | The written correlation is the sum over the ranks (finding). |
| `factory` | pass | `TypeOK`, `RegistryMatchesLinked` | For every subset of the makers linked (the three under `src/` and a second "ID" maker) and every order of static initialisation, main starts with one maker per linked name, the one its unit registers; a build with two makers of one name terminates before main. `TypeOK` includes that create only makes blocks of registered makers. |
| `gsi` | pass | `TypeOK`, `LastSlotComplete` | What create and multiply let through unset always belongs to a slot before the last one. |
| `gsi_unset` | violation | `NoUnsetInputReachesGSI` | Unset fields of an earlier slot reach GSI (finding). |
| `gsi_crash` | violation | `MissingFieldsAbortCleanly` | A missing `t` makes the `tv` repair dereference a null pointer (finding). |
| `training` | pass | `TypeOK`, `MembersMatchEnsembles`, `CentredRandomizedEnsemble`, `TrainingReturns` | BUMP is built with the sizes of the ensembles held, and addMember hands it exactly their members. A randomized ensemble has zero mean and keeps the draws' differences. Under weak fairness, execute always ends, and a run that does not ABORT returns only after deleting the geometry it allocated. |
| `training_stale_ne` | violation | `UpdatesWithinBumpSizes` | The iterative algorithm hands BUMP member indices beyond the size it was built with (finding). |
| `hydrobal` | pass | `TypeOK` | `augmentedStateFieldSet_` only shares fields the caller's background holds, and a background that lacks a required field makes the constructor throw. |
| `hydrobal_aliasing` | violation | `BackgroundUnchanged` | Building the block overwrites seven fields of the caller's background state (finding). |

Every property of a passing run has a mutant in `PROJECT.json`: a
plausible bug in the mapped code that TLC then catches under the same
configuration.

## Bounds and why they suffice

- **hybrid:** two components and two outer blocks per chain.
  - The central blocks are Ensemble and BUMP_NICAS (ID in `hybrid_id`).
  - The weights are default, 1.0 and 0.3, with and without a field
    weight.
  - This covers every branch of the loop bodies: weight equal or unequal
    to 1.0, field weight empty or not, a common outer chain or none, and
    two components, so that terms could leak between components.
- **spectral:**
  - Truncation N = 1 and zonal wavenumbers 0 and 1, so the layout has
    rows for (m, n) = (0,0), (0,1), (1,1), each real and imaginary.
  - Two levels, so the convolution mixes levels.
  - Two variables, one active, so inactive variables must be left alone.
  - Two ranks, so a gather differs from a copy.
  - Correlation entries in {-1, 0} off the diagonal.
  - Three test field sets: a constant one, which reaches rows of both
    total wavenumbers, and unit vectors on rows 3 and 6. Those two rows
    have the same total wavenumber n = 1 and different zonal wavenumbers
    (m = 0 and m = 1). So a layout that picked the correlation by m
    instead of n is caught.
  - Two unit vectors on different rows give dp1 = dp2 = 0 in the adjoint
    test, whatever the correlation. So the 0/0 case of `adjointTest`
    (hazard at `SaberCentralBlockBase.cc:121`) is reached, and the block
    throws there. With the code's random vectors, this needs the two dot
    products to cancel exactly.
- **gsi:** two time slots, so the first-versus-last-slot difference
  exists, and two calls after create. The variables are `tv`, `q`,
  `prse`, `sst` and `ts`, and the guesses are `ps` and `q`. Together
  these reach each repair path, including the SST block of `cvfix_`,
  which is entered only when `ts` is missing. The
  JEDI fields of a slot range over every subset of the fields.

- **training:**
  - at most 2 members per ensemble, and draws in {0, 1}, so that both
    equal and unequal members occur;
  - the driver sets: none; `compute_cov2` (members of ensemble 2 added);
    the iterative algorithm with `new_var`; and the iterative algorithm
    with `new_mom` and `compute_loc2`;
  - operator applications: none, one known operator, or a known one
    followed by an unknown one (ABORT after a partial write);
  - outputs: none, or one low-resolution and one full-resolution
    parameter.
  These reach every branch of the ensemble setup, the size override of
  lines 307-310, and a BUMP section that configures more members than
  an ensemble has.
- **hydrobal:** two configurable variables, so that unequal input and
  output lists and active variables outside the inputs occur. The
  background has every required field, or lacks any one of them. At
  most three operator calls, so that every operator follows
  construction and repeated calls occur.

- **factory:** the makers of `part_004` and `part_001`, plus a second maker
  of "ID", which stands for a build linking two blocks of one name. Every
  subset may be linked and the makers may initialise in any order. The
  names asked for include "Hybrid", which no central maker registers.

## Fairness

Only `TrainingReturns` (in the `training` run) assumes fairness: `FairSpec` adds
`WF_vars(Next)`. `execute` is one thread of control. It never waits on
another process: spec 5 has no suspension, and the driver's only
collectives are in BUMP, outside the model. So a step it can take is
eventually taken. The other properties are safety properties. Those
handlers are called by the OOPS driver, whose scheduling is not in
`src/`, so no fairness is assumed for them.

Deadlock checking:

- It is off for `spectral`, because an exception ("aborted") ends the
  program there.
- It is also off for `gsi`, where `Done` records that the run has
  stopped.
- It is also off for `factory`: a duplicate registration or a failed
  lookup ends the process.
- It is also off for the training runs, because "done" (return 0) and
  "aborted" end the program.
- It is also off for `hydrobal`, because NotImplemented and a failed
  ASSERT end the program. A ready block that has made its `MaxCalls`
  calls also stops there.
- `hybrid` has no stopping state and checks deadlock.

## Proofs

`HybridCovarianceProofs` proves `THEOREM TypeCorrect == Spec => []TypeOK`
for every value of `MaxComps`, `MaxOuter`, `CentralBlocks` and
`WeightValues` that satisfies the module's ASSUMEs.

TypeOK alone is not inductive. `ConstructHybrid` and `ConstructSingle`
replace the component lists, and `jj` must then still lie in
`1..Len(hybridBlockChain)+1`. This holds because construction happens
only while `jj = 1`. The inductive invariant is therefore

    IInv == TypeOK /\ (pc = "unbuilt" => jj = 1)

The proof has four steps:

1. `InitIInv` shows that the initial state satisfies IInv.
2. `NextIInv` shows that IInv is preserved, with one step per action.
   The lemmas it uses:
   - `ApplyWordType`, `ScaleByType`, `ChainWordType`, `ChainType` and
     `ApplyWeightType` give the types of the term operators;
   - `SingletonType` states that the one-element vectors built by the
     non-hybrid constructor are functions on 1..1.
3. IInv implies TypeOK.
4. `TypeCorrect` combines these with PTL.

The same module proves
`MultiplyAsDocumented == Spec => []MultiplyIsHybridSum`. The invariant is
not inductive: `MultiplyFinish` copies out whatever `dxo` holds. The
strengthening `MInv` adds to IInv three facts:

- before construction nothing has returned;
- inside doMultiply, `dxi` is the input through the common outer
  adjoints;
- `dxo` holds `PTerm(1)`, ..., `PTerm(jj-1)`, the terms of the
  components visited so far.

The argument rests on the fact that every field in the loop holds one
term. `ApplyWordSingleton` and `ScaleBySingleton` reduce the term
operators on a one-term field to appending to the word and raising the
weight exponent. From them:

- `WeightSingleton` gives one application of a component's weights;
- `ChainSingleton` gives its chain's multiply;
- `ComponentTerm` gives one loop iteration, which appends exactly
  `<<PTerm(jj)>>`;
- `HybridTermForm` shows that `PTerm(j)` followed by the common outer
  blocks is the j-th term of `HybridSum`.

`HybridCovarianceRefinement` proves
`ImplementsContractProof == Spec => ImplementsContract`: under the
refinement mapping of `HybridCovariance`, the combiner with its loops
implements the one-step contract `HybridCovarianceContract`. This holds
for every value of the constants.

The proof has the usual two parts:

- `Init` maps to the contract's `Init`.
- `RefineStep` shows that every step maps to a contract step or to a
  stutter, under an invariant `RInv` that holds before and after:
  - the constructors map to `Construct`, and `ConstructBuilt` shows
    that the configuration they build is one of `BuiltConfigs`;
  - `MultiplyFinish` maps to `Multiply`, by `MultiplyIsHybridSum`;
  - `RandomizeFinish` maps to `Randomize`;
  - the other handler steps change only `pc` between non-"unbuilt"
    values, `jj`, `dxi` and `dxo`, which the contract does not see.

`RInv` extends `MInv` with two facts about doRandomize: what its loop
has accumulated, and that `randOut` is `HybridSample(config)` once
doRandomize has returned.

The randomize half needs care, because `HybridSample` is a `FlattenSeq`.
`FlattenSeq` is defined by a local recursive function, which the provers
cannot unfold by induction. The loop invariant `SampleAcc` therefore
carries the induction itself. `FlatRec(g, s, k)` says that `g` solves
the recursion of `FlattenSeq` over `1..k`. `SampleAcc` says two things:

- the recursion over the first `jj-1` component samples has a solution;
- every solution ends in `dxo` through the common outer blocks.

Each step of the proof rests on a lemma:

- `FlatRecStep` extends the recursion by one index and is used for each
  `RandomizeComponent`;
- `SampleTerm` shows that one component's weighted sample, through the
  common outer blocks, is its term of `HybridSample`;
- `ApplyWordConcat` shows that the outer blocks distribute over the
  concatenation of field sets;
- at the end, `FlattenByRec` identifies the last value of the recursion
  with `FlattenSeq` itself. `FlattenSeq`'s local recursive function is
  the CHOOSE of a solution of that recursion. So existence and
  uniqueness of the last value are enough, and no induction is needed.

`HybridCovarianceSamples` proves
`RandomizeSquareRootProof == Spec => []RandomizeIsSquareRoot` under the
hypothesis `"ID" \notin CentralBlocks`, for every value of the other
constants. The hypothesis is needed: with an ID component the property
is false, and the `hybrid_id` run shows why (ID's randomize leaves
doRandomize's zero field set as it is, so ID contributes no sample). The
passing run's central blocks are exactly such a set.

The inductive invariant is `QInv == RInv /\ SampleUnique`.
`SampleUnique` says that once doRandomize has returned, every solution
of `FlattenSeq`'s recursion over all component samples ends in
`randOut`. `RandomizeFinish` establishes it from `SampleAcc`; the
other steps leave the configuration and `randOut` alone. From `QInv`:

- `SampleSingleton`: without ID, each component's sample is one term,
  `SampleRec(j)`;
- `ExplicitFlat`: the prefixes `FlatSamples(i)` of those terms solve
  the recursion, so by `SampleUnique` `randOut` is the sequence of the
  sample terms (`RandOutTerms`);
- `SampleShape`: term j comes from component j and starts with `L_j`;
- `CovarianceTerm`: the covariance of term j, its word after `L_j`
  transposed around `C_j`, is doMultiply's term j. This uses the
  lemmas on `AdjWord`: it reverses a concatenation (`AdjWordConcat`),
  turns the forward outer blocks into `applyOuterBlocksAD`'s word
  (`AdjFwd`), and leaves a field weight alone (`AdjFieldWeight`).

`MultiplyIsHybridSum`, part of `MInv`, gives `multOut`, and
`SquareRootState` combines these facts into the invariant.

`GSICovarianceProofs` proves `LastSlotChecked == Spec => []LastSlotComplete`
and `GSITypeCorrect == Spec => []TypeOK` for any number of time slots and
any variable sets. The invariant is strengthened with "before create,
nothing has reached GSI unset". The key lemma is `CheckedSlot`. A variable
missing from the last slot is "missing" in the status vector. The check
passes only if the repair filled it. So the variable counts as repaired
and is not in the unset set. Along the way, `FixType` shows that the
repairs keep the status vector's domain.

`CentralBlockFactoryProofs` proves
`RegistryOrderIndependent == Spec => []RegistryMatchesLinked` for any set
of makers. Its inductive invariant says two things:

- during static initialisation, getMakers() holds exactly the pairs of
  the makers that have run, and their names are distinct;
- main starts only when all of them have run.

The duplicate check in `Register` is what keeps the names distinct.
The same invariant gives `FactoryTypeCorrect == Spec => []TypeOK`.

`ErrorCovarianceTrainingProofs` proves
`LedgerMatchesEnsembles == Spec => []MembersMatchEnsembles` for every
ensemble size bound and every configuration. The inductive invariant
adds three facts:

- nothing is added before BUMP is built;
- while members are added, `ens1_ne`/`ens2_ne` still equal the sizes
  BUMP was built with;
- those sizes are the sizes of the ensembles held, which is what the
  override of lines 307-310 ensures.

The lemma `AddedShape` shows that the indices the two addMember loops
produce for ensemble k are exactly `0..ne[k]-1`.

The module also proves `TrainingTypeCorrect == Spec => []TypeOK`. Here
TypeOK is inductive as it stands (`InitTypeOK`, `NextTypeOK`), given
the assumptions on the constants:

- `SeqSumType`: the sum of a sequence of integers is an integer. The
  two sets of units are finite unions of finite sets (`UnitsFinite`,
  from `FS_Surjection`, `FS_Product` and `FS_UNION`), so their
  cardinalities are naturals.
- `RemoveMeanType`: hence the members of ensemble 2 with the mean
  removed are integers.
- `OutputChoicesAssumption`: the "output" section is a vector of
  parameters, each named by a string (lines 41 and 123). So the files
  `WriteOutputs` appends are records of `Written`.
- The member loops stop below `ne[k]` and `memberConfig[k]`. Both are
  at most `MaxMembers`, so no index handed to BUMP reaches it.

`HydroBalProofs` proves `HydroBalTypeCorrect == Spec => []TypeOK`. Its
inductive invariant says three things:

- before construction, the background is as passed and nothing has been
  applied;
- once the block is ready, `augmentedStateFieldSet_` shares every
  required field;
- the background then holds what the evaluations made of the caller's
  fields.

The lemmas `EvaluatedWriter` and `EvaluatedKeeps` show that no two
evaluations write one field. So a field's provenance is the one
evaluation that writes it, or "file".

No property is stated about the trajectory the operators read. The only
description of it is the comments of lines 76-82, and the model takes
what each evaluation writes from those same comments. Such a property
would hold whatever the code does. The sharing of the caller's fields is
shown instead by the `hydrobal_aliasing` violation run.

## What is only model-checked

The following properties are checked by TLC only:

- `RandomizeIsSquareRoot` with an ID central block, where it is false
  (the `hybrid_id` violation run); without ID it is proved;
- the GSI properties that the violation runs check;
- `TypeOK` and `MultiplyMatchesLayout` of `SpectralCorrelation`;
- `CentredRandomizedEnsemble`;
- `TrainingReturns`, a liveness property.

These hold on the instances above, and no proof is claimed for them.

- **SpectralCorrelation.** The row layout `RowWavenumber` is a
  `FlattenSeq` of nested sequences. `Den` is a `ProductSet`. The
  convolutions are `SumFunction`s. All three are folds, so their values
  are defined by recursion over their input. Even the type of
  `Multiply` needs every row's wavenumber to lie in `0..N`, which is an
  induction over the zonal wavenumbers. TLAPS cannot do that induction:
  the library's induction theorems take an operator parameter, which
  the installed provers cannot instantiate.
- **CentredRandomizedEnsemble.** `SeqSum` is not recursive, so its type
  is proved. But that the members sum to zero after the mean is removed
  is linearity of the sum, `SeqSum([i |-> n*d[i] - SeqSum(d)]) =
  n*SeqSum(d) - n*SeqSum(d)`. That needs the additivity of the count
  over a sequence of any length, which is again an induction.
- **TrainingReturns.** Liveness needs ENABLED and fairness reasoning,
  which is beyond TLAPS here. It is left to TLC.

## Not modelled

- **doInverseMultiply** only calls GMRESR, which is not in `src/`.
- **Geometry allocation and ensemble reading** in the constructor are
  I/O, abstracted to the component list. The leaked geometries are
  listed as a hazard.
- **SPNOINTERP_COV** forwards to a class that is not in `src/`.
- **MoistIncrOp and the GSI interpolation** have only declarations or
  numerical kernels in `src/`.
- **The `mo::` operators** that HydroBal calls are not in `src/`. Only
  the trajectory they are given is modelled, not what they compute.
- **The block-chain factory** (`instantiateBlockChainFactory.h`) only
  declares makers. The factory's code is not in `src/`.

## Plan

Done:

- the hybrid combiner, with its proof of type correctness;
- the spectral correlation block with the adjoint test;
- the GSI central block.

Next:

1. (done) The central block factory, with its proof.
2. (done) The training driver, with its proof, its liveness and the
   `ens1_ne` finding.
3. (done) A proof that `MultiplyIsHybridSum` is an invariant, through
   the loop invariant `MInv`.
4. (done) Proofs about `GSICovariance`.
5. (done) The HydroBal outer block, with its proofs, and the contract
   that `HybridCovariance` refines.
6. (done) A proof of the refinement, `ImplementsContractProof`. Its
   multiply half follows from `MInv`. Its randomize half uses the loop
   invariant `SampleAcc`, which carries the `FlattenSeq` recursion.
7. (done) A proof of `RandomizeIsSquareRoot` without ID,
   `RandomizeSquareRootProof`, from the uniqueness fact `SampleUnique`
   and the lemmas on `AdjWord`.
8. (done) Proofs of the type invariants of `CentralBlockFactory`
   (`FactoryTypeCorrect`) and `ErrorCovarianceTraining`
   (`TrainingTypeCorrect`). The one for `ErrorCovarianceTraining`
   needed `SeqSum` without recursion. `SpectralCorrelation`'s stays
   with TLC (see above).
