----------------------- MODULE ErrorCovarianceTraining -----------------------
(***************************************************************************)
(* saber::ErrorCovarianceTraining::execute                                 *)
(* (src/saber/oops/ErrorCovarianceTraining.h): the training application.   *)
(* It builds ensemble 1 on the target geometry and ensemble 2 on the       *)
(* low-resolution one (randomized from a B matrix, or read), constructs    *)
(* BUMP with the two ensemble sizes, hands it the members (addMember, or   *)
(* the update* calls of the iterative algorithm), runs the drivers,        *)
(* applies the listed operators to input files and writes the outputs.    *)
(*                                                                         *)
(* The program is sequential, so every phase of execute is one action,    *)
(* its loops computed whole.  An ensemble is its size; the members of a    *)
(* randomized ensemble are integers, each multiplied by the ensemble size  *)
(* so that the mean of line 244 is exact.  BUMP is not under src/: its     *)
(* memberConfig lists are the members its own section configures, or none. *)
(* Configuration sections read once are chosen where they are read; those *)
(* read at several places are fixed in cfg.                                *)
(***************************************************************************)
EXTENDS Integers, Sequences, FiniteSets

CONSTANTS
  MaxMembers,     \* most members one configured ensemble has
  Draws,          \* the values Bmat->randomize gives a member
  DriverChoices,  \* the sets of BUMP drivers a configuration switches on
  AppChoices,     \* the "bump operators" lists of the "operators application" section
  OutputChoices,  \* the "parameter" lists of the "output" section
  NoEnsemble      \* a null EnsemblePtr_

ASSUME MaxMembersAssumption == MaxMembers \in Nat \ {0}
ASSUME DrawsAssumption == Draws \subseteq Int
ASSUME NoEnsembleAssumption == NoEnsemble \notin Int
\* The "output" section is a std::vector of OutputParameters (line 123),
\* each named by its std::string "parameter" (line 41).
ASSUME OutputChoicesAssumption == OutputChoices \subseteq Seq(STRING)

Drivers == {"compute_cov2", "compute_cor2", "compute_loc2", "iterative_algo",
            "new_vbal_cov", "new_var", "new_mom"}
Compute2 == {"compute_cov2", "compute_cor2", "compute_loc2"}
Update1 == {"new_vbal_cov", "new_var", "new_mom"}

\* The configuration sections that give ensemble 1 and ensemble 2.
Ens1Sections == {"ensemble", "ensemble pert", "ensemble base", "ensemble pairs"}
Ens2Sections == {"background error", "lowres ensemble", "lowres ensemble pert",
                 "lowres ensemble base", "lowres ensemble pairs"}

\* The output parameters written on the low-resolution geometry.
LowResParams == {"loc_a_lr", "loc_rh_lr", "loc_rh1_lr", "loc_rh2_lr",
                 "loc_rhc_lr", "loc_rv_lr", "dirac_diag_loc_lr",
                 "nicas_norm_lr", "dirac_nicas_lr", "dirac_nicas_bens_lr"}

Configs == [geom2 : BOOLEAN, bump : BOOLEAN, drivers : DriverChoices,
            apps : AppChoices, outputs : OutputChoices]

Sizes == 0..MaxMembers

VARIABLES
  pc,            \* the phase of execute
  cfg,           \* the configuration sections read at several places
  ens1,          \* ensemble 1: its size, or NoEnsemble
  ens2,          \* ensemble 2: its size, or NoEnsemble
  rand2,         \* the randomized members of ensemble 2, times its size
  draws,         \* what Bmat->randomize returned for each member
  geom2,         \* what geom2 points to: "geom1", "own" or "deleted"
  ne,            \* the locals <<ens1_ne, ens2_ne>>
  bumpSizes,     \* the ensemble sizes BUMP was constructed with
  memberConfig,  \* the sizes of bump->memberConfig1() and memberConfig2()
  added,         \* the <<ie, ensemble>> of every addMember call
  updated,       \* the <<ie, ensemble, driver>> of every update* call
  iapp,          \* the index of the operator application being run
  written        \* the files written, in order

vars == <<pc, cfg, ens1, ens2, rand2, draws, geom2, ne, bumpSizes,
          memberConfig, added, updated, iapp, written>>

\* The sum of a sequence of integers, counted in units: one pair <<i, k>>
\* for each of the s[i] units of a positive member, less one for each unit
\* of a negative member.  The count needs no recursion, so that the sum is
\* an integer by the cardinality of finite sets alone.
SeqSum(s) ==
  Cardinality(UNION {{i} \X (1..s[i]) : i \in DOMAIN s})
    - Cardinality(UNION {{i} \X (1..(0 - s[i])) : i \in DOMAIN s})

\* The object geom2 points to, as a geometry a file is written on.
Geom2Obj == IF geom2 = "own" THEN "geom2" ELSE "geom1"

\* The if / else-if chains of lines 190-205 and 256-257: an ensemble is
\* built when one of its sections, or both base and pairs, are present.
HasEnsemble(s, pairs) == s \ pairs # {} \/ pairs \subseteq s

\* Mutant: the member loops run to ie <= ne.
MemberLoopInclusive(n) == 0..n

\* The indices of the member loops: for (ie = 0; ie < ne; ++ie).
MemberLoop(n) == 0..n - 1

\* Mutant: the mean added up but not divided by ens2_ne.
RemoveMeanUnscaled(d) ==
  [i \in DOMAIN d |-> Len(d) * d[i] - Len(d) * SeqSum(d)]

\* Lines 234-248: members stored, summed into mean, mean *= 1/ens2_ne,
\* then subtracted from every member (all fields times ens2_ne).
RemoveMean(d) == [i \in DOMAIN d |-> Len(d) * d[i] - SeqSum(d)]

\* Mutant: lines 309-310 dropped, the sizes of the bump section kept.
EnsembleSizesFromConfig(c1, c2) == <<c1, c2>>

\* Lines 307-310: the sizes of the bump section, replaced by those of the
\* ensembles that exist.
EnsembleSizes(c1, c2) ==
  <<IF ens1 = NoEnsemble THEN c1 ELSE ens1, IF ens2 = NoEnsemble THEN c2 ELSE ens2>>

Init ==
  /\ pc = "ens1"
  /\ cfg \in Configs
  /\ ens1 = NoEnsemble /\ ens2 = NoEnsemble
  /\ rand2 = <<>> /\ draws = <<>>
  /\ geom2 = "geom1"
  /\ ne = <<0, 0>> /\ bumpSizes = <<0, 0>> /\ memberConfig = <<0, 0>>
  /\ added = {} /\ updated = {}
  /\ iapp = 1
  /\ written = <<>>

\* Lines 184-205: ensemble 1 from states, from increments, or from pairs.
SetupEnsemble1 ==
  /\ pc = "ens1"
  /\ \E s \in SUBSET Ens1Sections, n \in 1..MaxMembers :
       ens1' = IF HasEnsemble(s, {"ensemble base", "ensemble pairs"})
               THEN n ELSE NoEnsemble
  /\ pc' = "ens2"
  /\ UNCHANGED <<cfg, ens2, rand2, draws, geom2, ne, bumpSizes, memberConfig,
                 added, updated, iapp, written>>

\* Lines 207-278: the low-resolution geometry, then ensemble 2.  With a
\* "background error" section the B matrix draws ens2_ne members, their
\* mean is removed, and the ensemble may be written; otherwise a
\* low-resolution ensemble is read.
SetupEnsemble2 ==
  /\ pc = "ens2"
  /\ geom2' = IF cfg.geom2 THEN "own" ELSE "geom1"
  /\ \E s \in SUBSET Ens2Sections :
       IF "background error" \in s
       THEN \E n \in Sizes : \E d \in [1..n -> Draws], out \in BOOLEAN :
              /\ ens2' = n
              /\ draws' = d
              /\ rand2' = RemoveMean(d)
              /\ written' = IF out
                            THEN Append(written, [item |-> "randomized ensemble",
                                                  geom |-> Geom2Obj'])
                            ELSE written
       ELSE /\ \E n \in 1..MaxMembers :
                 ens2' = IF HasEnsemble(s, {"lowres ensemble base", "lowres ensemble pairs"})
                         THEN n ELSE NoEnsemble
            /\ UNCHANGED <<rand2, draws, written>>
  /\ pc' = "bump"
  /\ UNCHANGED <<cfg, ens1, ne, bumpSizes, memberConfig, added, updated, iapp>>

\* Lines 300-324: the sizes come from the bump section, overridden by the
\* ensembles that exist; BUMP's member lists are those of its section.
BumpConstruct ==
  /\ pc = "bump"
  /\ cfg.bump
  /\ \E c1, c2 \in Sizes, m1, m2 \in BOOLEAN :
       /\ ne' = EnsembleSizes(c1, c2)
       /\ bumpSizes' = ne'
       /\ memberConfig' = <<IF m1 THEN c1 ELSE 0, IF m2 THEN c2 ELSE 0>>
  /\ pc' = "add"
  /\ UNCHANGED <<cfg, ens1, ens2, rand2, draws, geom2, added, updated, iapp,
                 written>>

\* Without a bump section no training happens.
SkipBump ==
  /\ pc = "bump"
  /\ ~cfg.bump
  /\ pc' = "output"
  /\ UNCHANGED <<cfg, ens1, ens2, rand2, draws, geom2, ne, bumpSizes,
                 memberConfig, added, updated, iapp, written>>

\* Lines 326-347: every member of ensemble 1, and of ensemble 2 when a
\* driver needs it.
AddMembers ==
  /\ pc = "add"
  /\ added' =
       {<<ie, 1>> : ie \in IF ens1 # NoEnsemble THEN MemberLoop(ne[1]) ELSE {}}
       \cup {<<ie, 2>> : ie \in IF ens2 # NoEnsemble /\ cfg.drivers \cap Compute2 # {}
                                THEN MemberLoop(ne[2]) ELSE {}}
  /\ pc' = "iter"
  /\ UNCHANGED <<cfg, ens1, ens2, rand2, draws, geom2, ne, bumpSizes,
                 memberConfig, updated, iapp, written>>

\* Lines 349-396: the iterative algorithm loads the members of BUMP's
\* lists one by one, resetting ens1_ne / ens2_ne to the lists' sizes.
IterativeLoad ==
  /\ pc = "iter"
  /\ IF "iterative_algo" \in cfg.drivers
     THEN /\ ne' = <<IF memberConfig[1] > 0 THEN memberConfig[1] ELSE ne[1],
                     IF memberConfig[2] > 0 THEN memberConfig[2] ELSE ne[2]>>
          /\ updated' =
               {<<ie, 1, d>> : ie \in MemberLoop(memberConfig[1]), d \in cfg.drivers \cap Update1}
               \cup {<<ie, 2, "new_mom">> : ie \in IF "new_mom" \in cfg.drivers
                                                   THEN MemberLoop(memberConfig[2]) ELSE {}}
     ELSE UNCHANGED <<ne, updated>>
  /\ pc' = "drivers"
  /\ UNCHANGED <<cfg, ens1, ens2, rand2, draws, geom2, bumpSizes, memberConfig,
                 added, iapp, written>>

\* Lines 398-402: runDrivers and partialDealloc.
RunDrivers ==
  /\ pc = "drivers"
  /\ pc' = "apply"
  /\ UNCHANGED <<cfg, ens1, ens2, rand2, draws, geom2, ne, bumpSizes,
                 memberConfig, added, updated, iapp, written>>

\* Mutant: an unknown operator skipped without leaving the loop.
ApplyOperatorsNoAbort ==
  /\ pc = "apply"
  /\ iapp <= Len(cfg.apps)
  /\ IF \A i \in DOMAIN cfg.apps[iapp] : cfg.apps[iapp][i] = "inverseMultiplyVbal"
     THEN /\ written' = Append(written, [item |-> "application", geom |-> "geom1"])
          /\ iapp' = iapp + 1
          /\ UNCHANGED pc
     ELSE UNCHANGED <<pc, written, iapp>>
  /\ UNCHANGED <<cfg, ens1, ens2, rand2, draws, geom2, ne, bumpSizes,
                 memberConfig, added, updated>>

\* Lines 410-436, one application: read the input, apply each operator
\* (ABORT on an unknown one), write the output.
ApplyOperators ==
  /\ pc = "apply"
  /\ iapp <= Len(cfg.apps)
  /\ IF \A i \in DOMAIN cfg.apps[iapp] : cfg.apps[iapp][i] = "inverseMultiplyVbal"
     THEN /\ written' = Append(written, [item |-> "application", geom |-> "geom1"])
          /\ iapp' = iapp + 1
          /\ UNCHANGED pc
     ELSE /\ pc' = "aborted"
          /\ UNCHANGED <<written, iapp>>
  /\ UNCHANGED <<cfg, ens1, ens2, rand2, draws, geom2, ne, bumpSizes,
                 memberConfig, added, updated>>

ApplyDone ==
  /\ pc = "apply"
  /\ iapp > Len(cfg.apps)
  /\ pc' = "output"
  /\ UNCHANGED <<cfg, ens1, ens2, rand2, draws, geom2, ne, bumpSizes,
                 memberConfig, added, updated, iapp, written>>

\* Lines 439-500: with BUMP, every output parameter is fetched and written,
\* on geom2 for the low-resolution ones and on geom1 for the others.
WriteOutputs ==
  /\ pc = "output"
  /\ written' = written \o
       IF cfg.bump
       THEN [i \in DOMAIN cfg.outputs |->
               [item |-> cfg.outputs[i],
                geom |-> IF cfg.outputs[i] \in LowResParams THEN Geom2Obj ELSE "geom1"]]
       ELSE <<>>
  /\ pc' = "delete"
  /\ UNCHANGED <<cfg, ens1, ens2, rand2, draws, geom2, ne, bumpSizes,
                 memberConfig, added, updated, iapp>>

\* Lines 502-507: delete the geometry execute allocated, return 0.
Finish ==
  /\ pc = "delete"
  /\ geom2' = IF cfg.geom2 THEN "deleted" ELSE geom2
  /\ pc' = "done"
  /\ UNCHANGED <<cfg, ens1, ens2, rand2, draws, ne, bumpSizes, memberConfig,
                 added, updated, iapp, written>>

Next ==
  \/ SetupEnsemble1
  \/ SetupEnsemble2
  \/ BumpConstruct
  \/ SkipBump
  \/ AddMembers
  \/ IterativeLoad
  \/ RunDrivers
  \/ ApplyOperators
  \/ ApplyDone
  \/ WriteOutputs
  \/ Finish

Spec == Init /\ [][Next]_vars

\* execute is one thread of control that never waits: a step it can take
\* is eventually taken.
FairSpec == Spec /\ WF_vars(Next)

-----------------------------------------------------------------------------
Pcs == {"ens1", "ens2", "bump", "add", "iter", "drivers", "apply", "output",
        "delete", "done", "aborted"}
Written == [item : {"randomized ensemble", "application"} \cup UNION
                     {{o[i] : i \in DOMAIN o} : o \in OutputChoices},
            geom : {"geom1", "geom2"}]

TypeOK ==
  /\ pc \in Pcs
  /\ cfg \in Configs
  /\ ens1 \in (1..MaxMembers) \cup {NoEnsemble}
  /\ ens2 \in Sizes \cup {NoEnsemble}
  /\ rand2 \in Seq(Int) /\ draws \in Seq(Draws)
  /\ geom2 \in {"geom1", "own", "deleted"}
  /\ ne \in Sizes \X Sizes
  /\ bumpSizes \in Sizes \X Sizes
  /\ memberConfig \in Sizes \X Sizes
  /\ added \subseteq (0..MaxMembers - 1) \X {1, 2}
  /\ updated \subseteq (0..MaxMembers - 1) \X {1, 2} \X Update1
  /\ iapp \in Nat
  /\ written \in Seq(Written)

\* The indices BUMP received for ensemble k through addMember.
AddedIndices(k) == {ie \in Sizes : <<ie, k>> \in added}

\* The size of the existing ensemble k.
EnsSize(k) == IF k = 1 THEN ens1 ELSE ens2

\* Spec 3, "Ensemble Ledger": BUMP is constructed with the size of each
\* ensemble the driver holds (lines 309-310), and addMember hands it
\* exactly the members 0..size-1 of that ensemble, no index beyond it;
\* ensemble 1, when it exists, is handed over whole.
MembersMatchEnsembles ==
  \A k \in {1, 2} :
    /\ AddedIndices(k) # {} =>
         /\ EnsSize(k) # NoEnsemble
         /\ AddedIndices(k) = 0..EnsSize(k) - 1
         /\ bumpSizes[k] = EnsSize(k)
    /\ pc \in {"iter", "drivers", "apply", "output", "delete", "done", "aborted"}
       /\ cfg.bump /\ k = 1 /\ ens1 # NoEnsemble
       => AddedIndices(1) = 0..ens1 - 1

\* Lines 231-248: the randomized ensemble has its mean removed: its
\* members sum to zero, and each differs from the others as the draws do.
CentredRandomizedEnsemble ==
  /\ SeqSum(rand2) = 0
  /\ \A i, j \in DOMAIN rand2 : rand2[i] - rand2[j] = Len(draws) * (draws[i] - draws[j])

\* Spec 3, "Ensemble Ledger": the samples of a calibration pass match the
\* configured ensemble size.  The iterative algorithm hands BUMP the
\* members of memberConfig1() (line 353 resets ens1_ne to its size), which
\* nothing checks against the ens1_ne BUMP was constructed with (line 320).
UpdatesWithinBumpSizes ==
  \A u \in updated : u[1] < bumpSizes[u[2]]

\* execute returns (lines 502-507) on every configuration: each loop ends,
\* and a run that does not ABORT on an unknown operator returns 0 only
\* after deleting the low-resolution geometry it allocated.
TrainingReturns ==
  <>(pc = "aborted" \/ (pc = "done" /\ geom2 # "own"))
=============================================================================
