---------------------------- MODULE GSICovariance ----------------------------
(***************************************************************************)
(* The GSI central block, gsi_covariance_mod (src/unnamed/part_003): the   *)
(* handlers create, multiply and randomize, the field lookup get_rank2_,   *)
(* and the repairs cvfix_/svfix_ of fields missing from the JEDI side.     *)
(*                                                                         *)
(* Data is abstracted to which fields are present: a JEDI field set of a   *)
(* time slot is the set of GSI names get_rank2_ finds in it.  The GSI      *)
(* error operator itself (gsibec_cv_space/sv_space) is not under src/: the *)
(* model records which (slot, variable) pairs reach it without having been *)
(* set from the JEDI fields or repaired.  Each handler is one action: the  *)
(* Fortran runs to completion, or to abor1_ftn, on every rank alike.       *)
(***************************************************************************)
EXTENDS Integers, FiniteSets

CONSTANTS
  NTimes,     \* ntimes, the time slots of the 4D field sets
  GVars,      \* cvars2d/cvars3d (or svars2d/svars3d): the GSI variables
  MetVars,    \* gsi_metguess gsinames: the guess variables
  MaxCalls    \* bound on the number of multiply and randomize calls

ASSUME NTimesAssumption == NTimes \in Nat \ {0}
ASSUME CallsAssumption == MaxCalls \in Nat

Slots == 1..NTimes

\* get_rank2_ maps 'ts' and 'sst' to the same JEDI skin temperature field.
JediField(v) == IF v \in {"ts", "sst"} THEN "skin" ELSE v
AllFields == {JediField(v) : v \in GVars \cup MetVars \cup {"t"}}
Has(fs, v) == JediField(v) \in fs

\* Mutant: the statuses of the first slot survive instead.
SlotStatusFirst(vs, fields) ==
  [v \in vs |-> IF Has(fields[1], v) THEN "filled" ELSE "missing"]

\* The status loop of create and multiply: itbd is reset to 0 for every
\* time slot, so each slot overwrites the status of every variable, and
\* what survives the loop is the status of the last slot.
SlotStatus(vs, fields) ==
  [v \in vs |-> IF Has(fields[NTimes], v) THEN "filled" ELSE "missing"]

\* A check passes when no entry of needvrs/tbdvars is left unfilled.
AllFilled(need) == \A v \in DOMAIN need : need[v] = "filled"

Mark(need, v) ==
  IF v \in DOMAIN need /\ need[v] = "missing"
  THEN [need EXCEPT ![v] = "filled"] ELSE need

\* cvfix_: 'tv' rebuilt from the JEDI 't'; the SST block, entered when
\* 'ts' is missing, marks 'sst'.
CvFix(need) ==
  LET n1 == IF "tv" \in DOMAIN need /\ need["tv"] = "missing"
            THEN Mark(need, "tv") ELSE need
  IN  IF "ts" \in DOMAIN n1 /\ n1["ts"] = "missing" THEN Mark(n1, "sst") ELSE n1

\* svfix_: 'prse' is left to GSI, 'tv' rebuilt from 't'.
SvFix(need) == Mark(Mark(need, "prse"), "tv")

Fix(cv, need) == IF cv THEN CvFix(need) ELSE SvFix(need)

\* The 'tv' repair reads the JEDI 't' of every slot through get_rank2_
\* without testing ier: with 't' absent it dereferences a null pointer.
TvFixCrashes(need, fields) ==
  /\ "tv" \in DOMAIN need /\ need["tv"] = "missing"
  /\ \E ii \in Slots : ~Has(fields[ii], "t")

\* The variables a repair supplies to GSI for every slot.
Repaired(cv, need) == {v \in DOMAIN need : need[v] # "filled" /\ Fix(cv, need)[v] = "filled"}

\* The (slot, variable) pairs that reach GSI without data.
Unset(vs, fields, repaired) ==
  {p \in Slots \X vs : ~Has(fields[p[1]], p[2]) /\ p[2] \notin repaired}

VARIABLES
  phase,        \* "unbuilt", "ready", "aborted" (abor1_ftn), "crashed"
  noGSI,        \* self%grid%noGSI
  cv,           \* self%cv: control-vector (TRUE) or state-vector space
  guessUnset,   \* guess (slot, variable) pairs gsibec never received
  fedUnset,     \* input pairs the last multiply handed to the B operator unset
  calls,        \* multiply and randomize calls so far
  sample        \* the field set the last randomize returned

vars == <<phase, noGSI, cv, guessUnset, fedUnset, calls, sample>>

\* A randomize result: the fields given values and the seed they came from.
Samples == [fields : SUBSET {"stream_function", "eastward_wind"}, seed : Nat]

Init ==
  /\ phase = "unbuilt"
  /\ noGSI \in BOOLEAN
  /\ cv \in BOOLEAN
  /\ guessUnset = {}
  /\ fedUnset = {}
  /\ calls = 0
  /\ sample = <<>>

\* Mutant: create checks the first guess against the control variables.
CreateGVars ==
  /\ phase = "unbuilt"
  /\ \E bkgmock \in BOOLEAN, fg \in [Slots -> SUBSET AllFields] :
       IF noGSI \/ bkgmock
       THEN /\ phase' = "ready"
            /\ UNCHANGED guessUnset
       ELSE /\ guessUnset' = Unset(GVars, fg, {})
            /\ phase' = IF AllFilled(SlotStatus(GVars, fg))
                        THEN "ready" ELSE "aborted"
  /\ UNCHANGED <<noGSI, cv, fedUnset, calls, sample>>

\* create: with GSI, either a mock background or the first guess of every
\* slot copied through bkg_set2_/bkg_set3_, then the abort when any entry
\* of tbdvars is not 'filled'.
Create ==
  /\ phase = "unbuilt"
  /\ \E bkgmock \in BOOLEAN, fg \in [Slots -> SUBSET AllFields] :
       IF noGSI \/ bkgmock
       THEN /\ phase' = "ready"
            /\ UNCHANGED guessUnset
       ELSE /\ guessUnset' = Unset(MetVars, fg, {})
            /\ phase' = IF AllFilled(SlotStatus(MetVars, fg))
                        THEN "ready" ELSE "aborted"
  /\ UNCHANGED <<noGSI, cv, fedUnset, calls, sample>>

\* multiply: nothing with noGSI; else the slot loop, the 'adm' repair and
\* check, the B operator, the copy back, the 'tlm' repair and check.  The
\* 'tlm' check starts again from tbdvars and repairs the same entries as
\* the 'adm' one, so it passes whenever the 'adm' check did.
Multiply ==
  /\ phase = "ready"
  /\ calls < MaxCalls
  /\ calls' = calls + 1
  /\ IF noGSI
     THEN UNCHANGED <<phase, fedUnset>>
     ELSE \E fields \in [Slots -> SUBSET AllFields] :
            LET tbd == SlotStatus(GVars, fields)
            IN  IF TvFixCrashes(tbd, fields)
                THEN /\ phase' = "crashed"
                     /\ UNCHANGED fedUnset
                ELSE IF ~AllFilled(Fix(cv, tbd))
                THEN /\ phase' = "aborted"
                     /\ UNCHANGED fedUnset
                ELSE /\ fedUnset' = Unset(GVars, fields, Repaired(cv, tbd))
                     /\ UNCHANGED phase
  /\ UNCHANGED <<noGSI, cv, guessUnset, sample>>

\* randomize: stream function when both psi and chi are present, else
\* eastward wind when u and v are, set by normal_distribution with
\* rseed = 3; every other field keeps what it held.  psi and u are local
\* pointers without =>NULL(): when neither pair is present, associated()
\* reads an undefined association status, and the build may skip the
\* draws or write through a wild pointer.
Randomize ==
  /\ phase = "ready"
  /\ calls < MaxCalls
  /\ calls' = calls + 1
  /\ \E has \in {{"stream_function"}, {"eastward_wind"}, {}} :
       \/ /\ sample' = [fields |-> has, seed |-> 3]
          /\ UNCHANGED phase
       \/ /\ has = {}
          /\ phase' = "crashed"
          /\ UNCHANGED sample
  /\ UNCHANGED <<noGSI, cv, guessUnset, fedUnset>>

\* The run stops after an abort or a crash, and after MaxCalls calls.
Done ==
  /\ (phase \in {"aborted", "crashed"} \/ calls = MaxCalls)
  /\ UNCHANGED vars

Next == Create \/ Multiply \/ Randomize \/ Done

Spec == Init /\ [][Next]_vars

-----------------------------------------------------------------------------
TypeOK ==
  /\ phase \in {"unbuilt", "ready", "aborted", "crashed"}
  /\ noGSI \in BOOLEAN
  /\ cv \in BOOLEAN
  /\ guessUnset \subseteq Slots \X MetVars
  /\ fedUnset \subseteq Slots \X GVars
  /\ calls \in 0..MaxCalls
  /\ sample \in Samples \cup {<<>>}

\* What the status check of create and multiply guarantees: whatever
\* reaches GSI unset after a successful create or multiply belongs to a
\* time slot before the last one, the only slot whose statuses survive
\* the loop.
LastSlotComplete ==
  phase = "ready" => \A p \in guessUnset \cup fedUnset : p[1] < NTimes

\* Spec 7, missing-field errors are never silently recovered: create and
\* multiply abort, listing what is missing, rather than hand GSI a
\* variable that some time slot lacks and nothing repairs.
NoUnsetInputReachesGSI ==
  phase = "ready" => guessUnset \cup fedUnset = {}

\* Spec 7: a missing field is reported and aborts (abor1_ftn); the 'tv'
\* repair of multiply never dereferences a 't' field that is not there.
MissingFieldsAbortCleanly == phase # "crashed"
=============================================================================
